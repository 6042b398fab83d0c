------------------------------ MODULE InboxProofs ------------------------------
(***************************************************************************)
(* Proofs about what users are told: about Inbox, for every number of      *)
(* users, events, devices and announcements, every size of a batch and     *)
(* whatever fails; and about Notifications, for every number of orders,    *)
(* watchers, announcements and deliveries, in whatever order they arrive.  *)
(***************************************************************************)
EXTENDS Inbox, FiniteSetTheorems, TLAPS

-----------------------------------------------------------------------------
(* Types *)

(* No more deliveries are about to be made than were announced. *)
Sent == \A c \in Cells : sending[c] <= announced

TypeInv == TypeOK /\ Sent

(* What createNotification works on, what a push does, and the rest. *)
NoteTypes ==
  /\ announced \in 0..MaxAnnounced
  /\ sending \in [Cells -> 0..MaxAnnounced]
  /\ inserted \subseteq Notes /\ read \subseteq Notes
  /\ unread \subseteq inbox /\ inbox \subseteq Notes
  /\ shown \in [Cells -> Nat] /\ deleted \in [Cells -> 0..MaxRemovals]
  /\ Sent
Records == [note : Notes, step : Steps, found : Seq(Tokens), index : Nat,
            answers : Seq({"invalid", "sent"}), since : SUBSET Tokens]
PushTypes ==
  /\ registered \subseteq Tokens \X Users
  /\ stale \subseteq registered
  /\ invalid \subseteq Tokens
  /\ pushes \subseteq Records
RestTypes ==
  /\ erasing \subseteq Users \X {"notifications", "devices"}
  /\ faults \in 0..MaxFaults

LEMMA TypeParts == TypeInv <=> NoteTypes /\ PushTypes /\ RestTypes
  BY DEF TypeInv, TypeOK, NoteTypes, PushTypes, RestTypes, Records

LEMMA CellTypes ==
  ASSUME NEW n \in Notes
  PROVE  /\ CellOf(n) \in Cells
         /\ n[3] \in Numbers
         /\ n = <<CellOf(n)[1], CellOf(n)[2], n[3]>>
  BY DEF Notes, Cells, CellOf

LEMMA NoteTypesSame == NoteTypes /\ UNCHANGED <<making, holding>> => NoteTypes'
  BY DEF NoteTypes, Sent, making, holding

-----------------------------------------------------------------------------
(* What every operation of an inbox does to the notifications: it deletes some *)
(* (Gone), makes or shows one, or leaves them alone.                           *)

(* The notification of an event that is in the inbox, or will be made next. *)
Current(c) == <<c[1], c[2], deleted[c] + 1>>

(* The notifications of an event that were made and are still to be shown. *)
Due(c) == {n \in inserted \cup read : CellOf(n) = c}

Numbered == \A n \in inbox : n = Current(CellOf(n))
Pending == \A n \in inserted \cup read : n \in inbox \/ n[3] <= deleted[CellOf(n)]
Counted ==
  \A c \in Cells :
    /\ IsFiniteSet(Due(c))
    /\ shown[c] + Cardinality(Due(c)) <= deleted[c] + (IF Current(c) \in inbox THEN 1 ELSE 0)
Told == Numbered /\ Pending /\ inserted \cap read = {} /\ Counted

LEMMA ToldSame == Told /\ UNCHANGED <<inserted, read, inbox, shown, deleted>> => Told'
  BY DEF Told, Numbered, Pending, Counted, Due, Current

(* Of each event at most the current notification is deleted. *)
LEMMA GoneCounts ==
  ASSUME NoteTypes, Numbered, NEW notes \in SUBSET inbox, Gone(notes)
  PROVE  \A c \in Cells :
           /\ Current(c) \in notes => deleted'[c] = deleted[c] + 1
           /\ Current(c) \notin notes => deleted'[c] = deleted[c]
  <1> TAKE c \in Cells
  <1> DEFINE mine == {n \in notes : CellOf(n) = c}
  <1>1. deleted'[c] = deleted[c] + Cardinality(mine)
    BY DEF Gone
  <1>2. \A n \in mine : n = Current(c)
    BY DEF Numbered
  <1>3. CellOf(Current(c)) = c
    BY DEF CellOf, Current, Cells
  <1>4. CASE Current(c) \in notes
    <2>1. mine = {Current(c)}
      BY <1>2, <1>3, <1>4
    <2>2. QED
      BY <1>1, <1>4, <2>1, FS_Singleton
  <1>5. CASE Current(c) \notin notes
    <2>1. mine = {}
      BY <1>2, <1>5
    <2>2. deleted[c] \in Nat
      BY DEF NoteTypes
    <2>3. QED
      BY <1>1, <1>5, <2>1, <2>2, FS_EmptySet
  <1>6. QED
    BY <1>4, <1>5

LEMMA GoneTypes ==
  ASSUME NoteTypes, Numbered, NEW notes \in SUBSET inbox, Gone(notes), UNCHANGED making
  PROVE  NoteTypes'
  <1>1. \A c \in Cells : deleted'[c] \in 0..MaxRemovals
    <2> TAKE c \in Cells
    <2> DEFINE mine == {n \in notes : CellOf(n) = c}
    <2>1. deleted'[c] = deleted[c] + Cardinality(mine) /\ deleted[c] + Cardinality(mine) <= MaxRemovals
      BY DEF Gone
    <2>2. deleted'[c] \in Nat
      BY GoneCounts DEF NoteTypes
    <2>3. QED
      BY <2>1, <2>2, BoundAssumption
  <1>2. deleted' \in [Cells -> 0..MaxRemovals]
    <2>1. deleted' = [c \in Cells |-> deleted'[c]]
      BY DEF Gone
    <2>2. QED
      BY <1>1, <2>1
  <1>3. QED
    BY <1>2 DEF NoteTypes, Sent, Gone, making

LEMMA GoneTold ==
  ASSUME NoteTypes, Told, NEW notes \in SUBSET inbox, Gone(notes), UNCHANGED making
  PROVE  Told'
  <1>a. /\ inbox' = inbox \ notes /\ shown' = shown
        /\ inserted' = inserted /\ read' = read
    BY DEF Gone, making
  <1>b. \A c \in Cells : deleted[c] \in Nat /\ shown[c] \in Nat
    BY DEF NoteTypes
  <1>c. inbox \subseteq Notes /\ inserted \cup read \subseteq Notes
    BY DEF NoteTypes
  <1>d. \A c \in Cells : /\ Current(c) \in notes => deleted'[c] = deleted[c] + 1
                         /\ Current(c) \notin notes => deleted'[c] = deleted[c]
    BY GoneCounts DEF Told
  <1>1. Numbered'
    BY <1>a, <1>c, <1>d, CellTypes DEF Told, Numbered, Current
  <1>2. Pending'
    <2> SUFFICES ASSUME NEW n \in inserted \cup read, n \notin inbox'
                 PROVE  n[3] <= deleted'[CellOf(n)]
      BY <1>a DEF Pending
    <2>1. CellOf(n) \in Cells /\ n[3] \in Nat
      BY <1>c, CellTypes DEF Numbers
    <2>2. CASE n \in notes
      <3>1. n = Current(CellOf(n))
        BY <2>2 DEF Told, Numbered
      <3>2. n[3] = deleted[CellOf(n)] + 1
        BY <3>1 DEF Current
      <3>3. QED
        BY <1>b, <1>d, <2>1, <2>2, <3>1, <3>2
    <2>3. CASE n \notin notes
      <3>1. n[3] <= deleted[CellOf(n)]
        BY <1>a, <2>3 DEF Told, Pending
      <3>2. QED
        BY <1>b, <1>d, <2>1, <3>1
    <2>4. QED
      BY <2>2, <2>3
  <1>3. Counted'
    <2> SUFFICES ASSUME NEW c \in Cells
                 PROVE  /\ IsFiniteSet(Due(c))
                        /\ shown[c] + Cardinality(Due(c)) <=
                             deleted'[c] + (IF Current(c)' \in inbox' THEN 1 ELSE 0)
      BY <1>a DEF Counted, Due
    <2>1. /\ IsFiniteSet(Due(c))
          /\ shown[c] + Cardinality(Due(c)) <= deleted[c] + (IF Current(c) \in inbox THEN 1 ELSE 0)
      BY DEF Told, Counted
    <2>2. Cardinality(Due(c)) \in Nat
      BY <2>1, FS_CardinalityType
    <2>3. CASE Current(c) \in notes
      BY <1>b, <1>d, <2>1, <2>2, <2>3
    <2>4. CASE Current(c) \notin notes
      <3>1. Current(c)' = Current(c)
        BY <1>d, <2>4 DEF Current
      <3>2. QED
        BY <1>a, <1>b, <1>d, <2>1, <2>2, <2>4, <3>1
    <2>5. QED
      BY <2>3, <2>4
  <1>4. QED
    BY <1>1, <1>2, <1>3, <1>a DEF Told

LEMMA AnnounceNotes ==
  ASSUME NoteTypes, Told, NEW c \in Cells, Announce(c)
  PROVE  NoteTypes' /\ Told'
  <1>1. NoteTypes'
    <2>1. sending' \in [Cells -> 0..MaxAnnounced] /\ Sent'
      BY BoundAssumption DEF NoteTypes, Sent, Announce
    <2>2. announced' \in 0..MaxAnnounced
      BY BoundAssumption DEF NoteTypes, Announce
    <2>3. QED
      BY <2>1, <2>2 DEF NoteTypes, Announce, holding
  <1>2. QED
    BY <1>1, ToldSame DEF Announce, holding

LEMMA SendingLess ==
  ASSUME NoteTypes, NEW c \in Cells, sending[c] > 0,
         sending' = [sending EXCEPT ![c] = @ - 1], announced' = announced
  PROVE  sending' \in [Cells -> 0..MaxAnnounced] /\ Sent'
  <1>1. sending[c] \in 0..MaxAnnounced /\ sending[c] - 1 \in 0..MaxAnnounced
    BY BoundAssumption DEF NoteTypes
  <1>2. sending' \in [Cells -> 0..MaxAnnounced]
    BY <1>1 DEF NoteTypes
  <1>3. \A d \in Cells : sending'[d] = IF d = c THEN sending[c] - 1 ELSE sending[d]
    BY DEF NoteTypes
  <1>4. announced \in Nat /\ \A d \in Cells : sending[d] \in Nat /\ sending[d] <= announced
    BY DEF NoteTypes, Sent
  <1>5. \A d \in Cells : sending'[d] <= announced
    BY <1>3, <1>4
  <1>6. QED
    BY <1>2, <1>5 DEF Sent

LEMMA InsertNotes ==
  ASSUME NoteTypes, Told, NEW c \in Cells, Insert(c)
  PROVE  NoteTypes' /\ Told'
  <1> DEFINE note == Current(c)
  <1>a. /\ sending[c] > 0 /\ sending' = [sending EXCEPT ![c] = @ - 1]
        /\ UNCHANGED <<announced, read, shown, deleted>>
    BY DEF Insert
  <1>b. note \in Notes /\ CellOf(note) = c /\ note[3] = deleted[c] + 1
    BY BoundAssumption DEF Current, Notes, CellOf, Cells, Numbers, NoteTypes
  <1>c. deleted[c] \in Nat /\ shown[c] \in Nat
    BY DEF NoteTypes
  <1>1. sending' \in [Cells -> 0..MaxAnnounced] /\ Sent'
    BY <1>a, SendingLess
  <1>2. CASE note \in inbox
    <2>1. UNCHANGED <<inbox, unread, inserted>>
      BY <1>2 DEF Insert, Current
    <2>2. QED
      BY <1>a, <1>1, <2>1, ToldSame DEF NoteTypes
  <1>3. CASE note \notin inbox
    <2>1. /\ inbox' = inbox \cup {note}
          /\ unread' = unread \cup {note}
          /\ inserted' = inserted \cup {note}
      BY <1>3 DEF Insert, Current
    <2>2. NoteTypes'
      BY <1>a, <1>b, <1>1, <2>1 DEF NoteTypes
    <2>3. note \notin inserted \cup read
      BY <1>b, <1>c, <1>3 DEF Told, Pending
    <2>4. Numbered' /\ Pending' /\ inserted' \cap read' = {}
      BY <1>a, <1>b, <2>1, <2>3 DEF Told, Numbered, Pending, Current
    <2>5. Counted'
      <3> SUFFICES ASSUME NEW d \in Cells
                   PROVE  /\ IsFiniteSet(Due(d)')
                          /\ shown[d] + Cardinality(Due(d)') <=
                               deleted[d] + (IF Current(d) \in inbox' THEN 1 ELSE 0)
        BY <1>a DEF Counted, Current
      <3>1. /\ IsFiniteSet(Due(d))
            /\ shown[d] + Cardinality(Due(d)) <= deleted[d] + (IF Current(d) \in inbox THEN 1 ELSE 0)
        BY DEF Told, Counted
      <3>2. CASE d = c
        <4>1. Due(d)' = Due(d) \cup {note} /\ note \notin Due(d)
          BY <1>a, <1>b, <2>1, <2>3, <3>2 DEF Due
        <4>2. IsFiniteSet(Due(d)') /\ Cardinality(Due(d)') = Cardinality(Due(d)) + 1
          BY <3>1, <4>1, FS_AddElement
        <4>3. Current(d) \notin inbox /\ Current(d) \in inbox'
          BY <1>3, <2>1, <3>2
        <4>4. Cardinality(Due(d)) \in Nat
          BY <3>1, FS_CardinalityType
        <4>5. QED
          BY <1>c, <3>1, <3>2, <4>2, <4>3, <4>4
      <3>3. CASE d # c
        <4>1. Due(d)' = Due(d)
          BY <1>a, <1>b, <2>1, <3>3 DEF Due
        <4>2. Current(d) # note
          BY <3>3 DEF Current, Cells
        <4>3. QED
          BY <2>1, <3>1, <4>1, <4>2
      <3>4. QED
        BY <3>2, <3>3
    <2>6. QED
      BY <2>2, <2>4, <2>5 DEF Told
  <1>4. QED
    BY <1>2, <1>3

(* A notification that is read back, shown or dropped is due no more. *)
LEMMA DueShrinks ==
  ASSUME NoteTypes, Told, NEW n \in inserted \cup read,
         UNCHANGED <<inbox, deleted>>, inserted' \subseteq inserted,
         read' \subseteq read \cup inserted, inserted' \cap read' = {},
         \/ /\ shown' = shown
         \/ /\ shown' = [shown EXCEPT ![CellOf(n)] = @ + 1]
            /\ n \notin inserted' \cup read'
  PROVE  Told'
  <1>a. \A c \in Cells : deleted[c] \in Nat /\ shown[c] \in Nat
    BY DEF NoteTypes
  <1>b. inserted' \cup read' \subseteq inserted \cup read
    OBVIOUS
  <1>1. Numbered' /\ Pending'
    BY <1>b DEF Told, Numbered, Pending, Current
  <1>2. Counted'
    <2> SUFFICES ASSUME NEW c \in Cells
                 PROVE  /\ IsFiniteSet(Due(c)')
                        /\ shown'[c] + Cardinality(Due(c)') <=
                             deleted[c] + (IF Current(c) \in inbox THEN 1 ELSE 0)
      BY DEF Counted, Current
    <2>1. /\ IsFiniteSet(Due(c))
          /\ shown[c] + Cardinality(Due(c)) <= deleted[c] + (IF Current(c) \in inbox THEN 1 ELSE 0)
      BY DEF Told, Counted
    <2>2. Due(c)' \subseteq Due(c)
      BY <1>b DEF Due
    <2>3. IsFiniteSet(Due(c)') /\ Cardinality(Due(c)') <= Cardinality(Due(c))
      BY <2>1, <2>2, FS_Subset
    <2>4. Cardinality(Due(c)) \in Nat /\ Cardinality(Due(c)') \in Nat
      BY <2>1, <2>3, FS_CardinalityType
    <2>5. CASE shown'[c] = shown[c]
      BY <1>a, <2>1, <2>3, <2>4, <2>5
    <2>6. CASE shown'[c] # shown[c]
      <3>1. c = CellOf(n) /\ shown'[c] = shown[c] + 1 /\ n \notin inserted' \cup read'
        BY <2>6 DEF NoteTypes
      <3>2. n \in Due(c) /\ n \notin Due(c)'
        BY <3>1 DEF Due
      <3>3. Cardinality(Due(c)') # Cardinality(Due(c))
        BY <2>1, <2>2, <3>2, FS_Subset
      <3>4. QED
        BY <1>a, <2>1, <2>3, <2>4, <3>1, <3>3
    <2>7. QED
      BY <2>5, <2>6
  <1>3. QED
    BY <1>1, <1>2 DEF Told

LEMMA ReadBackNotes ==
  ASSUME NoteTypes, Told, NEW n \in inserted, ReadBack(n)
  PROVE  NoteTypes' /\ Told'
  <1>1. /\ inserted' = inserted \ {n} /\ read' \subseteq read \cup {n}
        /\ UNCHANGED <<announced, sending, inbox, unread, shown, deleted>>
    BY DEF ReadBack, holding
  <1>2. NoteTypes'
    BY <1>1 DEF NoteTypes, Sent
  <1>3. inserted' \cap read' = {}
    BY <1>1 DEF Told
  <1>4. QED
    BY <1>1, <1>2, <1>3, DueShrinks

LEMMA ShowNotes ==
  ASSUME NoteTypes, Told, NEW n \in read, Show(n)
  PROVE  NoteTypes' /\ Told'
  <1>1. /\ read' = read \ {n} /\ shown' = [shown EXCEPT ![CellOf(n)] = @ + 1]
        /\ UNCHANGED <<announced, sending, inserted, inbox, unread, deleted>>
    BY DEF Show
  <1>2. CellOf(n) \in Cells
    BY CellTypes DEF NoteTypes
  <1>3. shown' \in [Cells -> Nat]
    BY <1>1, <1>2 DEF NoteTypes
  <1>4. NoteTypes'
    BY <1>1, <1>3 DEF NoteTypes, Sent
  <1>5. n \notin inserted' \cup read' /\ inserted' \cap read' = {}
    BY <1>1 DEF Told
  <1>6. QED
    BY <1>1, <1>4, <1>5, DueShrinks

LEMMA FailNotes ==
  ASSUME NoteTypes, Told, Fail
  PROVE  NoteTypes' /\ Told'
  <1>a. UNCHANGED <<announced, inbox, unread, shown, deleted>>
    BY DEF Fail, holding
  <1>1. CASE \E c \in Cells : /\ sending[c] > 0
                              /\ sending' = [sending EXCEPT ![c] = @ - 1]
                              /\ UNCHANGED <<inserted, read, pushes, erasing>>
    <2> PICK c \in Cells : /\ sending[c] > 0
                           /\ sending' = [sending EXCEPT ![c] = @ - 1]
                           /\ UNCHANGED <<inserted, read>>
      BY <1>1
    <2>1. sending' \in [Cells -> 0..MaxAnnounced] /\ Sent'
      BY <1>a, SendingLess
    <2>2. NoteTypes'
      BY <1>a, <2>1 DEF NoteTypes
    <2>3. QED
      BY <1>a, <2>2, ToldSame
  <1>2. CASE \E n \in inserted : inserted' = inserted \ {n} /\ UNCHANGED <<sending, read>>
    <2> PICK n \in inserted : inserted' = inserted \ {n} /\ UNCHANGED <<sending, read>>
      BY <1>2
    <2>1. NoteTypes'
      BY <1>a DEF NoteTypes, Sent
    <2>2. inserted' \cap read' = {}
      BY DEF Told
    <2>3. QED
      BY <1>a, <2>1, <2>2, DueShrinks
  <1>3. CASE \E n \in read : read' = read \ {n} /\ UNCHANGED <<sending, inserted>>
    <2> PICK n \in read : read' = read \ {n} /\ UNCHANGED <<sending, inserted>>
      BY <1>3
    <2>1. NoteTypes'
      BY <1>a DEF NoteTypes, Sent
    <2>2. inserted' \cap read' = {}
      BY DEF Told
    <2>3. QED
      BY <1>a, <2>1, <2>2, DueShrinks
  <1>4. CASE UNCHANGED <<sending, inserted, read>>
    <2>1. NoteTypes'
      BY <1>a, <1>4 DEF NoteTypes, Sent
    <2>2. QED
      BY <1>a, <1>4, <2>1, ToldSame
  <1>5. QED
    BY <1>1, <1>2, <1>3, <1>4 DEF Fail

-----------------------------------------------------------------------------
(* The devices *)

(* A token is registered for one user at most (deviceRegistrationSchema). *)
OneOwner == \A x, y \in registered : x[1] = y[1] => x = y

(* PushedToOwner, for what a push has left whichever step it takes next. *)
Owned ==
  \A p \in pushes : \A t \in Left(p) \ p.since, u \in Users :
    <<t, u>> \in registered => u = p.note[1]

(* The places Firebase refused are those of tokens it does not know. *)
Right(p) == \A i \in Refused(p) : Slice(p)[i] \in invalid
Answered == \A p \in pushes : p.step = "prune" => Right(p)

Pushing == PushTypes /\ OneOwner /\ Owned /\ Answered

(* The registrations a step removes while a push prunes are of invalid tokens. *)
Pruned1 == \A p \in pushes : Pruning(p) => \A r \in registered \ registered' : r[1] \in invalid

(* What is left of a push and the answers to it are its own. *)
LEMMA Rigid ==
  \A p : Left(p)' = Left(p) /\ Refused(p)' = Refused(p) /\ Slice(p)' = Slice(p)
  BY DEF Left, Refused, Slice

(* They depend on where it is. *)
At(q, p) ==
  /\ q.note = p.note /\ q.step = p.step
  /\ q.found = p.found /\ q.index = p.index /\ q.answers = p.answers
LEMMA SameAt ==
  ASSUME NEW p, NEW q, At(q, p)
  PROVE  Left(q) = Left(p) /\ Refused(q) = Refused(p) /\ Slice(q) = Slice(p)
  BY DEF At, Left, Refused, Slice

(* A push goes on with no more than it had left, or begins, and no answer changes. *)
LEMMA PushingKept ==
  ASSUME Pushing, registered' \subseteq registered, stale' \subseteq registered',
         invalid \subseteq invalid', invalid' \subseteq Tokens, pushes' \subseteq Records,
         \A q \in pushes' : \/ Left(q) = {}
                            \/ \E p \in pushes : /\ q.note = p.note
                                                 /\ Left(q) \ q.since \subseteq Left(p) \ p.since,
         \A q \in pushes' : q.step = "prune" => Right(q)
  PROVE  Pushing'
  <1>1. PushTypes' /\ OneOwner'
    BY DEF Pushing, PushTypes, OneOwner
  <1>2. Owned'
    BY Rigid DEF Pushing, Owned
  <1>3. Answered'
    BY Rigid DEF Answered, Right
  <1>4. QED
    BY <1>1, <1>2, <1>3 DEF Pushing

LEMMA PushingSame ==
  ASSUME Pushing, UNCHANGED registered, stale' \subseteq registered,
         invalid \subseteq invalid', invalid' \subseteq Tokens, pushes' \subseteq pushes
  PROVE  Pushing' /\ Pruned1
  <1>1. Pushing'
    BY PushingKept DEF Pushing, PushTypes, Answered
  <1>2. QED
    BY <1>1 DEF Pruned1

(* A push whose token's registration changes. *)
LEMMA ChangedKeeps ==
  ASSUME PushTypes, NEW tokens \in SUBSET Tokens, pushes' = Changed(tokens)
  PROVE  /\ pushes' \subseteq Records
         /\ \A q \in pushes' : \E p \in pushes :
              At(q, p) /\ q.since = p.since \cup (tokens \cap Left(p))
         /\ \A p \in pushes : \E q \in pushes' : q.note = p.note /\ q.step = p.step
  <1> DEFINE new(p) == [p EXCEPT !.since = @ \cup (tokens \cap Left(p))]
  <1>1. ASSUME NEW p \in pushes
        PROVE  /\ new(p) \in Records /\ At(new(p), p)
               /\ new(p).since = p.since \cup (tokens \cap Left(p))
    BY DEF PushTypes, Records, At
  <1>2. pushes' = {new(p) : p \in pushes}
    BY DEF Changed
  <1> HIDE DEF new
  <1>3. QED
    BY <1>1, <1>2 DEF At

LEMMA ChangedPruned ==
  ASSUME PushTypes, NEW tokens \in SUBSET Tokens, pushes' = Changed(tokens)
  PROVE  Pruned1
  BY ChangedKeeps DEF Pruned1, Pruning

LEMMA ChangedAnswered ==
  ASSUME Pushing, NEW tokens \in SUBSET Tokens, pushes' = Changed(tokens), UNCHANGED invalid
  PROVE  \A q \in pushes' : q.step = "prune" => Right(q)
  <1> SUFFICES ASSUME NEW q \in pushes', q.step = "prune"
               PROVE  Right(q)
    OBVIOUS
  <1>1. PICK p \in pushes : At(q, p)
    BY ChangedKeeps DEF Pushing
  <1>2. p.step = "prune" /\ Refused(q) = Refused(p) /\ Slice(q) = Slice(p)
    BY <1>1, SameAt DEF At
  <1>3. QED
    BY <1>2 DEF Pushing, Answered, Right

LEMMA ShowPushing ==
  ASSUME NoteTypes, Pushing, NEW n \in read, Show(n)
  PROVE  Pushing' /\ Pruned1
  <1> DEFINE new == [note |-> n, step |-> "refresh", found |-> <<>>, index |-> 0,
                     answers |-> <<>>, since |-> {}]
  <1>1. pushes' = pushes \cup {new} /\ UNCHANGED <<registered, stale, invalid>>
    BY DEF Show, devices
  <1>2. new \in Records /\ Left(new) = {} /\ new.step # "prune"
    BY DEF NoteTypes, Records, Steps, Left
  <1>3. pushes' \subseteq Records
    BY <1>1, <1>2 DEF Pushing, PushTypes
  <1>4. Pushing'
    <2> HIDE DEF new
    <2> QED
      BY <1>1, <1>2, <1>3, PushingKept DEF Pushing, PushTypes, Answered
  <1>5. QED
    BY <1>1, <1>4 DEF Pruned1

LEMMA RefreshPushing ==
  ASSUME Pushing, NEW p \in pushes, Refresh(p)
  PROVE  Pushing' /\ Pruned1
  <1> DEFINE next == [p EXCEPT !.step = "find"]
  <1>1. /\ p.step = "refresh" /\ pushes' = (pushes \ {p}) \cup {next}
        /\ registered' \subseteq registered /\ stale' \subseteq registered' /\ UNCHANGED invalid
    BY DEF Refresh, Pushing, PushTypes
  <1>2. /\ next \in Records /\ next.note = p.note /\ next.since = p.since
        /\ next.step = "find" /\ next.found = p.found /\ next.index = p.index
    BY DEF Pushing, PushTypes, Records, Steps
  <1> HIDE DEF next
  <1>3. Left(next) = Left(p)
    BY <1>1, <1>2 DEF Left
  <1>4. pushes' \subseteq Records
    BY <1>1, <1>2 DEF Pushing, PushTypes
  <1>5. Pushing'
    BY <1>1, <1>2, <1>3, <1>4, PushingKept DEF Pushing, PushTypes, Answered
  <1>6. Pruned1
    BY <1>1, <1>2 DEF Pruned1, Pruning, next
  <1>7. QED
    BY <1>5, <1>6

LEMMA FindPushing ==
  ASSUME Pushing, NEW p \in pushes, Find(p)
  PROVE  Pushing' /\ Pruned1
  <1> DEFINE mine == {r[1] : r \in {x \in registered \ stale : x[2] = p.note[1]}}
             next(found) == [p EXCEPT !.step = "send", !.found = found]
  <1>1. /\ \/ pushes' = pushes \ {p}
           \/ \E found \in SetToSeqs(mine) : pushes' = (pushes \ {p}) \cup {next(found)}
        /\ UNCHANGED <<registered, stale, invalid>>
    BY DEF Find, devices
  <1>2. mine \subseteq Tokens
    BY DEF Pushing, PushTypes
  <1>3. \A t \in mine : <<t, p.note[1]>> \in registered
    <2> TAKE t \in mine
    <2>1. PICK r \in registered : r[1] = t /\ r[2] = p.note[1]
      OBVIOUS
    <2>2. r = <<r[1], r[2]>>
      BY DEF Pushing, PushTypes
    <2>3. QED
      BY <2>1, <2>2
  <1> HIDE DEF mine
  <1>4. ASSUME NEW t \in mine, NEW u \in Users, <<t, u>> \in registered
        PROVE  u = p.note[1]
    BY <1>3, <1>4 DEF Pushing, OneOwner
  <1>5. CASE pushes' = pushes \ {p}
    BY <1>1, <1>5, PushingSame DEF Pushing, PushTypes
  <1>6. CASE \E found \in SetToSeqs(mine) : pushes' = (pushes \ {p}) \cup {next(found)}
    <2>1. PICK found \in SetToSeqs(mine) : pushes' = (pushes \ {p}) \cup {next(found)}
      BY <1>6
    <2>2. Cardinality(mine) \in Nat
      BY <1>2, TokensAssumption, FS_Subset, FS_CardinalityType
    <2>3. found \in Seq(mine)
      BY <2>2 DEF SetToSeqs
    <2>4. found \in Seq(Tokens)
      BY <1>2, <2>3
    <2>5. /\ next(found) \in Records /\ next(found).note = p.note
          /\ next(found).found = found /\ next(found).step = "send"
      BY <2>4 DEF Pushing, PushTypes, Records, Steps
    <2> HIDE DEF next
    <2>6. Left(next(found)) \subseteq mine
      BY <2>3, <2>5 DEF Left
    <2>7. PushTypes' /\ OneOwner'
      BY <1>1, <2>1, <2>5 DEF Pushing, PushTypes, OneOwner
    <2>8. Owned'
      BY <1>1, <1>4, <2>1, <2>5, <2>6, Rigid DEF Pushing, Owned
    <2>9. Answered'
      BY <1>1, <2>1, <2>5, Rigid DEF Pushing, Answered, Right
    <2>10. QED
      BY <1>1, <2>7, <2>8, <2>9 DEF Pushing, Pruned1
  <1>7. QED
    BY <1>1, <1>5, <1>6

LEMMA SendPushing ==
  ASSUME Pushing, NEW p \in pushes, Send(p)
  PROVE  Pushing' /\ Pruned1
  <1> DEFINE answers == [i \in 1..Len(Slice(p)) |->
                           IF Slice(p)[i] \in invalid THEN "invalid" ELSE "sent"]
             next == [p EXCEPT !.step = "prune", !.answers = answers]
  <1>1. /\ pushes' = (pushes \ {p}) \cup {next} /\ p.step = "send"
        /\ UNCHANGED <<registered, stale, invalid>>
    BY DEF Send, devices
  <1>2. p \in Records /\ p.found \in Seq(Tokens) /\ p.index \in Nat
    BY DEF Pushing, PushTypes, Records
  <1>3. Slice(p) \in Seq(Tokens)
    BY <1>2, BoundAssumption DEF Slice
  <1>4. answers \in Seq({"invalid", "sent"}) /\ Len(answers) = Len(Slice(p))
    BY <1>3
  <1>5. \A i \in 1..Len(Slice(p)) : answers[i] = "invalid" => Slice(p)[i] \in invalid
    OBVIOUS
  <1> HIDE DEF answers
  <1>6. /\ next \in Records /\ next.note = p.note /\ next.since = p.since
        /\ next.step = "prune" /\ next.found = p.found /\ next.index = p.index
        /\ next.answers = answers
    BY <1>2, <1>4 DEF Records, Steps
  <1> HIDE DEF next
  <1>7. Left(next) \subseteq Left(p)
    BY <1>1, <1>2, <1>6, BoundAssumption DEF Left
  <1>8. Right(next)
    BY <1>4, <1>5, <1>6 DEF Right, Refused, Slice
  <1>9. pushes' \subseteq Records
    BY <1>1, <1>6 DEF Pushing, PushTypes
  <1>10. Pushing'
    BY <1>1, <1>6, <1>7, <1>8, <1>9, PushingKept DEF Pushing, PushTypes, Answered
  <1>11. QED
    BY <1>1, <1>10 DEF Pruned1

LEMMA PrunePushing ==
  ASSUME Pushing, NEW p \in pushes, Prune(p)
  PROVE  Pushing' /\ Pruned1
  <1> DEFINE tokens == {Slice(p)[i] : i \in Refused(p)}
             next == [p EXCEPT !.step = "send", !.index = @ + BatchSize, !.answers = <<>>,
                               !.since = @ \cap Left(p)]
  <1>1. /\ p.step = "prune"
        /\ registered' = {r \in registered : r[1] \notin tokens}
        /\ stale' = {r \in stale : r[1] \notin tokens}
        /\ pushes' \subseteq (pushes \ {p}) \cup {next} /\ UNCHANGED invalid
    BY DEF Prune, Pruned
  <1>2. p \in Records /\ p.index \in Nat
    BY DEF Pushing, PushTypes, Records
  <1>3. /\ next \in Records /\ next.note = p.note /\ next.since = p.since \cap Left(p)
        /\ next.step = "send" /\ next.found = p.found /\ next.index = p.index + BatchSize
    <2> DEFINE kept == p.since \cap Left(p)
    <2>1. kept \in SUBSET Tokens
      BY <1>2 DEF Records
    <2>2. p.index + BatchSize \in Nat /\ <<>> \in Seq({"invalid", "sent"})
      BY <1>2, BoundAssumption
    <2> HIDE DEF kept
    <2>3. next = [p EXCEPT !.step = "send", !.index = p.index + BatchSize, !.answers = <<>>,
                           !.since = kept]
      BY DEF kept
    <2>4. /\ next \in Records /\ next.note = p.note /\ next.since = kept
          /\ next.step = "send" /\ next.found = p.found /\ next.index = p.index + BatchSize
      BY <1>2, <2>1, <2>2, <2>3 DEF Records, Steps
    <2>5. QED
      BY <2>4 DEF kept
  <1>4. tokens \subseteq invalid
    BY <1>1 DEF Pushing, Answered, Right
  <1> HIDE DEF next, tokens
  <1>5. Left(next) = Left(p)
    BY <1>1, <1>3 DEF Left
  <1>6. Left(next) \ next.since \subseteq Left(p) \ p.since
    BY <1>3, <1>5
  <1>7. pushes' \subseteq Records
    BY <1>1, <1>3 DEF Pushing, PushTypes
  <1>8. Pushing'
    BY <1>1, <1>3, <1>6, <1>7, PushingKept DEF Pushing, PushTypes, Answered
  <1>9. Pruned1
    BY <1>1, <1>4 DEF Pruned1
  <1>10. QED
    BY <1>8, <1>9

LEMMA RegisterPushing ==
  ASSUME Pushing, NEW u \in Users, NEW t \in Tokens, Register(u, t)
  PROVE  Pushing' /\ Pruned1
  <1>1. /\ registered' = {r \in registered : r[1] # t} \cup {<<t, u>>}
        /\ stale' = {r \in stale : r[1] # t}
        /\ pushes' = Changed({t}) /\ UNCHANGED invalid
    BY DEF Register
  <1>2. {t} \in SUBSET Tokens
    OBVIOUS
  <1>3. /\ pushes' \subseteq Records
        /\ \A q \in pushes' : \E p \in pushes :
             At(q, p) /\ q.since = p.since \cup ({t} \cap Left(p))
    BY <1>1, <1>2, ChangedKeeps DEF Pushing
  <1>4. PushTypes'
    <2>1. registered' \subseteq Tokens \X Users
      BY <1>1 DEF Pushing, PushTypes
    <2>2. stale' \subseteq registered'
      BY <1>1 DEF Pushing, PushTypes
    <2>3. QED
      BY <1>1, <1>3, <2>1, <2>2 DEF Pushing, PushTypes
  <1>5. OneOwner'
    BY <1>1 DEF Pushing, OneOwner
  <1>6. Owned'
    <2> SUFFICES ASSUME NEW q \in pushes', NEW s \in Left(q) \ q.since, NEW v \in Users,
                        <<s, v>> \in registered'
                 PROVE  v = q.note[1]
      BY Rigid DEF Owned
    <2>1. PICK p \in pushes : At(q, p) /\ q.since = p.since \cup ({t} \cap Left(p))
      BY <1>3
    <2>2. s \in Left(p) \ p.since /\ s # t
      BY <2>1, SameAt
    <2>3. <<s, v>> \in registered
      BY <1>1, <2>2
    <2>4. QED
      BY <2>1, <2>2, <2>3 DEF Pushing, Owned, At
  <1>7. Answered'
    BY <1>1, <1>2, ChangedAnswered, Rigid DEF Answered, Right
  <1>8. QED
    BY <1>1, <1>2, <1>4, <1>5, <1>6, <1>7, ChangedPruned DEF Pushing

(* unregisterDevice, and the deletion of a user's devices. *)
LEMMA RemovalPushing ==
  ASSUME Pushing, NEW tokens \in SUBSET Tokens, pushes' = Changed(tokens),
         registered' \subseteq registered, stale' \subseteq registered', UNCHANGED invalid
  PROVE  Pushing' /\ Pruned1
  <1>1. /\ pushes' \subseteq Records
        /\ \A q \in pushes' : \E p \in pushes :
             At(q, p) /\ q.since = p.since \cup (tokens \cap Left(p))
    BY ChangedKeeps DEF Pushing
  <1>2. \A q \in pushes' : \E p \in pushes : /\ q.note = p.note
                                            /\ Left(q) \ q.since \subseteq Left(p) \ p.since
    BY <1>1, SameAt DEF At
  <1>3. Pushing'
    BY <1>1, <1>2, ChangedAnswered, PushingKept DEF Pushing, PushTypes
  <1>4. QED
    BY <1>3, ChangedPruned DEF Pushing

-----------------------------------------------------------------------------
(* The invariant *)

IInv == NoteTypes /\ PushTypes /\ RestTypes /\ Told /\ Pushing

LEMMA Initial == Init => IInv
  <1> SUFFICES ASSUME Init PROVE IInv
    OBVIOUS
  <1>1. NoteTypes /\ PushTypes /\ RestTypes
    BY BoundAssumption DEF Init, NoteTypes, Sent, PushTypes, RestTypes
  <1>2. Numbered /\ Pending /\ inserted \cap read = {}
    BY DEF Init, Numbered, Pending
  <1>3. Counted
    <2> SUFFICES ASSUME NEW c \in Cells
                 PROVE  /\ IsFiniteSet(Due(c))
                        /\ shown[c] + Cardinality(Due(c)) <=
                             deleted[c] + (IF Current(c) \in inbox THEN 1 ELSE 0)
      BY DEF Counted
    <2>1. Due(c) = {} /\ shown[c] = 0 /\ deleted[c] = 0 /\ Current(c) \notin inbox
      BY DEF Init, Due
    <2>2. IsFiniteSet(Due(c)) /\ Cardinality(Due(c)) = 0
      BY <2>1, FS_EmptySet
    <2>3. QED
      BY <2>1, <2>2
  <1>4. Told
    BY <1>2, <1>3 DEF Told
  <1>5. Pushing
    BY <1>1 DEF Init, Pushing, OneOwner, Owned, Answered
  <1>6. QED
    BY <1>1, <1>4, <1>5 DEF IInv

(* A step that makes, shows and deletes no notification. *)
LEMMA NotesKept ==
  IInv /\ UNCHANGED <<making, inbox, shown, deleted>> /\ unread' \subseteq inbox
    => NoteTypes' /\ Told'
  <1> SUFFICES ASSUME IInv, UNCHANGED <<making, inbox, shown, deleted>>, unread' \subseteq inbox
               PROVE  NoteTypes' /\ Told'
    OBVIOUS
  <1>1. NoteTypes'
    BY DEF IInv, NoteTypes, Sent, making
  <1>2. Told'
    BY ToldSame DEF IInv, making
  <1>3. QED
    BY <1>1, <1>2

LEMMA HoldingKept == IInv /\ UNCHANGED <<making, holding>> => NoteTypes' /\ Told'
  BY NotesKept DEF IInv, NoteTypes, holding

(* A step that registers no device, and neither sends nor prunes. *)
LEMMA DevicesKept == IInv /\ UNCHANGED <<devices, pushes>> => Pushing' /\ Pruned1
  BY PushingSame DEF IInv, Pushing, PushTypes, devices

(* What a step is shown to do, once the rest of the types is seen to. *)
Kept == NoteTypes' /\ Told' /\ Pushing' /\ RestTypes' /\ Pruned1

LEMMA DeliverKeeps == IInv /\ Deliver => Kept
  <1> SUFFICES ASSUME IInv, Deliver PROVE Kept
    OBVIOUS
  <1> USE DEF IInv
  <1>1. CASE \E c \in Cells : Announce(c)
    <2> PICK c \in Cells : Announce(c)
      BY <1>1
    <2>1. NoteTypes' /\ Told'
      BY AnnounceNotes
    <2>2. UNCHANGED <<devices, pushes, erasing, faults>>
      BY DEF Announce
    <2>3. QED
      BY <2>1, <2>2, DevicesKept DEF Kept, RestTypes
  <1>2. CASE \E c \in Cells : Insert(c)
    <2> PICK c \in Cells : Insert(c)
      BY <1>2
    <2>1. NoteTypes' /\ Told'
      BY InsertNotes
    <2>2. UNCHANGED <<devices, pushes, erasing, faults>>
      BY DEF Insert
    <2>3. QED
      BY <2>1, <2>2, DevicesKept DEF Kept, RestTypes
  <1>3. CASE \E n \in inserted : ReadBack(n)
    <2> PICK n \in inserted : ReadBack(n)
      BY <1>3
    <2>1. NoteTypes' /\ Told'
      BY ReadBackNotes
    <2>2. UNCHANGED <<devices, pushes, erasing, faults>>
      BY DEF ReadBack
    <2>3. QED
      BY <2>1, <2>2, DevicesKept DEF Kept, RestTypes
  <1>4. CASE \E n \in read : Show(n)
    <2> PICK n \in read : Show(n)
      BY <1>4
    <2>1. NoteTypes' /\ Told'
      BY ShowNotes
    <2>2. Pushing' /\ Pruned1
      BY ShowPushing
    <2>3. UNCHANGED <<erasing, faults>>
      BY DEF Show
    <2>4. QED
      BY <2>1, <2>2, <2>3 DEF Kept, RestTypes
  <1>5. QED
    BY <1>1, <1>2, <1>3, <1>4 DEF Deliver

LEMMA PushKeeps == IInv /\ Push => Kept
  <1> SUFFICES ASSUME IInv, NEW p \in pushes, Refresh(p) \/ Find(p) \/ Send(p) \/ Prune(p)
               PROVE  Kept
    BY DEF Push
  <1>1. UNCHANGED <<making, holding, erasing, faults>>
    BY DEF Refresh, Find, Send, Prune, Pruned
  <1>2. NoteTypes' /\ Told' /\ RestTypes'
    BY <1>1, HoldingKept DEF IInv, RestTypes
  <1>3. Pushing' /\ Pruned1
    BY RefreshPushing, FindPushing, SendPushing, PrunePushing DEF IInv
  <1>4. QED
    BY <1>2, <1>3 DEF Kept

(* Every deletion of notifications. *)
LEMMA GoneKeeps ==
  ASSUME IInv, NEW notes \in SUBSET inbox, Gone(notes), UNCHANGED <<making, devices, pushes, faults>>,
         erasing' \subseteq erasing
  PROVE  Kept
  <1>1. NoteTypes' /\ Told'
    BY GoneTypes, GoneTold DEF IInv, Told
  <1>2. Pushing' /\ Pruned1
    BY DevicesKept
  <1>3. QED
    BY <1>1, <1>2 DEF Kept, IInv, RestTypes

LEMMA RequestKeeps == IInv /\ Request => Kept
  <1> SUFFICES ASSUME IInv, Request PROVE Kept
    OBVIOUS
  <1>1. ASSUME NEW n \in inbox, MarkRead(n) PROVE Kept
    <2>1. /\ UNCHANGED <<making, inbox, shown, deleted, devices, pushes, erasing, faults>>
          /\ unread' \subseteq inbox
      BY <1>1 DEF MarkRead, IInv, NoteTypes
    <2>2. QED
      BY <2>1, NotesKept, DevicesKept DEF Kept, IInv, RestTypes
  <1>2. ASSUME NEW n \in inbox, Delete(n) \/ Expire(n) PROVE Kept
    <2>1. {n} \in SUBSET inbox
      OBVIOUS
    <2>2. QED
      BY <1>2, <2>1, GoneKeeps DEF Delete, Expire
  <1>3. ASSUME NEW u \in Users, MarkAllRead(u) PROVE Kept
    <2>1. /\ UNCHANGED <<making, inbox, shown, deleted, devices, pushes, erasing, faults>>
          /\ unread' \subseteq inbox
      BY <1>3 DEF MarkAllRead, IInv, NoteTypes
    <2>2. QED
      BY <2>1, NotesKept, DevicesKept DEF Kept, IInv, RestTypes
  <1>4. ASSUME NEW u \in Users, DeleteAll(u) \/ EraseNotes(u) PROVE Kept
    <2>1. Of(u) \in SUBSET inbox
      BY DEF Of
    <2>2. Gone(Of(u)) /\ UNCHANGED <<making, devices, pushes, faults>> /\ erasing' \subseteq erasing
      BY <1>4 DEF DeleteAll, EraseNotes
    <2>3. QED
      BY <2>1, <2>2, GoneKeeps
  <1>5. ASSUME NEW u \in Users, NEW t \in Tokens, Register(u, t) PROVE Kept
    <2>1. UNCHANGED <<making, holding, erasing, faults>>
      BY <1>5 DEF Register
    <2>2. Pushing' /\ Pruned1
      BY <1>5, RegisterPushing DEF IInv
    <2>3. QED
      BY <2>1, <2>2, HoldingKept DEF Kept, IInv, RestTypes
  <1>6. ASSUME NEW u \in Users, NEW t \in Tokens, Unregister(u, t) PROVE Kept
    <2>1. {t} \in SUBSET Tokens
      OBVIOUS
    <2>2. /\ pushes' = Changed({t}) /\ registered' \subseteq registered
          /\ stale' \subseteq registered' /\ UNCHANGED <<invalid, making, holding, erasing, faults>>
      BY <1>6 DEF Unregister, IInv, PushTypes
    <2>3. Pushing' /\ Pruned1
      BY <2>1, <2>2, RemovalPushing DEF IInv
    <2>4. QED
      BY <2>2, <2>3, HoldingKept DEF Kept, IInv, RestTypes
  <1>7. ASSUME NEW u \in Users, StartErase(u) PROVE Kept
    <2>1. UNCHANGED <<making, holding, devices, pushes, faults>>
      BY <1>7 DEF StartErase
    <2>2. RestTypes'
      BY <1>7, <2>1 DEF StartErase, IInv, RestTypes
    <2>3. QED
      BY <2>1, <2>2, HoldingKept, DevicesKept DEF Kept
  <1>8. ASSUME NEW u \in Users, EraseDevices(u) PROVE Kept
    <2> DEFINE mine == {r \in registered : r[2] = u}
               tokens == {r[1] : r \in mine}
    <2>1. tokens \in SUBSET Tokens
      BY DEF IInv, PushTypes
    <2>2. /\ pushes' = Changed(tokens) /\ registered' \subseteq registered
          /\ stale' \subseteq registered' /\ UNCHANGED <<invalid, making, holding, faults>>
          /\ erasing' \subseteq erasing
      BY <1>8 DEF EraseDevices, IInv, PushTypes
    <2> HIDE DEF tokens
    <2>3. Pushing' /\ Pruned1
      BY <2>1, <2>2, RemovalPushing DEF IInv
    <2>4. QED
      BY <2>2, <2>3, HoldingKept DEF Kept, IInv, RestTypes
  <1>9. QED
    BY <1>1, <1>2, <1>3, <1>4, <1>5, <1>6, <1>7, <1>8 DEF Request

LEMMA EnvironmentKeeps == IInv /\ Environment => Kept
  <1> SUFFICES ASSUME IInv, Environment PROVE Kept
    OBVIOUS
  <1>1. /\ UNCHANGED <<making, holding, pushes, erasing, faults, registered>>
        /\ stale' \subseteq registered /\ invalid \subseteq invalid' /\ invalid' \subseteq Tokens
    BY DEF Environment, Age, Invalidate, IInv, PushTypes
  <1>2. Pushing' /\ Pruned1
    BY <1>1, PushingSame DEF IInv
  <1>3. QED
    BY <1>1, <1>2, HoldingKept DEF Kept, IInv, RestTypes

LEMMA FailKeeps == IInv /\ Fail => Kept
  <1> SUFFICES ASSUME IInv, Fail PROVE Kept
    OBVIOUS
  <1>1. NoteTypes' /\ Told'
    BY FailNotes DEF IInv
  <1>2. UNCHANGED devices /\ pushes' \subseteq pushes /\ erasing' \subseteq erasing
    BY DEF Fail
  <1>3. faults' \in 0..MaxFaults
    BY BoundAssumption DEF Fail, IInv, RestTypes
  <1>4. Pushing' /\ Pruned1
    BY <1>2, PushingSame DEF IInv, PushTypes, devices
  <1>5. QED
    BY <1>1, <1>2, <1>3, <1>4 DEF Kept, IInv, RestTypes

LEMMA Inductive == IInv /\ [Next]_vars => IInv' /\ Pruned1
  <1> SUFFICES ASSUME IInv, [Next]_vars PROVE Kept
    BY DEF Kept, IInv, Pushing
  <1>1. CASE Next
    BY <1>1, DeliverKeeps, PushKeeps, RequestKeeps, EnvironmentKeeps, FailKeeps DEF Next
  <1>2. CASE UNCHANGED vars
    <2>1. UNCHANGED <<making, holding, devices, pushes, erasing, faults>>
      BY <1>2 DEF vars
    <2>2. QED
      BY <2>1, HoldingKept, DevicesKept DEF Kept, IInv, RestTypes
  <1>3. QED
    BY <1>1, <1>2

-----------------------------------------------------------------------------
(* The theorems *)

(* The inductive invariant holds in every behaviour. *)
THEOREM Invariance == Spec => []IInv
  BY Initial, Inductive, PTL DEF Spec

(* Type correctness of the notifications, the registrations and the pushes. *)
THEOREM Typing == Spec => []TypeOK
  <1>1. IInv => TypeOK
    BY TypeParts DEF IInv, TypeInv
  <1>2. QED
    BY <1>1, Invariance, PTL

(* However often an event is announced, overlapping or failing part way, its *)
(* recipient is shown it once more at most than they deleted it.            *)
THEOREM ToldOnce == Spec => []ShownOnce
  <1>1. IInv => ShownOnce
    <2> SUFFICES ASSUME IInv, NEW c \in Cells
                 PROVE  shown[c] <= 1 + deleted[c]
      BY DEF ShownOnce
    <2>1. /\ IsFiniteSet(Due(c))
          /\ shown[c] + Cardinality(Due(c)) <= deleted[c] + (IF Current(c) \in inbox THEN 1 ELSE 0)
      BY DEF IInv, Told, Counted
    <2>2. Cardinality(Due(c)) \in Nat
      BY <2>1, FS_CardinalityType
    <2>3. shown[c] \in Nat /\ deleted[c] \in Nat
      BY DEF IInv, NoteTypes
    <2>4. QED
      BY <2>1, <2>2, <2>3
  <1>2. QED
    BY <1>1, Invariance, PTL

(* A push goes to no device that is another user's, unless the device changed *)
(* hands after the push looked its token up.                                  *)
THEOREM PushesReachOwners == Spec => []PushedToOwner
  <1>1. IInv => PushedToOwner
    BY DEF IInv, Pushing, Owned, PushedToOwner
  <1>2. QED
    BY <1>1, Invariance, PTL

(* What a push unregisters are devices whose tokens Firebase refused, for any number *)
(* of devices and batches: its answers are matched to the tokens they are about,      *)
(* whatever was registered and removed since.                                         *)
THEOREM ValidDevicesStay == Spec => ValidStay
  <1>1. IInv /\ [Next]_vars =>
          [\A p \in pushes : Pruning(p) => \A r \in registered \ registered' : r[1] \in invalid]_vars
    BY Inductive DEF Pruned1
  <1>2. QED
    BY <1>1, Invariance, PTL DEF Spec, ValidStay

-----------------------------------------------------------------------------
(* Notifications *)

CONSTANTS Orders, Buyer, Seller, Watchers, Threshold, Followed, MaxDue, MaxSending
VARIABLES
  status, outcome, missed, payment, listing, names, open, \* the documents,
  due, looking, posted,                          \* what is announced and under way,
  kept, news,                                    \* what recipients have
  overtaken, irregular                           \* and history

N == INSTANCE Notifications WITH sending <- posted, inbox <- kept

\* None is none of the values it stands in for.
Distinct == N!NoneAssumption /\ N!KeyAssumption

\* A handler of order o.
Handled(o) == N!Payments(o) \/ N!Ends(o) \/ N!Moves(o)

\* Everything made, being made or about to be announced.
Known == kept \cup posted \cup UNION {d.to : d \in due}

\* The keys announced to the watchers.
WishKeys ==
  {N!Unavailable(o) : o \in Orders}
    \cup {N!Available(o, cause) : o \in Orders, cause \in N!Causes}

\* A message for a watcher.
Wide(m) == m[2][2] \in N!WatcherKeys

\* The deletion of a listing is followed.
DeletionsFollowed == <<"deleted", None>> \in Followed

\* What is announced and told is of its kind: of what concerns the watchers, only a
\* deletion is announced like what concerns the parties.
Shapes ==
  /\ \A d \in due : d.wish \in WishKeys \cup {None}
  /\ looking \subseteq WishKeys
  /\ \A d \in due : \A m \in d.to : Wide(m) => m[2][2] = "deleted"
  /\ news \in [Watchers -> {"none"} \cup N!WatcherKeys]

\* Both parties of an order that ended have been told so, or are about to be.
Endings ==
  \A o \in Orders : \A u \in N!Parties(o) :
    status[o] \in N!Dead /\ outcome[o] \notin N!AtCollection
      => \E key \in N!EndKeys(o) : <<u, key>> \in Known

\* The circumstances in which that can be seen: the events that tell of an end are followed.
EndEvents == {"status", "authentication-failed", "delivery-rejected"}
EndsFollowed == EndEvents \X (N!Dead \cup N!Outcomes) \subseteq Followed

\* They say that a listing is available, or not.
LEMMA WishKind == \A k \in WishKeys : k[2] \in {"available", "unavailable"}
BY DEF WishKeys, N!Available, N!Unavailable

\* Their orders.
LEMMA WishOrder == \A k \in WishKeys : k[1] \in Orders
BY DEF WishKeys, N!Available, N!Unavailable

\* What an announcement adds.
LEMMA Announced ==
  ASSUME NEW D, NEW key, N!Announce(D, key)
  PROVE  /\ Known \subseteq Known'
         /\ \A m \in D : <<m[2][2], m[2][3]>> \in Followed => m \in Known'
         /\ UNCHANGED <<looking, posted, kept, news>>
  <1> DEFINE told == {m \in D : <<m[2][2], m[2][3]>> \in Followed}
             d == [to |-> told, wish |-> key]
  <1>1. UNCHANGED <<looking, posted, kept, news>>
    BY DEF N!Announce, N!mail
  <1>2. CASE told = {} /\ key = None
    <2>1. due' = due
      BY <1>2 DEF N!Announce
    <2> QED
      BY <1>1, <1>2, <2>1 DEF Known
  <1>3. CASE ~(told = {} /\ key = None)
    <2>1. due' = due \cup {d}
      BY <1>3 DEF N!Announce
    <2>2. d.to = told /\ d \in due'
      BY <2>1
    <2> HIDE DEF d
    <2> QED
      BY <1>1, <2>1, <2>2 DEF Known
  <1> QED
    BY <1>2, <1>3

-----------------------------------------------------------------------------
(* Event keys are used once *)

\* What is announced under key k has happened, for good.
Past(k) ==
  /\ k[1] \in Orders
  /\ k[2] = "unavailable" => status[k[1]] \notin {"none", "pending_payment"}
  /\ k[2] \in {"available", "deleted"} => status[k[1]] \in N!Dead
  /\ k[2] = "deleted" => open # k[1] /\ listing = "deleted"
  /\ k[2] = "available" /\ k[3] = "issue-resolved" => open # k[1]

\* Nothing is announced before it happened.
PastInv ==
  /\ \A d \in due : d.wish # None => Past(d.wish)
  /\ \A k \in looking : Past(k)
  /\ \A m \in Known : Wide(m) => Past(m[2])

\* What is announced to the watchers is in one place, and is told each of them once.
Once ==
  /\ \A d, e \in due : d.wish # None /\ d.wish = e.wish => d = e
  /\ \A d \in due : d.wish # None => d.wish \notin looking
  /\ \A d \in due, m \in posted \cup kept : d.wish # None => m[2] # d.wish
  /\ \A k \in looking, m \in posted \cup kept : m[2] # k
  /\ \A d \in due : \A m \in d.to : Wide(m) => m \notin posted \cup kept
  /\ \A d, e \in due : \A m \in d.to \cap e.to : Wide(m) => d = e
  /\ \A m \in posted : Wide(m) => m \notin kept

\* The documents have their types.
OrderShapes ==
  /\ status \in [Orders -> N!OrderStatuses \cup {"none"}]
  /\ outcome \in [Orders -> N!Outcomes \cup {None}]
  /\ payment \in [Orders -> {"pending", "paid", "failed", "wrong"}]
  /\ names \in Orders \cup {None}
  /\ open \in Orders \cup {None}

\* The order an issue is about is over.
OpenIsDead == \A o \in Orders : open = o => status[o] \in N!Dead

\* What is past stays past.
Aging == \A k : Past(k) => Past(k)'
\* A step makes it so.
New(k) == ~Past(k) /\ Past(k)'
\* A handler announces D to the parties and key to the watchers, for the first time
\* unless it is irregular.
Says(D, key) ==
  /\ N!Announce(D, key)
  /\ key = None \/ (key \in WishKeys /\ (New(key) \/ (Past(key)' /\ irregular')))
  /\ \A m \in D : Wide(m) => m[2][2] = "deleted" /\ New(m[2])

\* What concerns the parties is no news for the watchers.
LEMMA Plain ==
  ASSUME NEW o \in Orders
  PROVE  /\ \A m \in N!PaymentSucceeded(o) \cup N!PaymentFailed(o) : ~Wide(m)
         /\ \A m \in N!PayoutPaid(o) \cup N!IssueResolved(o) : ~Wide(m)
         /\ \A n : \A m \in N!CollectionMissed(o, n) : ~Wide(m)
         /\ \A s : \A m \in N!OrderStatusChanged(o, s) : ~Wide(m)
         /\ \A s, c : \A m \in N!MoveAnnounces(o, s, c) : ~Wide(m)
BY DEF N!PaymentSucceeded, N!PaymentFailed, N!PayoutPaid, N!IssueResolved, N!CollectionMissed,
    N!OrderStatusChanged, N!MoveAnnounces, N!AuthenticationPassed, N!AuthenticationFailed,
    N!DeliveryRejected, N!OrderParties, N!Both, Wide, N!WatcherKeys

\* What each handler announces, it announces for the first time.
LEMMA CheckoutDone ==
  ASSUME Distinct, OrderShapes, NEW o \in Orders, N!Checkout(o)
  PROVE  OrderShapes' /\ Aging
BY DEF N!Checkout, OrderShapes, Aging, Past, N!OrderStatuses, N!Dead, Distinct, N!NoneAssumption

LEMMA PayDone ==
  ASSUME Distinct, OrderShapes, NEW o \in Orders, N!Pay(o)
  PROVE  OrderShapes' /\ Aging /\ Says(N!PaymentSucceeded(o), N!Unavailable(o))
  <1>1. OrderShapes' /\ Aging
    BY DEF N!Pay, OrderShapes, Aging, Past, N!OrderStatuses, N!Dead, N!SetListing, N!Announce
  <1>2. New(N!Unavailable(o)) /\ N!Unavailable(o) \in WishKeys
    BY DEF N!Pay, OrderShapes, New, Past, N!Unavailable, WishKeys
  <1> QED
    BY <1>1, <1>2, Plain DEF Says, N!Pay

LEMMA PayWrongDone ==
  ASSUME Distinct, OrderShapes, NEW o \in Orders, N!PayWrong(o)
  PROVE  /\ OrderShapes' /\ Aging
         /\ Says(N!OrderStatusChanged(o, "refunded"), N!Available(o, "invalid-payment"))
  <1> DEFINE key == N!Available(o, "invalid-payment")
  <1>1. OrderShapes' /\ Aging
    BY DEF N!PayWrong, OrderShapes, Aging, Past, N!OrderStatuses, N!Dead, N!Release, N!Gives,
        N!Announce
  <1>2. Past(key)' /\ key \in WishKeys
    BY DEF N!PayWrong, OrderShapes, Past, N!Available, WishKeys, N!Causes, N!Dead
  <1>3. CASE status[o] = "pending_payment"
    <2>1. New(key)
      BY <1>2, <1>3 DEF New, Past, N!Available, N!Dead
    <2> QED
      BY <1>1, <1>2, <2>1, Plain DEF Says, N!PayWrong
  <1>4. CASE status[o] # "pending_payment"
    <2>1. irregular'
      BY <1>4, Zenon DEF N!PayWrong
    <2> QED
      BY <1>1, <1>2, <2>1, Plain DEF Says, N!PayWrong
  <1> QED
    BY <1>3, <1>4

LEMMA PayLateDone ==
  ASSUME Distinct, OrderShapes, NEW o \in Orders, N!PayLate(o)
  PROVE  OrderShapes' /\ Aging /\ Says(N!OrderStatusChanged(o, "refunded"), None)
  <1>1. OrderShapes' /\ Aging
    BY DEF N!PayLate, OrderShapes, Aging, Past, N!OrderStatuses, N!Dead, N!item
  <1> QED
    BY <1>1, Plain DEF Says, N!PayLate

LEMMA DeclineDone ==
  ASSUME Distinct, OrderShapes, NEW o \in Orders, N!Decline(o)
  PROVE  OrderShapes' /\ Aging /\ Says(N!PaymentFailed(o), None)
  <1>1. OrderShapes' /\ Aging
    BY DEF N!Decline, OrderShapes, Aging, Past, N!Release, N!Gives, N!Announce
  <1> QED
    BY <1>1, Plain DEF Says, N!Decline

LEMMA CancelDone ==
  ASSUME Distinct, OrderShapes, NEW o \in Orders, N!Cancel(o)
  PROVE  /\ OrderShapes' /\ Aging
         /\ Says(N!OrderStatusChanged(o, "cancelled"), N!Available(o, "cancelled"))
  <1>1. OrderShapes' /\ Aging
    BY DEF N!Cancel, OrderShapes, Aging, Past, N!OrderStatuses, N!Dead, N!Release, N!Gives,
        N!Relist, N!SetListing, N!Announce
  <1>2. New(N!Available(o, "cancelled")) /\ N!Available(o, "cancelled") \in WishKeys
    BY DEF N!Cancel, OrderShapes, New, Past, N!Available, WishKeys, N!Causes, N!Dead
  <1> QED
    BY <1>1, <1>2, Plain DEF Says, N!Cancel

LEMMA ExpireDone ==
  ASSUME Distinct, OrderShapes, NEW o \in Orders, N!Expire(o)
  PROVE  /\ OrderShapes' /\ Aging
         /\ Says(N!OrderStatusChanged(o, "cancelled"), N!Available(o, "expired"))
  <1>1. OrderShapes' /\ Aging
    BY DEF N!Expire, OrderShapes, Aging, Past, N!OrderStatuses, N!Dead, N!Release, N!Gives,
        N!Announce
  <1>2. New(N!Available(o, "expired")) /\ N!Available(o, "expired") \in WishKeys
    BY DEF N!Expire, OrderShapes, New, Past, N!Available, WishKeys, N!Causes, N!Dead
  <1> QED
    BY <1>1, <1>2, Plain DEF Says, N!Expire

LEMMA MissedDone ==
  ASSUME Distinct, OrderShapes, NEW o \in Orders, N!Missed(o)
  PROVE  /\ OrderShapes' /\ Aging
         /\ Says(N!CollectionMissed(o, missed[o] + 1),
                 IF missed[o] + 1 >= Threshold
                 THEN N!Available(o, "missed-collection-cancelled") ELSE None)
  <1> DEFINE key == N!Available(o, "missed-collection-cancelled")
  <1>1. OrderShapes' /\ Aging
    BY DEF N!Missed, OrderShapes, Aging, Past, N!OrderStatuses, N!Dead, N!Relist, N!SetListing,
        N!Announce, N!Outcomes, N!AtCollection
  <1>2. missed[o] + 1 >= Threshold => New(key) /\ key \in WishKeys
    BY DEF N!Missed, OrderShapes, New, Past, N!Available, WishKeys, N!Causes, N!Dead
  <1> QED
    BY <1>1, <1>2, Plain DEF Says, N!Missed

LEMMA ResolveDone ==
  ASSUME Distinct, OrderShapes, NEW o \in Orders, N!Resolve(o), status[o] \in N!Dead
  PROVE  OrderShapes' /\ Aging /\ Says(N!IssueResolved(o), N!Available(o, "issue-resolved"))
  <1>1. OrderShapes' /\ Aging
    BY DEF N!Resolve, OrderShapes, Aging, Past, N!Relist, N!SetListing, N!order, N!Announce,
        Distinct, N!NoneAssumption
  <1>2. New(N!Available(o, "issue-resolved")) /\ N!Available(o, "issue-resolved") \in WishKeys
    BY DEF N!Resolve, OrderShapes, New, Past, N!Available, WishKeys, N!Causes, Distinct,
        N!NoneAssumption, N!order
  <1> QED
    BY <1>1, <1>2, Plain DEF Says, N!Resolve

LEMMA ResolveDeleteDone ==
  ASSUME Distinct, OrderShapes, NEW o \in Orders, N!ResolveDelete(o), status[o] \in N!Dead
  PROVE  OrderShapes' /\ Aging
         /\ Says(N!IssueResolved(o) \cup Watchers \X {<<o, "deleted", None>>}, None)
  <1>1. OrderShapes' /\ Aging
    BY DEF N!ResolveDelete, OrderShapes, Aging, Past, N!order, N!Announce, Distinct,
        N!NoneAssumption
  <1>2. New(<<o, "deleted", None>>)
    BY DEF N!ResolveDelete, OrderShapes, New, Past, Distinct, N!NoneAssumption, N!order
  <1> QED
    BY <1>1, <1>2, Plain DEF Says, N!ResolveDelete, Wide

LEMMA MoveDone ==
  ASSUME Distinct, OrderShapes, NEW o \in Orders, NEW target \in N!OrderStatuses,
         NEW cause \in N!Outcomes \cup {None}, N!Move(o, target, cause)
  PROVE  /\ OrderShapes' /\ Aging
         /\ Says(N!MoveAnnounces(o, target, cause),
                 IF target = "cancelled" THEN N!Available(o, target) ELSE None)
  <1>0. status[o] \notin N!Dead
    BY DEF N!Move, N!Transitions, N!Dead
  <1>1. OrderShapes'
    BY DEF N!Move, OrderShapes, N!Relist, N!SetListing, N!Announce
  <1>2. Aging
    BY <1>0
    DEF N!Move, OrderShapes, N!Relist, N!SetListing, N!Announce, Aging, Past, N!Dead,
        N!Transitions, N!OrderStatuses, N!Delivering
  <1>3. target = "cancelled"
          => New(N!Available(o, target)) /\ N!Available(o, target) \in WishKeys
    BY <1>0 DEF N!Move, OrderShapes, New, Past, N!Available, WishKeys, N!Causes, N!Dead
  <1> QED
    BY <1>1, <1>2, <1>3, Plain DEF Says, N!Move

LEMMA PaySellerDone ==
  ASSUME OrderShapes, NEW o \in Orders, N!PaySeller(o)
  PROVE  OrderShapes' /\ Aging /\ Says(N!PayoutPaid(o), None)
  <1>1. OrderShapes' /\ Aging
    BY DEF N!PaySeller, OrderShapes, Aging, Past, N!order, N!item
  <1> QED
    BY <1>1, Plain DEF Says, N!PaySeller
\* An announcement that was never made before keeps the invariant.
LEMMA SaysStep ==
  ASSUME Shapes, PastInv, Aging, NEW D, NEW key, Says(D, key)
  PROVE  Shapes' /\ PastInv' /\ (Once /\ ~irregular' => Once')
  <1> DEFINE told == {m \in D : <<m[2][2], m[2][3]>> \in Followed}
             d == [to |-> told, wish |-> key]
  <1>1. UNCHANGED <<looking, posted, kept, news>>
    BY Announced DEF Says
  <1>2. CASE due' = due
    <2>1. Known' = Known
      BY <1>1, <1>2 DEF Known
    <2> QED
      BY <1>1, <1>2, <2>1 DEF Shapes, PastInv, Once, Aging
  <1>3. CASE due' = due \cup {d}
    <2>1. d.to = told /\ d.wish = key
      OBVIOUS
    <2>2. \A m \in d.to : Wide(m) => m[2][2] = "deleted" /\ New(m[2])
      <3>1. \A m \in told : m \in D
        OBVIOUS
      <3> QED
        BY <2>1, <3>1, Zenon DEF Says
    <2>3. d.wish = None \/ (d.wish \in WishKeys /\ (New(d.wish) \/ Past(d.wish)'))
      BY <2>1, Zenon DEF Says
    <2> HIDE DEF d
    <2>4. Shapes'
      BY <1>1, <1>3, <2>2, <2>3 DEF Shapes
    <2>5. Known' = Known \cup d.to
      BY <1>1, <1>3 DEF Known
    <2>6. PastInv'
      BY <1>1, <1>3, <2>2, <2>3, <2>5 DEF PastInv, Aging, New, Wide
    <2>7. ASSUME Once, ~irregular' PROVE Once'
      <3>1. d.wish = None \/ (d.wish \in WishKeys /\ New(d.wish))
        BY <2>1, <2>7, Zenon DEF Says
      <3>2. \A e \in due : d.wish # None => e.wish # d.wish
        BY <3>1 DEF PastInv, New
      <3>3. \A m \in Known : d.wish # None => m[2] # d.wish
        BY <3>1, WishKind DEF PastInv, New, Wide, N!WatcherKeys
      <3>4. d.wish # None => d.wish \notin looking
        BY <3>1 DEF PastInv, New
      <3>5. \A m \in d.to : Wide(m) => m \notin Known
        BY <2>2 DEF PastInv, New
      <3> QED
        BY <1>1, <1>3, <2>7, <3>2, <3>3, <3>4, <3>5 DEF Once, Known, Wide
    <2> QED
      BY <2>4, <2>6, <2>7
  <1> QED
    BY <1>2, <1>3 DEF Says, N!Announce

\* Issues are about orders that are over.
LEMMA OpenStep ==
  ASSUME Distinct, OrderShapes, OpenIsDead, NEW o \in Orders, Handled(o)
  PROVE  OpenIsDead'
  <1> USE DEF OrderShapes, OpenIsDead, N!Dead
  <1>1. CASE N!Checkout(o)
    BY <1>1 DEF N!Checkout
  <1>2. CASE N!Pay(o)
    BY <1>2 DEF N!Pay
  <1>3. CASE N!PayWrong(o)
    BY <1>3 DEF N!PayWrong
  <1>4. CASE N!PayLate(o)
    BY <1>4 DEF N!PayLate, N!item
  <1>5. CASE N!Decline(o)
    BY <1>5 DEF N!Decline, N!order
  <1>6. CASE N!Cancel(o)
    BY <1>6 DEF N!Cancel
  <1>7. CASE N!Expire(o)
    BY <1>7 DEF N!Expire
  <1>8. CASE N!Missed(o)
    BY <1>8 DEF N!Missed
  <1>9. CASE N!Resolve(o)
    BY <1>9 DEF N!Resolve, N!order, Distinct, N!NoneAssumption
  <1>10. CASE N!ResolveDelete(o)
    BY <1>10 DEF N!ResolveDelete, N!order, Distinct, N!NoneAssumption
  <1>11. ASSUME NEW target \in N!OrderStatuses, NEW cause \in N!Outcomes \cup {None},
                N!Move(o, target, cause)
         PROVE  OpenIsDead'
    <2>1. status[o] \notin N!Dead
      BY <1>11 DEF N!Move, N!Transitions
    <2>2. cause # None => target = "refunded"
      BY <1>11 DEF N!Move, N!PolicyOutcomes
    <2>3. /\ status' = [status EXCEPT ![o] = target]
          /\ open' \in {open, o} /\ (cause = None => open' = open)
      BY <1>11 DEF N!Move
    <2> QED
      BY <2>1, <2>2, <2>3
  <1>12. CASE N!PaySeller(o)
    BY <1>12 DEF N!PaySeller, N!order, N!item
  <1> QED
    BY <1>1, <1>2, <1>3, <1>4, <1>5, <1>6, <1>7, <1>8, <1>9, <1>10, <1>11, <1>12
    DEF Handled, N!Payments, N!Ends, N!Moves

\* What a handler did to an order, and what it said.
LEMMA HandlerSays ==
  ASSUME Distinct, OrderShapes, OpenIsDead, NEW o \in Orders, Handled(o)
  PROVE  /\ OrderShapes' /\ Aging
         /\ UNCHANGED <<due, N!mail>> \/ \E D, key : Says(D, key)
  <1>1. CASE N!Checkout(o)
    BY <1>1, CheckoutDone DEF N!Checkout
  <1>2. CASE N!Pay(o)
    BY <1>2, PayDone
  <1>3. CASE N!PayWrong(o)
    BY <1>3, PayWrongDone
  <1>4. CASE N!PayLate(o)
    BY <1>4, PayLateDone
  <1>5. CASE N!Decline(o)
    BY <1>5, DeclineDone
  <1>6. CASE N!Cancel(o)
    BY <1>6, CancelDone
  <1>7. CASE N!Expire(o)
    BY <1>7, ExpireDone
  <1>8. CASE N!Missed(o)
    BY <1>8, MissedDone
  <1>9. CASE N!Resolve(o)
    BY <1>9, ResolveDone DEF N!Resolve, OpenIsDead
  <1>10. CASE N!ResolveDelete(o)
    BY <1>10, ResolveDeleteDone DEF N!ResolveDelete, OpenIsDead
  <1>11. ASSUME NEW target \in N!OrderStatuses, NEW cause \in N!Outcomes \cup {None},
                N!Move(o, target, cause)
         PROVE  OrderShapes' /\ Aging /\ \E D, key : Says(D, key)
    BY <1>11, MoveDone
  <1>12. CASE N!PaySeller(o)
    BY <1>12, PaySellerDone
  <1> QED
    BY <1>1, <1>2, <1>3, <1>4, <1>5, <1>6, <1>7, <1>8, <1>9, <1>10, <1>11, <1>12
    DEF Handled, N!Payments, N!Ends, N!Moves

\* Announcements and deliveries change no document.
LEMMA OrderSame ==
  ASSUME OrderShapes, UNCHANGED <<N!order, N!item>>
  PROVE  OrderShapes' /\ Aging /\ (OpenIsDead => OpenIsDead')
BY DEF OrderShapes, OpenIsDead, N!order, N!item, Aging, Past

\* They keep the invariant, and forget nothing.
LEMMA PublishStep ==
  ASSUME OrderShapes, Shapes, PastInv, NEW a \in due, N!Publish(a)
  PROVE  OrderShapes' /\ Shapes' /\ PastInv' /\ (Once => Once') /\ Known \subseteq Known'
  <1>1. OrderShapes' /\ Aging
    BY OrderSame DEF N!Publish
  <1>2. /\ due' = due \ {a} /\ posted' = posted \cup a.to
        /\ looking' = looking \cup ({a.wish} \ {None})
        /\ UNCHANGED <<kept, news>>
    BY DEF N!Publish
  <1>3. Known' = Known
    BY <1>2 DEF Known
  <1>4. Shapes'
    BY <1>2 DEF Shapes
  <1>5. PastInv'
    BY <1>1, <1>2, <1>3 DEF PastInv, Aging, Wide
  <1>6. \A m \in a.to : m[2] \notin WishKeys
    BY WishKind DEF Shapes, Wide, N!WatcherKeys
  <1>7. ASSUME Once PROVE Once'
    <2> USE <1>7
    <2>1. \A d \in due, m \in posted' \cup kept' : d.wish # None => m[2] # d.wish
      BY <1>2, <1>6 DEF Once, Shapes
    <2>2. \A k \in looking', m \in posted' \cup kept' : m[2] # k
      BY <1>2, <1>6, <2>1 DEF Once, Shapes
    <2>3. \A d, e \in due' : d.wish # None /\ d.wish = e.wish => d = e
      BY <1>2 DEF Once
    <2>4. \A d \in due' : d.wish # None => d.wish \notin looking'
      <3>1. \A d \in due' : d.wish # None => d.wish # a.wish /\ d.wish \notin looking
        BY <1>2 DEF Once
      <3> QED
        BY <1>2, <3>1
    <2>5. \A d \in due' : \A m \in d.to : Wide(m) => m \notin posted' \cup kept'
      BY <1>2 DEF Once
    <2>6. \A d, e \in due' : \A m \in d.to \cap e.to : Wide(m) => d = e
      BY <1>2 DEF Once
    <2>7. \A m \in posted' : Wide(m) => m \notin kept'
      BY <1>2 DEF Once
    <2> QED
      BY <1>2, <2>1, <2>2, <2>3, <2>4, <2>5, <2>6, <2>7 DEF Once, Wide
  <1> QED
    BY <1>1, <1>3, <1>4, <1>5, <1>7

LEMMA LookUpStep ==
  ASSUME OrderShapes, Shapes, PastInv, NEW key \in looking, N!LookUp(key)
  PROVE  OrderShapes' /\ Shapes' /\ PastInv' /\ (Once => Once') /\ Known \subseteq Known'
  <1>1. OrderShapes' /\ Aging
    BY OrderSame DEF N!LookUp
  <1>2. PICK T : /\ looking' = looking \ {key}
                 /\ posted' = posted \cup T
                 /\ \A m \in T : m[2] = key
                 /\ UNCHANGED <<due, kept, news>>
    <2> DEFINE told == IF key[2] = "unavailable" THEN Watchers \ N!Parties(key[1]) ELSE Watchers
               T == IF listing = "deleted" THEN {} ELSE told \X {key}
    <2>1. \A m \in T : m[2] = key
      OBVIOUS
    <2>2. posted' = posted \cup T /\ looking' = looking \ {key} /\ UNCHANGED <<due, kept, news>>
      BY DEF N!LookUp
    <2> HIDE DEF T
    <2> QED
      BY <2>1, <2>2
  <1>3. Known' = Known \cup T
    BY <1>2 DEF Known
  <1>4. key[2] \in {"available", "unavailable"}
    BY WishKind DEF Shapes
  <1>5. Shapes'
    BY <1>2 DEF Shapes
  <1>6. PastInv'
    BY <1>1, <1>2, <1>3 DEF PastInv, Aging, Wide
  <1>7. Once => Once'
    BY <1>2, <1>4 DEF Once, Shapes, Wide
  <1> QED
    BY <1>1, <1>3, <1>5, <1>6, <1>7

LEMMA InsertStep ==
  ASSUME OrderShapes, Shapes, PastInv, NEW m \in posted, N!Insert(m)
  PROVE  OrderShapes' /\ Shapes' /\ PastInv' /\ (Once => Once') /\ Known \subseteq Known'
  <1>1. OrderShapes' /\ Aging
    BY OrderSame DEF N!Insert
  <1>2. /\ posted' = posted \ {m} /\ kept' = kept \cup {m}
        /\ UNCHANGED <<due, looking>>
    BY DEF N!Insert
  <1>3. Known' = Known
    BY <1>2 DEF Known
  <1>4. news' \in [Watchers -> {"none"} \cup N!WatcherKeys]
    BY DEF N!Insert, Shapes
  <1>5. Shapes'
    BY <1>2, <1>4 DEF Shapes
  <1>6. PastInv'
    BY <1>1, <1>2, <1>3 DEF PastInv, Aging, Wide
  <1>7. Once => Once'
    BY <1>2 DEF Once, Wide
  <1> QED
    BY <1>1, <1>3, <1>5, <1>6, <1>7

\* What happened once has happened.
LEMMA HistoryStays ==
  ASSUME [N!Next]_N!vars
  PROVE  (irregular => irregular') /\ (overtaken => overtaken')
  <1>1. \A D, key : N!Announce(D, key) => (overtaken => overtaken')
    BY Zenon DEF N!Announce
  <1>2. ASSUME NEW o \in Orders, Handled(o)
        PROVE  (irregular => irregular') /\ (overtaken => overtaken')
    <2>1. CASE N!Checkout(o)
      BY <2>1 DEF N!Checkout, N!history
    <2>2. CASE N!Pay(o)
      BY <1>1, <2>2 DEF N!Pay
    <2>3. CASE N!PayWrong(o)
      BY <1>1, <2>3, Zenon DEF N!PayWrong
    <2>4. CASE N!PayLate(o)
      BY <1>1, <2>4 DEF N!PayLate
    <2>5. CASE N!Decline(o)
      BY <1>1, <2>5, Zenon DEF N!Decline
    <2>6. CASE N!Cancel(o)
      BY <1>1, <2>6 DEF N!Cancel
    <2>7. CASE N!Expire(o)
      BY <1>1, <2>7, Zenon DEF N!Expire
    <2>8. CASE N!Missed(o)
      BY <1>1, <2>8 DEF N!Missed
    <2>9. CASE N!Resolve(o)
      BY <1>1, <2>9 DEF N!Resolve
    <2>10. CASE N!ResolveDelete(o)
      BY <1>1, <2>10 DEF N!ResolveDelete
    <2>11. ASSUME NEW target \in N!OrderStatuses, NEW cause \in N!Outcomes \cup {None},
                  N!Move(o, target, cause)
           PROVE  (irregular => irregular') /\ (overtaken => overtaken')
      BY <1>1, <2>11, Zenon DEF N!Move
    <2>12. CASE N!PaySeller(o)
      BY <1>1, <2>12 DEF N!PaySeller
    <2> QED
      BY <1>2, <2>1, <2>2, <2>3, <2>4, <2>5, <2>6, <2>7, <2>8, <2>9, <2>10, <2>11, <2>12
      DEF Handled, N!Payments, N!Ends, N!Moves
  <1>5. CASE N!Deliveries
    <2>1. UNCHANGED N!history
      BY <1>5 DEF N!Deliveries, N!Publish, N!LookUp, N!Insert
    <2> QED
      BY <2>1 DEF N!history
  <1>6. CASE UNCHANGED N!vars
    BY <1>6 DEF N!vars, N!history
  <1> QED
    BY <1>2, <1>5, <1>6 DEF N!Next, Handled

\* The invariant of announcements.
KeyInv == OrderShapes /\ OpenIsDead /\ Shapes /\ PastInv /\ (~irregular => Once)

\* The invariant is inductive.
LEMMA KeyInit == Distinct /\ N!Init => KeyInv
  <1> SUFFICES ASSUME Distinct, N!Init PROVE KeyInv
    OBVIOUS
  <1>1. OrderShapes /\ OpenIsDead /\ Shapes
    BY DEF N!Init, OrderShapes, OpenIsDead, Shapes, Distinct, N!NoneAssumption
  <1>2. Known = {}
    BY DEF N!Init, Known
  <1>3. PastInv /\ Once
    BY <1>2 DEF N!Init, PastInv, Once
  <1> QED
    BY <1>1, <1>3 DEF KeyInv

LEMMA KeyStep == Distinct /\ KeyInv /\ [N!Next]_N!vars => KeyInv'
  <1> SUFFICES ASSUME Distinct, KeyInv, [N!Next]_N!vars PROVE KeyInv'
    OBVIOUS
  <1> USE DEF KeyInv
  <1>1. irregular => irregular'
    BY HistoryStays
  <1>2. ASSUME UNCHANGED <<due, N!mail>>, OrderShapes', OpenIsDead', Aging PROVE KeyInv'
    <2>1. UNCHANGED <<due, looking, posted, kept, news>>
      BY <1>2 DEF N!mail
    <2>2. Shapes' /\ PastInv'
      BY <1>2, <2>1 DEF Shapes, PastInv, Known, Aging
    <2>3. Once => Once'
      BY <2>1 DEF Once
    <2> QED
      BY <1>1, <1>2, <2>2, <2>3
  <1>3. CASE \E o \in Orders : Handled(o)
    <2>1. PICK o \in Orders : Handled(o)
      BY <1>3
    <2>2. OrderShapes' /\ OpenIsDead' /\ Aging
      BY <2>1, HandlerSays, OpenStep
    <2>3. CASE UNCHANGED <<due, N!mail>>
      BY <1>2, <2>2, <2>3
    <2>4. ASSUME NEW D, NEW key, Says(D, key) PROVE KeyInv'
      BY <1>1, <2>2, <2>4, SaysStep
    <2> QED
      BY <2>1, <2>3, <2>4, HandlerSays
  <1>4. CASE N!Deliveries
    <2>1. UNCHANGED <<N!order, N!item>>
      BY <1>4 DEF N!Deliveries, N!Publish, N!LookUp, N!Insert
    <2>2. OpenIsDead'
      BY <2>1, OrderSame
    <2> QED
      BY <1>1, <2>2, <1>4, PublishStep, LookUpStep, InsertStep DEF N!Deliveries
  <1>5. CASE UNCHANGED N!vars
    BY <1>2, <1>5, OrderSame DEF N!vars
  <1> QED
    BY <1>3, <1>4, <1>5 DEF N!Next, Handled

-----------------------------------------------------------------------------
(* The parties are told *)

\* Announcing the end of an order to both parties tells them.
LEMMA TellsBoth ==
  ASSUME EndsFollowed, NEW o \in Orders,
         NEW event \in EndEvents, NEW cause \in N!Dead \cup N!Outcomes,
         NEW D, NEW key, N!Announce(D, key), D = N!Both(<<o, event, cause>>)
  PROVE  \A u \in N!Parties(o) : \E k \in N!EndKeys(o) : <<u, k>> \in Known'
  <1> DEFINE k == <<o, event, cause>>
  <1>1. k \in N!EndKeys(o)
    BY DEF N!EndKeys, EndEvents
  <1>2. <<k[2], k[3]>> \in Followed
    BY DEF EndsFollowed
  <1>3. ASSUME NEW u \in N!Parties(o) PROVE <<u, k>> \in Known'
    <2>0. k[1] = o
      OBVIOUS
    <2>1. <<u, k>> \in D /\ <<u, k>>[2] = k
      BY <2>0 DEF N!Both
    <2>2. <<<<u, k>>[2][2], <<u, k>>[2][3]>> \in Followed
      BY <1>2, <2>1
    <2> QED
      BY <2>1, <2>2, Announced
  <1> QED
    BY <1>1, <1>3

\* The parties of order o are told of its end, or it has none, or had it before.
EndTold(o) ==
  status'[o] \in N!Dead /\ outcome'[o] \notin N!AtCollection =>
    \/ status[o] \in N!Dead /\ outcome[o] \notin N!AtCollection
    \/ \A u \in N!Parties(o) : \E key \in N!EndKeys(o) : <<u, key>> \in Known'

\* Whichever handler ends an order announces its end.
LEMMA HandlerTells ==
  ASSUME EndsFollowed, OrderShapes, NEW o \in Orders, Handled(o)
  PROVE  \A p \in Orders : EndTold(p)
  <1>1. CASE N!Checkout(o)
    BY <1>1 DEF N!Checkout, OrderShapes, EndTold, N!Dead
  <1>2. CASE N!Pay(o)
    BY <1>2 DEF N!Pay, OrderShapes, EndTold, N!Dead
  <1>3. CASE N!PayWrong(o)
    <2>1. N!OrderStatusChanged(o, "refunded") = N!Both(<<o, "status", "refunded">>)
      BY DEF N!OrderStatusChanged, N!OrderParties
    <2>2. \A u \in N!Parties(o) : \E key \in N!EndKeys(o) : <<u, key>> \in Known'
      BY <1>3, <2>1, TellsBoth DEF N!PayWrong, EndEvents, N!Dead
    <2> QED
      BY <1>3, <2>2 DEF N!PayWrong, OrderShapes, EndTold
  <1>4. CASE N!PayLate(o)
    BY <1>4 DEF N!PayLate, OrderShapes, EndTold, N!Dead
  <1>5. CASE N!Decline(o)
    BY <1>5 DEF N!Decline, N!order, EndTold
  <1>6. CASE N!Cancel(o) \/ N!Expire(o)
    <2>1. N!OrderStatusChanged(o, "cancelled") = N!Both(<<o, "status", "cancelled">>)
      BY DEF N!OrderStatusChanged, N!OrderParties
    <2>2. \A u \in N!Parties(o) : \E key \in N!EndKeys(o) : <<u, key>> \in Known'
      BY <1>6, <2>1, TellsBoth DEF N!Cancel, N!Expire, EndEvents, N!Dead
    <2> QED
      BY <1>6, <2>2 DEF N!Cancel, N!Expire, OrderShapes, EndTold
  <1>7. CASE N!Missed(o)
    BY <1>7 DEF N!Missed, OrderShapes, EndTold, N!AtCollection, N!Dead
  <1>8. CASE N!Resolve(o) \/ N!ResolveDelete(o)
    BY <1>8 DEF N!Resolve, N!ResolveDelete, N!order, EndTold
  <1>9. ASSUME NEW target \in N!OrderStatuses, NEW cause \in N!Outcomes \cup {None},
               N!Move(o, target, cause)
         PROVE  \A p \in Orders : EndTold(p)
    <2>1. CASE target \notin N!Dead
      BY <1>9, <2>1 DEF N!Move, OrderShapes, EndTold
    <2>2. CASE target \in N!Dead
      <3>1. \E event \in EndEvents, why \in N!Dead \cup N!Outcomes :
              N!MoveAnnounces(o, target, cause) = N!Both(<<o, event, why>>)
        <4>1. CASE cause \in N!AtVerification
          BY <4>1 DEF N!MoveAnnounces, N!AuthenticationFailed, EndEvents, N!Outcomes
        <4>2. CASE cause \notin N!AtVerification /\ cause \in N!AtDelivery
          BY <4>2 DEF N!MoveAnnounces, N!DeliveryRejected, EndEvents, N!Outcomes
        <4>3. CASE cause \notin N!AtVerification /\ cause \notin N!AtDelivery
          BY <4>3, <2>2
          DEF N!MoveAnnounces, N!OrderStatusChanged, N!OrderParties, EndEvents, N!Dead
        <4> QED
          BY <4>1, <4>2, <4>3
      <3>2. \A u \in N!Parties(o) : \E key \in N!EndKeys(o) : <<u, key>> \in Known'
        BY <1>9, <3>1, TellsBoth DEF N!Move
      <3> QED
        BY <1>9, <3>2 DEF N!Move, OrderShapes, EndTold
    <2> QED
      BY <2>1, <2>2
  <1>10. CASE N!PaySeller(o)
    BY <1>10 DEF N!PaySeller, N!order, EndTold
  <1> QED
    BY <1>1, <1>2, <1>3, <1>4, <1>5, <1>6, <1>7, <1>8, <1>9, <1>10
    DEF Handled, N!Payments, N!Ends, N!Moves

\* An end that was told stays told.
LEMMA EndingsStep == EndsFollowed /\ Distinct /\ KeyInv /\ Endings /\ [N!Next]_N!vars => Endings'
  <1> SUFFICES ASSUME EndsFollowed, Distinct, KeyInv, Endings, [N!Next]_N!vars PROVE Endings'
    OBVIOUS
  <1>1. Known \subseteq Known'
    <2>1. CASE \E o \in Orders : Handled(o)
      BY <2>1, HandlerSays, Announced DEF KeyInv, Says, Known, N!mail
    <2>2. CASE N!Deliveries
      BY <2>2, PublishStep, LookUpStep, InsertStep DEF N!Deliveries, KeyInv
    <2>3. CASE UNCHANGED N!vars
      BY <2>3 DEF N!vars, N!mail, Known
    <2> QED
      BY <2>1, <2>2, <2>3 DEF N!Next, Handled
  <1>2. \A o \in Orders : EndTold(o)
    <2>1. CASE \E o \in Orders : Handled(o)
      BY <2>1, HandlerTells DEF KeyInv
    <2>2. CASE N!Deliveries \/ UNCHANGED N!vars
      BY <2>2 DEF N!Deliveries, N!Publish, N!LookUp, N!Insert, N!vars, N!order, EndTold
    <2> QED
      BY <2>1, <2>2 DEF N!Next, Handled
  <1> QED
    BY <1>1, <1>2 DEF Endings, EndTold, N!EndKeys

\* The invariant holds in every reachable state.
LEMMA KeysHold == ASSUME Distinct PROVE N!Spec => []KeyInv
  <1>1. N!Init => KeyInv
    BY KeyInit
  <1>2. KeyInv /\ [N!Next]_N!vars => KeyInv'
    BY KeyStep
  <1> QED
    BY <1>1, <1>2, PTL DEF N!Spec

\* When nothing is in flight, both parties of an order that ended have been told so, for
\* any number of orders and deliveries in any order: whichever handler ended it, except
\* reportMissedCollection, whose cancellation is announced to neither party.
THEOREM EndsAreTold ==
  ASSUME Distinct, EndsFollowed
  PROVE  N!Spec => []N!EndIsTold
  <1>1. N!Init => Endings
    BY DEF N!Init, Endings, N!Dead
  <1>2. KeyInv /\ Endings /\ [N!Next]_N!vars => Endings'
    BY EndingsStep
  <1>3. Endings => N!EndIsTold
    BY DEF Endings, N!EndIsTold, N!AtRest, Known
  <1> QED
    BY KeysHold, <1>1, <1>2, <1>3, PTL DEF N!Spec

-----------------------------------------------------------------------------
(* The watchers know *)

\* An order under way.
Live == N!OrderStatuses \ (N!Dead \cup {"pending_payment"})

\* An order its payment event will find.
Payable(o) == status[o] = "pending_payment" /\ payment[o] = "pending"

\* The listing is with the order it names, which is about to be paid, under way or,
\* while an issue about it is open, over.
Regular ==
  /\ names = None <=> listing = "available"
  /\ open # None => names = open /\ listing = "under_review"
  /\ \A o \in Orders : status[o] \in Live => names = o /\ payment[o] = "paid"
  /\ \A o \in Orders : Payable(o) => names = o
  /\ \A o \in Orders : names = o =>
       \/ status[o] = "pending_payment" /\ listing = "secured" /\ open = None
       \/ status[o] \in Live /\ listing \in {"secured", "sold"} /\ open = None
       \/ status[o] \in N!Dead /\ listing = "under_review" /\ open = o
       \/ status[o] \in N!Dead /\ listing = "deleted" /\ open = None

\* What the watchers are to believe.
Taken == listing # "available" /\ \A o \in Orders : names = o => status[o] # "pending_payment"
\* What a key has them believe.
Bad(key) == key[2] \in {"unavailable", "deleted"}

\* What is on its way to them is so.
Agree ==
  /\ \A d \in due : d.wish # None => (Bad(d.wish) <=> Taken)
  /\ \A k \in looking : Bad(k) <=> Taken
  /\ \A m \in posted \cup UNION {d.to : d \in due} : Wide(m) => (Bad(m[2]) <=> Taken)

\* Watcher w is still to be told something.
Coming(w) ==
  \/ listing # "deleted" /\ (looking # {} \/ \E d \in due : d.wish # None)
  \/ \E m \in posted \cup UNION {d.to : d \in due} : m[1] = w /\ Wide(m)
Others == N!Bystanders
\* Who is not has been told how it is.
Arrived ==
  \A w \in Others : Coming(w) \/ (news[w] \in {"unavailable", "deleted"} <=> Taken)

\* It holds of listings that changed hands as announced; the watchers' part, if no two
\* announcements to them were in flight at once.
Hearing == ~irregular => Regular /\ (~overtaken => Agree /\ Arrived)

\* A step that tells the watchers nothing.
Mute(D) ==
  /\ UNCHANGED <<due, N!mail, overtaken>> \/ N!Announce(D, None)
  /\ \A m \in D : ~Wide(m)
  /\ Taken' <=> Taken
  /\ listing' = "deleted" <=> listing = "deleted"

\* A step that tells them that the listing is available, or not.
Loud(D, key) ==
  /\ N!Announce(D, key)
  /\ \A m \in D : ~Wide(m)
  /\ key \in WishKeys
  /\ Bad(key) <=> Taken'
  /\ listing' # "deleted" /\ listing # "deleted"

\* After a step of the first kind the watchers know what they knew.
LEMMA MuteStep ==
  ASSUME Agree, Arrived, NEW D, Mute(D)
  PROVE  Agree' /\ Arrived'
  <1> DEFINE told == {m \in D : <<m[2][2], m[2][3]>> \in Followed}
             a == [to |-> told, wish |-> None]
  <1>1. UNCHANGED <<looking, posted, kept, news>>
    BY DEF Mute, N!Announce, N!mail
  <1>2. CASE due' = due
    BY <1>1, <1>2 DEF Mute, Agree, Arrived, Coming, Others
  <1>3. CASE due' = due \cup {a}
    <2>1. a.to = told /\ a.wish = None
      OBVIOUS
    <2>2. \A m \in a.to : ~Wide(m)
      <3>1. \A m \in told : m \in D
        OBVIOUS
      <3> QED
        BY <2>1, <3>1, Zenon DEF Mute
    <2> HIDE DEF a
    <2>3. Agree'
      BY <1>1, <1>3, <2>1, <2>2 DEF Mute, Agree, Wide
    <2>4. \A w : Coming(w) => Coming(w)'
      BY <1>1, <1>3 DEF Mute, Coming, Wide
    <2>5. Arrived'
      BY <1>1, <2>4 DEF Mute, Arrived, Others
    <2> QED
      BY <2>3, <2>5
  <1> QED
    BY <1>2, <1>3 DEF Mute, N!Announce

\* After one of the second kind they are about to be told.
LEMMA LoudStep ==
  ASSUME Distinct, Shapes, PastInv, NEW D, NEW key, Loud(D, key), ~overtaken'
  PROVE  Agree' /\ Arrived'
  <1> DEFINE told == {m \in D : <<m[2][2], m[2][3]>> \in Followed}
             a == [to |-> told, wish |-> key]
  <1>1. UNCHANGED <<looking, posted, kept, news>>
    BY DEF Loud, N!Announce, N!mail
  <1>2. key # None
    BY DEF Loud, Distinct, N!KeyAssumption, WishKeys
  <1>3. due' = due \cup {a}
    BY <1>2 DEF Loud, N!Announce
  <1>4. (\A d \in due : d.wish = None) /\ looking = {} /\ \A m \in posted : ~Wide(m)
    BY <1>2 DEF Loud, N!Announce, Wide
  <1>5. \A d \in due : \A m \in d.to : ~Wide(m)
    BY DEF Shapes, PastInv, Past, Known, Loud
  <1>6. a.to = told /\ a.wish = key
    OBVIOUS
  <1>7. \A m \in a.to : ~Wide(m)
    <2>1. \A m \in told : m \in D
      OBVIOUS
    <2> QED
      BY <1>6, <2>1, Zenon DEF Loud
  <1> HIDE DEF a
  <1>8. Agree'
    <2>1. \A d \in due' : d.wish # None => (Bad(d.wish)' <=> Taken')
      BY <1>3, <1>4, <1>6 DEF Loud, Bad
    <2>2. \A m \in posted' \cup UNION {d.to : d \in due'} : ~Wide(m)
      BY <1>1, <1>3, <1>4, <1>5, <1>7
    <2> QED
      BY <1>1, <1>4, <2>1, <2>2 DEF Agree, Wide
  <1>9. \A w : Coming(w)'
    BY <1>2, <1>3, <1>6 DEF Loud, Coming
  <1> QED
    BY <1>8, <1>9 DEF Arrived

\* Which handlers do what.
LEMMA CheckoutHeard ==
  ASSUME Distinct, KeyInv, Regular, NEW o \in Orders, N!Checkout(o)
  PROVE  Regular' /\ Mute({})
  <1>1. Regular'
    BY DEF N!Checkout, KeyInv, OrderShapes, Regular, Payable, Live, N!Dead, Distinct,
        N!NoneAssumption
  <1>2. ~Taken /\ ~Taken'
    BY DEF N!Checkout, Taken, KeyInv, OrderShapes
  <1> QED
    BY <1>1, <1>2 DEF Mute, N!Checkout, N!history

LEMMA PayHeard ==
  ASSUME Distinct, KeyInv, Regular, NEW o \in Orders, N!Pay(o)
  PROVE  Regular' /\ Loud(N!PaymentSucceeded(o), N!Unavailable(o))
  <1>1. status[o] = "pending_payment" /\ names = o /\ listing = "secured" /\ open = None
    BY DEF N!Pay, Regular, Payable, Live, N!Dead, Distinct, N!NoneAssumption
  <1>2. /\ status' = [status EXCEPT ![o] = "secured"] /\ listing' = "secured"
        /\ payment' = [payment EXCEPT ![o] = "paid"]
        /\ UNCHANGED <<names, open>>
    BY <1>1 DEF N!Pay, N!SetListing
  <1>3. Regular'
    BY <1>1, <1>2 DEF KeyInv, OrderShapes, Regular, Payable, Live, N!Dead, N!OrderStatuses
  <1>4. Taken'
    BY <1>1, <1>2 DEF Taken, KeyInv, OrderShapes
  <1>5. Bad(N!Unavailable(o)) /\ N!Unavailable(o) \in WishKeys
    BY DEF Bad, N!Unavailable, WishKeys
  <1> QED
    BY <1>1, <1>2, <1>3, <1>4, <1>5, Plain DEF Loud, N!Pay

\* The listing goes back on sale.
Freed ==
  /\ listing' = "available" /\ names' = None
  /\ listing \notin {"deleted", "available"}

LEMMA FreedLoud ==
  ASSUME NEW o \in Orders, NEW cause \in N!Causes, Freed, NEW D, \A m \in D : ~Wide(m),
         N!Announce(D, N!Available(o, cause))
  PROVE  Loud(D, N!Available(o, cause))
  <1>1. ~Taken'
    BY DEF Freed, Taken
  <1>2. ~Bad(N!Available(o, cause)) /\ N!Available(o, cause) \in WishKeys
    BY DEF Bad, N!Available, WishKeys
  <1> QED
    BY <1>1, <1>2 DEF Loud, Freed

\* A listing is freed by the order that has it, and nothing else is under way then.
LEMMA FreedRegular ==
  ASSUME Distinct, KeyInv, Regular, Freed, NEW o \in Orders, names = o, open' = None,
         \A p \in Orders \ {o} : status'[p] = status[p] /\ payment'[p] = payment[p],
         status'[o] \notin Live, ~Payable(o)'
  PROVE  Regular'
  BY DEF Freed, Regular, Payable, KeyInv, OrderShapes, Live, N!Dead, Distinct, N!NoneAssumption

LEMMA PayWrongHeard ==
  ASSUME Distinct, KeyInv, Regular, NEW o \in Orders, N!PayWrong(o), ~irregular'
  PROVE  /\ Regular'
         /\ Loud(N!OrderStatusChanged(o, "refunded"), N!Available(o, "invalid-payment"))
  <1>0. status[o] = "pending_payment" /\ names = o
    BY Zenon DEF N!PayWrong
  <1>1. listing = "secured" /\ open = None
    BY <1>0 DEF Regular, Live, N!Dead, Distinct, N!NoneAssumption
  <1>2. /\ Freed /\ status' = [status EXCEPT ![o] = "refunded"] /\ open' = open
        /\ payment' = [payment EXCEPT ![o] = "wrong"]
    BY <1>0, <1>1 DEF N!PayWrong, N!Release, N!Gives, Freed, Distinct, N!NoneAssumption
  <1>3. Regular'
    BY <1>0, <1>1, <1>2, FreedRegular DEF KeyInv, OrderShapes, Payable, Live, N!Dead
  <1> QED
    BY <1>2, <1>3, Plain, FreedLoud DEF N!PayWrong, N!Causes

LEMMA ExpireHeard ==
  ASSUME Distinct, KeyInv, Regular, NEW o \in Orders, N!Expire(o), ~irregular'
  PROVE  Regular' /\ Loud(N!OrderStatusChanged(o, "cancelled"), N!Available(o, "expired"))
  <1>0. status[o] = "pending_payment" /\ names = o
    BY Zenon DEF N!Expire
  <1>1. listing = "secured" /\ open = None
    BY <1>0 DEF Regular, Live, N!Dead, Distinct, N!NoneAssumption
  <1>2. /\ Freed /\ status' = [status EXCEPT ![o] = "cancelled"]
        /\ UNCHANGED <<open, payment>>
    BY <1>0, <1>1 DEF N!Expire, N!Release, N!Gives, Freed, Distinct, N!NoneAssumption
  <1>3. Regular'
    BY <1>0, <1>1, <1>2, FreedRegular DEF KeyInv, OrderShapes, Payable, Live, N!Dead
  <1> QED
    BY <1>2, <1>3, Plain, FreedLoud DEF N!Expire, N!Causes

LEMMA CancelHeard ==
  ASSUME Distinct, KeyInv, Regular, NEW o \in Orders, N!Cancel(o)
  PROVE  Regular' /\ Loud(N!OrderStatusChanged(o, "cancelled"), N!Available(o, "cancelled"))
  <1>1. names = o /\ listing \in {"secured", "sold"} /\ open = None
    BY DEF N!Cancel, Regular, Payable, Live, N!Dead, N!OrderStatuses, Distinct, N!NoneAssumption
  <1>2. /\ Freed /\ status' = [status EXCEPT ![o] = "cancelled"]
        /\ UNCHANGED <<open, payment>>
    BY <1>1
    DEF N!Cancel, N!Release, N!Gives, N!Relist, N!SetListing, Freed, Distinct, N!NoneAssumption
  <1>3. Regular'
    BY <1>1, <1>2, FreedRegular DEF KeyInv, OrderShapes, Payable, Live, N!Dead
  <1> QED
    BY <1>2, <1>3, Plain, FreedLoud DEF N!Cancel, N!Causes

LEMMA ResolveHeard ==
  ASSUME Distinct, KeyInv, Regular, NEW o \in Orders, N!Resolve(o)
  PROVE  Regular' /\ Loud(N!IssueResolved(o), N!Available(o, "issue-resolved"))
  <1>1. names = o /\ listing = "under_review" /\ status[o] \in N!Dead
    BY DEF N!Resolve, KeyInv, OpenIsDead, Regular, Distinct, N!NoneAssumption
  <1>2. Freed /\ UNCHANGED <<status, payment>> /\ open' = None
    BY <1>1 DEF N!Resolve, N!Relist, N!SetListing, Freed, N!order
  <1>3. Regular'
    BY <1>1, <1>2, FreedRegular DEF Live, Payable, N!Dead
  <1> QED
    BY <1>2, <1>3, Plain, FreedLoud DEF N!Resolve, N!Causes

LEMMA MissedHeard ==
  ASSUME Distinct, KeyInv, Regular, NEW o \in Orders, N!Missed(o)
  PROVE  /\ Regular'
         /\ \/ Mute(N!CollectionMissed(o, missed[o] + 1))
            \/ Loud(N!CollectionMissed(o, missed[o] + 1),
                    N!Available(o, "missed-collection-cancelled"))
  <1>1. names = o /\ listing \in {"secured", "sold"} /\ open = None
    BY DEF N!Missed, Regular, Live, N!Dead, N!OrderStatuses, Distinct, N!NoneAssumption
  <1>2. CASE missed[o] + 1 >= Threshold
    <2>1. /\ Freed /\ status' = [status EXCEPT ![o] = "cancelled"]
          /\ UNCHANGED <<open, payment>>
      BY <1>1, <1>2 DEF N!Missed, N!Relist, N!SetListing, Freed
    <2>2. Regular'
      BY <1>1, <2>1, FreedRegular DEF KeyInv, OrderShapes, Payable, Live, N!Dead
    <2>3. N!Announce(N!CollectionMissed(o, missed[o] + 1),
                   N!Available(o, "missed-collection-cancelled"))
      BY <1>2 DEF N!Missed
    <2> QED
      BY <2>1, <2>2, <2>3, Plain, FreedLoud DEF N!Causes
  <1>3. CASE ~(missed[o] + 1 >= Threshold)
    <2>1. /\ UNCHANGED <<status, payment, listing, names, open>>
          /\ N!Announce(N!CollectionMissed(o, missed[o] + 1), None)
      BY <1>3 DEF N!Missed
    <2> QED
      BY <2>1, Plain DEF Regular, Payable, Mute, Taken
  <1> QED
    BY <1>2, <1>3

LEMMA PayLateHeard ==
  ASSUME Distinct, KeyInv, Regular, NEW o \in Orders, N!PayLate(o)
  PROVE  Regular' /\ Mute(N!OrderStatusChanged(o, "refunded"))
  <1>1. /\ UNCHANGED N!item
        /\ status' = [status EXCEPT ![o] = "refunded"] /\ status[o] \in N!Dead
        /\ payment' = [payment EXCEPT ![o] = "paid"]
        /\ N!Announce(N!OrderStatusChanged(o, "refunded"), None)
    BY DEF N!PayLate
  <1>2. Regular'
    BY <1>1 DEF N!item, Regular, KeyInv, OrderShapes, Payable, Live, N!Dead
  <1>3. Taken' <=> Taken
    BY <1>1 DEF N!item, Taken, KeyInv, OrderShapes, N!Dead
  <1> QED
    BY <1>1, <1>2, <1>3, Plain DEF Mute, N!item

LEMMA PaySellerHeard ==
  ASSUME Regular, NEW o \in Orders, N!PaySeller(o)
  PROVE  Regular' /\ Mute(N!PayoutPaid(o))
BY Plain DEF N!PaySeller, Regular, Payable, Mute, Taken, N!order, N!item

\* A declined payment gives back what its order still has, and of that nothing was said.
LEMMA DeclineHeard ==
  ASSUME Distinct, KeyInv, Regular, NEW o \in Orders, N!Decline(o), ~irregular'
  PROVE  Regular' /\ Mute(N!PaymentFailed(o))
  <1>1. names' # names => names = o
    BY Zenon DEF N!Decline
  <1>2. /\ UNCHANGED <<status, open>>
        /\ \A p \in Orders \ {o} : payment'[p] = payment[p]
        /\ ~Payable(o)'
    BY DEF N!Decline, KeyInv, OrderShapes, Payable
  <1>3. status[o] \notin Live
    BY DEF N!Decline, Regular, Live
  <1>4. N!Announce(N!PaymentFailed(o), None)
    BY DEF N!Decline
  <1>5. CASE UNCHANGED <<listing, names>>
    <2>1. Regular'
      BY <1>2, <1>3, <1>5 DEF Regular, Payable
    <2> QED
      BY <1>2, <1>4, <1>5, <2>1, Plain DEF Mute, Taken
  <1>6. CASE listing = "secured" /\ names # None /\ listing' = "available" /\ names' = None
    <2>1. names = o /\ Freed
      BY <1>1, <1>6 DEF Freed
    <2>2. status[o] = "pending_payment" /\ open = None
      BY <1>3, <1>6, <2>1 DEF Regular
    <2>3. Regular'
      BY <1>2, <1>3, <2>1, <2>2, FreedRegular
    <2>4. ~Taken /\ ~Taken'
      BY <1>6, <2>1, <2>2 DEF Taken
    <2> QED
      BY <1>4, <1>6, <2>3, <2>4, Plain DEF Mute
  <1> QED
    BY <1>5, <1>6 DEF N!Decline, N!Release, N!Gives

LEMMA MoveHeard ==
  ASSUME Distinct, KeyInv, Regular, ~irregular', NEW o \in Orders,
         NEW target \in N!OrderStatuses, NEW cause \in N!Outcomes \cup {None},
         N!Move(o, target, cause)
  PROVE  /\ Regular'
         /\ \/ Mute(N!MoveAnnounces(o, target, cause))
            \/ Loud(N!MoveAnnounces(o, target, cause), N!Available(o, target))
  <1>0. target # "secured"
    BY Zenon DEF N!Move
  <1>1. status[o] \in Live /\ target \notin {"secured", "pending_payment"}
    BY <1>0 DEF N!Move, N!Transitions, Live, N!Dead
  <1>2. names = o /\ listing \in {"secured", "sold"} /\ open = None
    BY <1>1 DEF Regular, Live, N!Dead, Distinct, N!NoneAssumption
  <1>3. status' = [status EXCEPT ![o] = target] /\ payment' = payment
    BY DEF N!Move
  <1>4. CASE target = "cancelled"
    <2>1. cause = None
      BY <1>4 DEF N!Move, N!PolicyOutcomes
    <2>2. Freed /\ open' = open
      BY <1>2, <1>4, <2>1 DEF N!Move, N!Relist, N!SetListing, Freed
    <2>3. Regular'
      BY <1>2, <1>3, <1>4, <2>2, FreedRegular DEF KeyInv, OrderShapes, Payable, Live, N!Dead
    <2>4. N!Announce(N!MoveAnnounces(o, target, cause), N!Available(o, target))
      BY <1>4 DEF N!Move
    <2> QED
      BY <1>4, <2>2, <2>3, <2>4, Plain, FreedLoud DEF N!Causes
  <1>5. CASE target # "cancelled" /\ cause = None
    <2>1. target \in Live
      BY <1>1, <1>5
      DEF N!Move, N!PolicyOutcomes, Live, N!Dead, N!AtVerification, N!AtDelivery, N!Outcomes,
          Distinct, N!NoneAssumption
    <2>2. UNCHANGED <<names, open>> /\ listing' \in {"secured", "sold"}
      BY <1>2, <1>5 DEF N!Move, N!SetListing
    <2>3. Regular'
      BY <1>1, <1>2, <1>3, <2>1, <2>2 DEF KeyInv, OrderShapes, Regular, Payable, Live, N!Dead
    <2>4. Taken /\ Taken'
      BY <1>1, <1>2, <1>3, <2>1, <2>2 DEF KeyInv, OrderShapes, Taken, Live
    <2>5. N!Announce(N!MoveAnnounces(o, target, cause), None)
      BY <1>5 DEF N!Move
    <2> QED
      BY <1>2, <2>2, <2>3, <2>4, <2>5, Plain DEF Mute
  <1>6. CASE target # "cancelled" /\ cause # None
    <2>1. target = "refunded"
      BY <1>6 DEF N!Move, N!PolicyOutcomes
    <2>2. names' = names /\ open' = o /\ listing' = "under_review"
      BY <1>2, <1>6 DEF N!Move, N!SetListing
    <2>3. Regular'
      BY <1>1, <1>2, <1>3, <2>1, <2>2
      DEF KeyInv, OrderShapes, Regular, Payable, Live, N!Dead, Distinct, N!NoneAssumption
    <2>4. Taken /\ Taken'
      BY <1>1, <1>2, <1>3, <2>1, <2>2 DEF KeyInv, OrderShapes, Taken, Live
    <2>5. N!Announce(N!MoveAnnounces(o, target, cause), None)
      BY <1>6 DEF N!Move
    <2> QED
      BY <1>2, <2>2, <2>3, <2>4, <2>5, Plain DEF Mute
  <1> QED
    BY <1>4, <1>5, <1>6

LEMMA ResolveDeleteHeard ==
  ASSUME Distinct, DeletionsFollowed, KeyInv, Regular, NEW o \in Orders, N!ResolveDelete(o)
  PROVE  Regular' /\ (Agree /\ Arrived => Agree' /\ Arrived')
  <1> DEFINE key == <<o, "deleted", None>>
             D == N!IssueResolved(o) \cup Watchers \X {key}
             told == {m \in D : <<m[2][2], m[2][3]>> \in Followed}
             a == [to |-> told, wish |-> None]
  <1>1. names = o /\ listing = "under_review" /\ status[o] \in N!Dead
    BY DEF N!ResolveDelete, KeyInv, OpenIsDead, Regular, Distinct, N!NoneAssumption
  <1>2. /\ UNCHANGED <<status, payment, names>> /\ open' = None /\ listing' = "deleted"
        /\ N!Announce(D, None)
    BY DEF N!ResolveDelete, N!order
  <1>3. Regular'
    BY <1>1, <1>2
    DEF Regular, KeyInv, OrderShapes, Payable, Live, N!Dead, Distinct, N!NoneAssumption
  <1>4. Taken /\ Taken'
    BY <1>1, <1>2 DEF Taken, KeyInv, OrderShapes, N!Dead
  <1>5. UNCHANGED <<looking, posted, kept, news>>
    BY <1>2 DEF N!Announce, N!mail
  <1>6. \A w \in Watchers : <<w, key>> \in told /\ Wide(<<w, key>>)
    BY DEF DeletionsFollowed, Wide, N!WatcherKeys
  <1>7. \A m \in told : Wide(m) => Bad(m[2])
    <2>1. \A m \in N!IssueResolved(o) : ~Wide(m)
      BY Plain
    <2>2. \A m \in Watchers \X {key} : Bad(m[2])
      BY DEF Bad
    <2> QED
      BY <2>1, <2>2
  <1>8. a.to = told /\ a.wish = None
    OBVIOUS
  <1>9. due' = due \cup {a} \/ told = {}
    BY <1>2 DEF N!Announce
  <1>10. due' = due \cup {a} \/ due' = due
    BY <1>2 DEF N!Announce
  <1> HIDE DEF a, told
  <1>11. ASSUME Agree PROVE Agree'
    BY <1>4, <1>5, <1>7, <1>8, <1>10, <1>11 DEF Agree, Wide, Bad
  <1>12. Arrived'
    <2>1. ASSUME NEW w \in Others PROVE Coming(w)'
      <3>1. <<w, key>> \in told /\ Wide(<<w, key>>) /\ <<w, key>>[1] = w
        BY <1>6 DEF Others, N!Bystanders
      <3>2. <<w, key>> \in UNION {d.to : d \in due'}
        BY <1>8, <1>9, <3>1
      <3> QED
        BY <3>1, <3>2 DEF Coming, Wide
    <2> QED
      BY <2>1 DEF Arrived, Others
  <1> QED
    BY <1>3, <1>11, <1>12

\* Deliveries tell the watchers what is announced.
LEMMA DeliveriesHeard ==
  ASSUME KeyInv, ~irregular, Agree, Arrived, N!Deliveries
  PROVE  Agree' /\ Arrived'
  <1>1. UNCHANGED <<N!order, N!item>>
    BY DEF N!Deliveries, N!Publish, N!LookUp, N!Insert
  <1>2. (Taken' <=> Taken) /\ listing' = listing
    BY <1>1 DEF Taken, N!order, N!item
  <1>3. ASSUME NEW a \in due, N!Publish(a) PROVE Agree' /\ Arrived'
    <2>1. /\ due' = due \ {a} /\ posted' = posted \cup a.to
          /\ looking' = looking \cup ({a.wish} \ {None})
          /\ UNCHANGED news
      BY <1>3 DEF N!Publish
    <2>2. Agree'
      BY <1>2, <2>1 DEF Agree, Wide, Bad
    <2>3. ASSUME NEW w, Coming(w) PROVE Coming(w)'
      BY <1>2, <2>1, <2>3 DEF Coming, Wide
    <2> QED
      BY <1>2, <2>1, <2>2, <2>3 DEF Arrived, Others
  <1>4. ASSUME NEW key \in looking, N!LookUp(key) PROVE Agree' /\ Arrived'
    <2> DEFINE told == IF key[2] = "unavailable" THEN Watchers \ N!Parties(key[1]) ELSE Watchers
               T == IF listing = "deleted" THEN {} ELSE told \X {key}
    <2>1. looking' = looking \ {key} /\ posted' = posted \cup T /\ UNCHANGED <<due, news>>
      BY <1>4 DEF N!LookUp
    <2>2. \A m \in T : m[2] = key
      OBVIOUS
    <2>3. listing # "deleted" => \A w \in Others : <<w, key>> \in T
      BY WishOrder DEF KeyInv, Shapes, Others, N!Bystanders, N!Parties
    <2>4. \A w : Wide(<<w, key>>)
      BY WishKind DEF KeyInv, Shapes, Wide, N!WatcherKeys
    <2> HIDE DEF T
    <2>5. Agree'
      BY <1>2, <2>1, <2>2 DEF Agree, Wide, Bad
    <2>6. ASSUME NEW w \in Others, Coming(w) PROVE Coming(w)'
      <3>1. CASE listing = "deleted"
        BY <1>2, <2>1, <2>6, <3>1 DEF Coming, Wide
      <3>2. CASE listing # "deleted"
        <4>1. <<w, key>> \in posted' /\ Wide(<<w, key>>) /\ <<w, key>>[1] = w
          BY <2>1, <2>3, <2>4, <3>2
        <4> QED
          BY <4>1 DEF Coming, Wide
      <3> QED
        BY <3>1, <3>2
    <2> QED
      BY <1>2, <2>1, <2>5, <2>6 DEF Arrived, Others
  <1>5. ASSUME NEW m \in posted, N!Insert(m) PROVE Agree' /\ Arrived'
    <2>1. /\ posted' = posted \ {m} /\ UNCHANGED <<due, looking>>
          /\ news' = IF m \notin kept /\ Wide(m) /\ m[1] \in Watchers
                     THEN [news EXCEPT ![m[1]] = m[2][2]] ELSE news
      BY <1>5 DEF N!Insert, Wide
    <2>2. Agree'
      BY <1>2, <2>1 DEF Agree, Wide, Bad
    <2>3. ASSUME NEW w \in Others
          PROVE  Coming(w)' \/ (news'[w] \in {"unavailable", "deleted"} <=> Taken)
      <3>1. CASE Wide(m) /\ m[1] = w
        <4>1. news'[w] = m[2][2]
          BY <2>1, <3>1 DEF KeyInv, Once, Shapes, Others, N!Bystanders
        <4>2. Bad(m[2]) <=> Taken
          BY <3>1 DEF Agree
        <4> QED
          BY <4>1, <4>2 DEF Bad
      <3>2. CASE ~(Wide(m) /\ m[1] = w)
        <4>1. news'[w] = news[w]
          BY <2>1, <3>2 DEF KeyInv, Shapes, Others, N!Bystanders
        <4>2. Coming(w) => Coming(w)'
          BY <1>2, <2>1, <3>2 DEF Coming, Wide
        <4> QED
          BY <4>1, <4>2 DEF Arrived
      <3> QED
        BY <3>1, <3>2
    <2> QED
      BY <1>2, <2>2, <2>3 DEF Arrived, Others
  <1> QED
    BY <1>3, <1>4, <1>5 DEF N!Deliveries

\* Handlers announce to the watchers what they change.
LEMMA HandlerHeard ==
  ASSUME Distinct, DeletionsFollowed, KeyInv, Regular, ~irregular',
         NEW o \in Orders, Handled(o)
  PROVE  Regular' /\ (Agree /\ Arrived /\ ~overtaken' => Agree' /\ Arrived')
  <1>1. ASSUME NEW D, Mute(D) PROVE Agree /\ Arrived => Agree' /\ Arrived'
    BY <1>1, MuteStep
  <1>2. ASSUME NEW D, NEW key, Loud(D, key) PROVE ~overtaken' => Agree' /\ Arrived'
    BY <1>2, LoudStep DEF KeyInv
  <1>3. CASE N!Checkout(o)
    BY <1>1, <1>3, CheckoutHeard
  <1>4. CASE N!Pay(o)
    BY <1>2, <1>4, PayHeard
  <1>5. CASE N!PayWrong(o)
    BY <1>2, <1>5, PayWrongHeard
  <1>6. CASE N!PayLate(o) \/ N!Decline(o) \/ N!PaySeller(o)
    BY <1>1, <1>6, PayLateHeard, DeclineHeard, PaySellerHeard
  <1>7. CASE N!Cancel(o)
    BY <1>2, <1>7, CancelHeard
  <1>8. CASE N!Expire(o)
    BY <1>2, <1>8, ExpireHeard
  <1>9. CASE N!Missed(o)
    BY <1>1, <1>2, <1>9, MissedHeard
  <1>10. CASE N!Resolve(o)
    BY <1>2, <1>10, ResolveHeard
  <1>11. CASE N!ResolveDelete(o)
    BY <1>11, ResolveDeleteHeard
  <1>12. ASSUME NEW target \in N!OrderStatuses, NEW cause \in N!Outcomes \cup {None},
                N!Move(o, target, cause)
         PROVE  Regular' /\ (Agree /\ Arrived /\ ~overtaken' => Agree' /\ Arrived')
    BY <1>1, <1>2, <1>12, MoveHeard
  <1> QED
    BY <1>3, <1>4, <1>5, <1>6, <1>7, <1>8, <1>9, <1>10, <1>11, <1>12
    DEF Handled, N!Payments, N!Ends, N!Moves

\* The watchers' invariant is inductive.
LEMMA HearingStep ==
  Distinct /\ DeletionsFollowed /\ KeyInv /\ Hearing /\ [N!Next]_N!vars => Hearing'
  <1> SUFFICES ASSUME Distinct, DeletionsFollowed, KeyInv, Hearing, [N!Next]_N!vars, ~irregular'
               PROVE  Regular' /\ (~overtaken' => Agree' /\ Arrived')
    BY DEF Hearing
  <1>1. ~irregular /\ Regular /\ (~overtaken' => Agree /\ Arrived)
    BY HistoryStays DEF Hearing
  <1>2. CASE \E o \in Orders : Handled(o)
    BY <1>1, <1>2, HandlerHeard
  <1>3. CASE N!Deliveries
    <2>1. UNCHANGED <<N!order, N!item>>
      BY <1>3 DEF N!Deliveries, N!Publish, N!LookUp, N!Insert
    <2>2. Regular'
      BY <1>1, <2>1 DEF N!order, N!item, Regular, Payable
    <2> QED
      BY <1>1, <1>3, <2>2, DeliveriesHeard
  <1>4. CASE UNCHANGED N!vars
    BY <1>1, <1>4
    DEF N!vars, N!order, N!item, N!mail, Regular, Payable, Agree, Arrived, Coming, Taken
  <1> QED
    BY <1>2, <1>3, <1>4 DEF N!Next, Handled

\* When nothing is in flight, every watcher was told last what is true of the listing, as
\* long as no two announcements were in flight at once and none of these happened: a
\* declined payment gave back the listing of another order of the buyer's, a wrong one
\* came for an order that no longer awaited it, an order expired that had lost the
\* listing, operations secured an order or moved one whose listing was on sale.
THEOREM WatchersAreTold ==
  ASSUME Distinct, DeletionsFollowed
  PROVE  N!Spec => []N!WatchersKnow
  <1>1. N!Init => Hearing
    <2> SUFFICES ASSUME N!Init PROVE Regular /\ Agree /\ Arrived
      BY DEF Hearing
    <2>1. Regular
      BY DEF N!Init, Regular, Payable, Live, N!OrderStatuses, N!Delivering, N!Dead, Distinct,
          N!NoneAssumption
    <2>2. Agree /\ ~Taken
      BY DEF N!Init, Agree, Taken
    <2> QED
      BY <2>1, <2>2 DEF N!Init, Arrived, Others, N!Bystanders
  <1>2. KeyInv /\ Hearing /\ [N!Next]_N!vars => Hearing'
    BY HearingStep
  <1>3. Hearing => N!WatchersKnow
    <2> SUFFICES ASSUME Hearing, N!AtRest, ~overtaken, ~irregular,
                        NEW w \in N!Bystanders
                 PROVE  news[w] \in {"unavailable", "deleted"} <=> Taken
      BY DEF N!WatchersKnow, Taken
    <2> QED
      BY DEF Hearing, Arrived, Others, Coming, N!AtRest
  <1> QED
    BY KeysHold, <1>1, <1>2, <1>3, PTL DEF N!Spec

=============================================================================
