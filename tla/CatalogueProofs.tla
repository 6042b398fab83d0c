---------------------------- MODULE CatalogueProofs ----------------------------
(***************************************************************************)
(* Proofs about Catalogue, for every number of users, listings, pictures   *)
(* and handlers at once, and wherever those handlers die.                  *)
(***************************************************************************)
EXTENDS Catalogue, FiniteSetTheorems, WellFoundedInduction, TLAPS

-----------------------------------------------------------------------------
(* Types, and what a handler leaves alone *)

(* Of TypeOK what the next sections need; the rest is proved after them. *)
LocalTypes ==
  /\ at \in [Requests -> Steps]
  /\ on \in [Requests -> Products \cup {None}]
  /\ who \in [Requests -> Users \cup {None}]
  /\ saves \in [Requests -> BOOLEAN]
  /\ found \in [Requests -> SUBSET Users]
  /\ stale \in [Requests -> BOOLEAN]
  /\ DOMAIN mine = Requests
  /\ files \in [Requests -> SUBSET Files]
SharedTypes ==
  /\ listing \in [Products -> {"new", "listed", "deleted"}]
  /\ pictures \in [Products -> SUBSET Files]
  /\ DOMAIN count = Products
  /\ DOMAIN shown = Products
  /\ entries \subseteq Users \X Products
Types == LocalTypes /\ SharedTypes

Deletion == {"deleteFiles", "deleteListing", "deleteEntries"}
Change == {"begin", "write", "commit", "publish"}

(* What a handler that deletes or changes a wishlist is about was listed. *)
JobOf(r) ==
  /\ at[r] \in Deletion \cup Change => on[r] \in Products /\ listing[on[r]] # "new"
  /\ at[r] \in Change => who[r] \in Users
Jobs == \A r \in Requests : JobOf(r)

Acts(r) == Creates(r) \/ Deletes(r) \/ Changes(r) \/ Abort(r)

Same(s) ==
  /\ at'[s] = at[s] /\ on'[s] = on[s] /\ who'[s] = who[s] /\ saves'[s] = saves[s]
  /\ found'[s] = found[s] /\ mine'[s] = mine[s] /\ files'[s] = files[s]

LEMMA ReturnTypes ==
  ASSUME LocalTypes, NEW r \in Requests, Return(r), stale' \in [Requests -> BOOLEAN]
  PROVE  LocalTypes' /\ at'[r] = "idle" /\ \A s \in Requests \ {r} : Same(s)
  BY DEF LocalTypes, Return, Goto, Steps, Same

LEMMA GotoTypes ==
  ASSUME LocalTypes, NEW r \in Requests, NEW step \in Steps, Goto(r, step),
         UNCHANGED <<on, wish, mine, files>>, stale' \in [Requests -> BOOLEAN]
  PROVE  LocalTypes' /\ at'[r] = step /\ \A s \in Requests \ {r} : Same(s)
  BY DEF LocalTypes, Goto, Same, wish

LEMMA SpoilTypes ==
  ASSUME LocalTypes, NEW p, Spoil(p)
  PROVE  stale' \in [Requests -> BOOLEAN]
  BY DEF Spoil

LEMMA CreateTypes ==
  ASSUME Types, NEW r \in Requests, Creates(r)
  PROVE  Types' /\ \A s \in Requests \ {r} : Same(s)
  <1>a. LocalTypes /\ SharedTypes
    BY DEF Types
  <1>1. CASE StartCreate(r)
    BY <1>1, <1>a DEF StartCreate, Types, LocalTypes, SharedTypes, Same, Goto, Steps, product, wish
  <1>2. ASSUME NEW all \in SUBSET Files, NEW done \in SUBSET all, Upload(r, all, done)
        PROVE  Types' /\ \A s \in Requests \ {r} : Same(s)
    <2>1. SharedTypes' /\ UNCHANGED <<on, wish, stale, mine>>
      BY <1>2, <1>a DEF Upload, SharedTypes, product
    <2>2. /\ files' = [files EXCEPT ![r] = done]
          /\ at' = [at EXCEPT ![r] = IF done = all THEN "insert" ELSE "cleanup"]
      BY <1>2 DEF Upload, Goto
    <2>3. LocalTypes' /\ \A s \in Requests \ {r} : Same(s)
      BY <1>a, <2>1, <2>2 DEF LocalTypes, Same, Steps, wish
    <2>4. QED
      BY <2>1, <2>3 DEF Types
  <1>3. ASSUME NEW left, Cleanup(r, left)
        PROVE  Types' /\ \A s \in Requests \ {r} : Same(s)
    <2>1. SharedTypes' /\ Return(r) /\ stale' = stale
      BY <1>3, <1>a DEF Cleanup, SharedTypes, product
    <2>2. QED
      BY <1>a, <2>1, ReturnTypes DEF Types, LocalTypes
  <1>4. ASSUME NEW left, DeleteFiles(r, left)
        PROVE  Types' /\ \A s \in Requests \ {r} : Same(s)
    <2>1. SharedTypes' /\ stale' = stale
      BY <1>4, <1>a DEF DeleteFiles, SharedTypes, product
    <2>2. CASE left = {}
      <3>1. Goto(r, "deleteListing") /\ UNCHANGED <<on, wish, mine, files>>
        BY <1>4, <2>2 DEF DeleteFiles
      <3>2. QED
        BY <1>a, <2>1, <3>1, GotoTypes DEF Types, LocalTypes, Steps
    <2>3. CASE left # {}
      <3>1. Return(r)
        BY <1>4, <2>3 DEF DeleteFiles
      <3>2. QED
        BY <1>a, <2>1, <3>1, ReturnTypes DEF Types, LocalTypes
    <2>4. QED
      BY <2>2, <2>3
  <1>5. ASSUME NEW p \in Products, Insert(r, p)
        PROVE  Types' /\ \A s \in Requests \ {r} : Same(s)
    <2>1. SharedTypes' /\ Return(r) /\ stale' = stale
      BY <1>5, <1>a DEF Insert, SharedTypes, LocalTypes
    <2>2. QED
      BY <1>a, <2>1, ReturnTypes DEF Types, LocalTypes
  <1>6. CASE InsertRefused(r)
    <2>1. SharedTypes' /\ Return(r) /\ stale' = stale
      BY <1>6, <1>a DEF InsertRefused, SharedTypes, product
    <2>2. QED
      BY <1>a, <2>1, ReturnTypes DEF Types, LocalTypes
  <1>7. QED
    BY <1>1, <1>2, <1>3, <1>4, <1>5, <1>6 DEF Creates

LEMMA DeleteTypes ==
  ASSUME Types, NEW r \in Requests, Deletes(r)
  PROVE  Types' /\ \A s \in Requests \ {r} : Same(s)
  <1>a. LocalTypes /\ SharedTypes
    BY DEF Types
  <1>1. ASSUME NEW p \in Products, StartDelete(r, p)
        PROVE  Types' /\ \A s \in Requests \ {r} : Same(s)
    BY <1>1, <1>a DEF StartDelete, Types, LocalTypes, SharedTypes, Same, Goto, Steps, product, wish
  <1>2. CASE DeleteListing(r)
    <2>1. SharedTypes'
      BY <1>2, <1>a DEF DeleteListing, SharedTypes
    <2>2. Goto(r, "deleteEntries") /\ UNCHANGED <<on, wish, mine, files>>
      BY <1>2 DEF DeleteListing
    <2>3. stale' \in [Requests -> BOOLEAN]
      BY <1>2, <1>a, SpoilTypes DEF DeleteListing
    <2>4. QED
      BY <1>a, <2>1, <2>2, <2>3, GotoTypes DEF Types, Steps
  <1>3. CASE DeleteEntries(r)
    <2>1. SharedTypes' /\ Return(r) /\ stale' = stale
      BY <1>3, <1>a DEF DeleteEntries, SharedTypes, product
    <2>2. QED
      BY <1>a, <2>1, ReturnTypes DEF Types, LocalTypes
  <1>4. QED
    BY <1>1, <1>2, <1>3 DEF Deletes

LEMMA StartChangeTypes ==
  ASSUME Types, NEW r \in Requests, NEW u \in Users, NEW p \in Products, NEW save \in BOOLEAN,
         StartChange(r, u, p, save)
  PROVE  Types' /\ \A s \in Requests \ {r} : Same(s)
  BY DEF StartChange, Types, LocalTypes, SharedTypes, Same, Goto, Steps, product

LEMMA ChangeTypes ==
  ASSUME Types, NEW r \in Requests, JobOf(r), Changes(r)
  PROVE  Types' /\ \A s \in Requests \ {r} : Same(s)
  <1>a. LocalTypes /\ SharedTypes
    BY DEF Types
  <1>1. ASSUME NEW u \in Users, NEW p \in Products, StartSave(r, u, p) \/ StartUnsave(r, u, p)
        PROVE  Types' /\ \A s \in Requests \ {r} : Same(s)
    BY <1>1, StartChangeTypes DEF StartSave, StartUnsave
  <1>2. CASE Begin(r)
    <2>1. SharedTypes' /\ stale' \in [Requests -> BOOLEAN]
      BY <1>2, <1>a DEF Begin, SharedTypes, LocalTypes, product
    <2>2. CASE Return(r)
      BY <1>a, <2>1, <2>2, ReturnTypes DEF Types
    <2>3. CASE /\ Goto(r, "write")
               /\ found' = [found EXCEPT ![r] = Watchers(on[r])]
               /\ UNCHANGED <<on, who, saves, mine, files>>
      <3>1. Watchers(on[r]) \in SUBSET Users
        BY DEF Watchers
      <3>2. LocalTypes' /\ \A s \in Requests \ {r} : Same(s)
        BY <1>a, <2>1, <2>3, <3>1 DEF LocalTypes, Goto, Same, Steps
      <3>3. QED
        BY <2>1, <3>2 DEF Types
    <2>4. QED
      BY <1>2, <2>2, <2>3 DEF Begin
  <1>3. CASE Write(r)
    <2>1. SharedTypes' /\ UNCHANGED <<on, wish, stale, files>> /\ Goto(r, "commit")
      BY <1>3, <1>a DEF Write, SharedTypes, product
    <2>2. PICK n : mine' = [mine EXCEPT ![r] = n]
      BY <1>3 DEF Write
    <2>3. LocalTypes' /\ \A s \in Requests \ {r} : Same(s)
      BY <1>a, <2>1, <2>2 DEF LocalTypes, Goto, Same, Steps, wish
    <2>4. QED
      BY <2>1, <2>3 DEF Types
  <1>4. CASE Conflict(r)
    <2>1. /\ SharedTypes' /\ Goto(r, "begin") /\ UNCHANGED <<on, who, saves, mine, files>>
          /\ found' = [found EXCEPT ![r] = {}] /\ stale' = [stale EXCEPT ![r] = FALSE]
      BY <1>4, <1>a DEF Conflict, SharedTypes, product
    <2>2. LocalTypes' /\ \A s \in Requests \ {r} : Same(s)
      BY <1>a, <2>1 DEF LocalTypes, Goto, Same, Steps
    <2>3. QED
      BY <2>1, <2>2 DEF Types
  <1>5. CASE Commit(r)
    <2>1. stale' \in [Requests -> BOOLEAN]
      BY <1>5, <1>a, SpoilTypes DEF Commit
    <2>2. SharedTypes'
      <3>1. who[r] \in Users /\ on[r] \in Products
        BY <1>5 DEF JobOf, Change, Commit, At
      <3>2. QED
        BY <1>5, <1>a, <3>1 DEF Commit, SharedTypes
    <2>3. CASE Return(r)
      BY <1>a, <2>1, <2>2, <2>3, ReturnTypes DEF Types
    <2>4. CASE Goto(r, "publish") /\ UNCHANGED <<on, wish, mine, files>>
      BY <1>a, <2>1, <2>2, <2>4, GotoTypes DEF Types, Steps
    <2>5. QED
      BY <1>5, <2>3, <2>4 DEF Commit
  <1>6. CASE Publish(r)
    <2>1. SharedTypes' /\ Return(r) /\ stale' = stale
      BY <1>6, <1>a DEF Publish, SharedTypes, product
    <2>2. QED
      BY <1>a, <2>1, ReturnTypes DEF Types, LocalTypes
  <1>7. QED
    BY <1>1, <1>2, <1>3, <1>4, <1>5, <1>6 DEF Changes

LEMMA AbortTypes ==
  ASSUME Types, NEW r \in Requests, Abort(r)
  PROVE  Types' /\ \A s \in Requests \ {r} : Same(s)
  <1>1. SharedTypes' /\ Return(r) /\ stale' = [stale EXCEPT ![r] = FALSE]
    BY DEF Abort, Types, SharedTypes, product
  <1>2. stale' \in [Requests -> BOOLEAN]
    BY <1>1 DEF Types, LocalTypes
  <1>3. QED
    BY <1>1, <1>2, ReturnTypes DEF Types

LEMMA ActTypes ==
  ASSUME Types, Jobs, NEW r \in Requests, Acts(r)
  PROVE  Types' /\ \A s \in Requests \ {r} : Same(s)
  BY CreateTypes, DeleteTypes, ChangeTypes, AbortTypes DEF Acts, Jobs

LEMMA TouchTypes ==
  ASSUME Types, NEW p \in Products, Touch(p)
  PROVE  Types' /\ \A s \in Requests : Same(s)
  <1>1. UNCHANGED <<product, entries, bucket, shown, history, faults, at, on, wish, mine, files>>
    BY DEF Touch
  <1>2. stale' \in [Requests -> BOOLEAN]
    BY SpoilTypes DEF Touch, Types
  <1>3. QED
    BY <1>1, <1>2 DEF Types, LocalTypes, SharedTypes, product, wish, Same

-----------------------------------------------------------------------------
(* What a step of a handler does to the handler *)


LEMMA Returned ==
  ASSUME LocalTypes, NEW r \in Requests, Return(r)
  PROVE  at'[r] = "idle"
  BY DEF LocalTypes, Return, Goto

LEMMA Went ==
  ASSUME LocalTypes, NEW r \in Requests, NEW step, Goto(r, step)
  PROVE  at'[r] = step
  BY DEF LocalTypes, Goto

(* A handler is idle afterwards or goes on with its own listing and user, or it *)
(* begins: a listing is never new again.                                        *)
LEMMA ListingKept ==
  ASSUME Types, Jobs, NEW r \in Requests, Acts(r), NEW p \in Products, listing[p] # "new"
  PROVE  listing'[p] # "new"
  <1>1. CASE \E q \in Products : Insert(r, q)
    BY <1>1 DEF Insert, Types, SharedTypes
  <1>2. CASE DeleteListing(r)
    BY <1>2 DEF DeleteListing, Types, SharedTypes
  <1>3. CASE UNCHANGED listing
    BY <1>3
  <1>4. QED
    BY <1>1, <1>2, <1>3
    DEF Acts, Creates, Deletes, Changes, Abort, StartCreate, Upload, Cleanup, DeleteFiles,
        InsertRefused, StartDelete, DeleteEntries, StartSave, StartUnsave, StartChange,
        Begin, Write, Conflict, Commit, Publish, product

LEMMA JobsKept ==
  ASSUME Types, Jobs, NEW r \in Requests, Acts(r)
  PROVE  Jobs'
  <1>a. \A s \in Requests \ {r} : Same(s)
    BY ActTypes
  <1>b. LocalTypes /\ JobOf(r)
    BY DEF Types, Jobs
  <1>c. \A p \in Products : listing[p] # "new" => listing'[p] # "new"
    BY ListingKept
  <1>1. CASE Return(r)
    <2>1. at'[r] = "idle"
      BY <1>1, <1>b, Returned
    <2>2. JobOf(r)'
      BY <2>1 DEF JobOf, Deletion, Change
    <2>3. QED
      BY <1>a, <1>c, <2>2 DEF Jobs, JobOf, Same
  <1>2. CASE \E step \in {"upload", "insert", "cleanup"} : Goto(r, step)
    <2>1. at'[r] \in {"upload", "insert", "cleanup"}
      BY <1>2, <1>b, Went
    <2>2. JobOf(r)'
      BY <2>1 DEF JobOf, Deletion, Change
    <2>3. QED
      BY <1>a, <1>c, <2>2 DEF Jobs, JobOf, Same
  <1>3. CASE /\ UNCHANGED <<on, who>>
             /\ \/ at[r] \in Deletion /\ \E step \in Deletion : Goto(r, step)
                \/ at[r] \in Change /\ \E step \in Change : Goto(r, step)
    <2>1. \/ at[r] \in Deletion /\ at'[r] \in Deletion
          \/ at[r] \in Change /\ at'[r] \in Change
      BY <1>3, <1>b, Went
    <2>2. JobOf(r)'
      BY <1>3, <1>b, <1>c, <2>1 DEF JobOf, Deletion, Change
    <2>3. QED
      BY <1>a, <1>c, <2>2 DEF Jobs, JobOf, Same
  <1>4. CASE \E p \in Products : StartDelete(r, p)
    <2>1. JobOf(r)'
      BY <1>4, <1>b DEF StartDelete, Listed, JobOf, Deletion, Change, Goto, LocalTypes, product
    <2>2. QED
      BY <1>a, <1>c, <2>1 DEF Jobs, JobOf, Same
  <1>5. CASE \E u \in Users, p \in Products : StartSave(r, u, p) \/ StartUnsave(r, u, p)
    <2>1. JobOf(r)'
      BY <1>5, <1>b
      DEF StartSave, StartUnsave, StartChange, JobOf, Deletion, Change, Goto, LocalTypes, product
    <2>2. QED
      BY <1>a, <1>c, <2>1 DEF Jobs, JobOf, Same
  <1>6. CASE Creates(r)
    <2>1. ASSUME NEW left, DeleteFiles(r, left) PROVE Jobs'
      BY <1>1, <1>3, <2>1 DEF DeleteFiles, At, Deletion, wish
    <2>2. QED
      BY <1>1, <1>2, <1>6, <2>1
      DEF Creates, StartCreate, Upload, Cleanup, Insert, InsertRefused
  <1>7. CASE DeleteListing(r) \/ DeleteEntries(r)
    BY <1>1, <1>3, <1>7 DEF DeleteListing, DeleteEntries, At, Deletion, wish
  <1>8. CASE Begin(r) \/ Write(r) \/ Conflict(r) \/ Commit(r) \/ Publish(r)
    BY <1>1, <1>3, <1>8 DEF Begin, Write, Conflict, Commit, Publish, At, Change, wish
  <1>9. QED
    BY <1>1, <1>4, <1>5, <1>6, <1>7, <1>8 DEF Acts, Deletes, Changes, Abort

-----------------------------------------------------------------------------
(* The wishlist *)

(* The users who will have saved the listing once the handler's change commits. *)
After(r) == IF saves[r] THEN found[r] \cup {who[r]} ELSE found[r] \ {who[r]}

(* What a transaction found is still so, as long as nothing wrote its listing, *)
(* and stays so while it holds the listing itself.                             *)
Fresh(r) == at[r] = "write" /\ ~stale[r] =>
  listing[on[r]] = "listed" /\ found[r] = Watchers(on[r])
Holds(r) == at[r] = "commit" =>
  /\ listing[on[r]] = "listed" /\ found[r] = Watchers(on[r])
  /\ mine[r] = Cardinality(After(r))
Clears(r) == at[r] = "deleteEntries" => listing[on[r]] = "deleted"
OneHolder ==
  \A r, s \in Requests : at[r] = "commit" /\ at[s] = "commit" /\ on[r] = on[s] => r = s

Counted ==
  \A p \in Products :
    /\ listing[p] # "deleted" => count[p] = Cardinality(Watchers(p))
    /\ listing[p] = "new" => Watchers(p) = {}

Wishes == (\A r \in Requests : Fresh(r) /\ Holds(r) /\ Clears(r)) /\ OneHolder /\ Counted

(* A handler that does not move, while the listings and the wishlist stay. *)
LEMMA OtherWish ==
  ASSUME Wishes, NEW s \in Requests, Same(s), UNCHANGED <<listing, entries>>,
         at[s] = "write" /\ ~stale'[s] => ~stale[s]
  PROVE  (Fresh(s) /\ Holds(s) /\ Clears(s))'
  <1>1. Fresh(s) /\ Holds(s) /\ Clears(s) /\ \A q : Watchers(q)' = Watchers(q)
    BY DEF Wishes, Watchers
  <1>2. UNCHANGED <<at[s], on[s], saves[s], who[s], found[s], mine[s]>>
    BY DEF Same
  <1>3. QED
    BY <1>1, <1>2 DEF Fresh, Holds, Clears, After

(* A step that changes neither the listings nor the wishlist, and after which its *)
(* handler has nothing to keep.                                                   *)
LEMMA WishesSame ==
  ASSUME Wishes, NEW r \in Requests, UNCHANGED <<listing, count, entries>>,
         \A s \in Requests \ {r} : Same(s), at'[r] \notin {"write", "commit", "deleteEntries"},
         \A s \in Requests \ {r} : stale'[s] = stale[s]
  PROVE  Wishes'
  <1>1. ASSUME NEW s \in Requests PROVE (Fresh(s) /\ Holds(s) /\ Clears(s))'
    <2>1. CASE s = r
      BY <2>1 DEF Fresh, Holds, Clears
    <2>2. CASE s # r
      BY <2>2, OtherWish
    <2>3. QED
      BY <2>1, <2>2
  <1>2. OneHolder'
    BY DEF Wishes, Same, OneHolder
  <1>3. Counted'
    BY DEF Wishes, Counted, Watchers
  <1>4. QED
    BY <1>1, <1>2, <1>3 DEF Wishes

LEMMA CreateWishes ==
  ASSUME Types, Jobs, Wishes, NEW r \in Requests, Creates(r)
  PROVE  Wishes'
  <1>a. LocalTypes /\ SharedTypes /\ \A s \in Requests \ {r} : Same(s)
    BY CreateTypes DEF Types
  <1>1. ASSUME NEW p \in Products, Insert(r, p) PROVE Wishes'
    <2>1. /\ listing[p] = "new" /\ listing' = [listing EXCEPT ![p] = "listed"]
          /\ UNCHANGED <<count, entries, stale>> /\ Return(r)
      BY <1>1 DEF Insert
    <2>2. at'[r] = "idle"
      BY <1>a, <2>1, Returned
    <2>3. \A s \in Requests : (Fresh(s) /\ Holds(s) /\ Clears(s))'
      <3> SUFFICES ASSUME NEW s \in Requests \ {r}
                   PROVE  (Fresh(s) /\ Holds(s) /\ Clears(s))'
        BY <2>2 DEF Fresh, Holds, Clears
      <3>1. at[s] \in {"write", "commit", "deleteEntries"} => on[s] # p /\ on[s] \in Products
        BY <2>1 DEF Jobs, JobOf, Change, Deletion
      <3>2. at[s] \in {"write", "commit", "deleteEntries"} => listing'[on[s]] = listing[on[s]]
        BY <1>a, <2>1, <3>1 DEF SharedTypes
      <3>3. Same(s) /\ Fresh(s) /\ Holds(s) /\ Clears(s) /\ \A q \in Products : Watchers(q)' = Watchers(q)
        BY <1>a, <2>1 DEF Wishes, Watchers
      <3>4. UNCHANGED <<at[s], on[s], saves[s], who[s], found[s], mine[s], stale[s]>>
        BY <2>1, <3>3 DEF Same
      <3>5. QED
        BY <3>1, <3>2, <3>3, <3>4 DEF Fresh, Holds, Clears, After
    <2>4. OneHolder'
      BY <1>a, <2>2 DEF Wishes, Same, OneHolder
    <2>5. Counted'
      BY <1>a, <2>1 DEF Wishes, Counted, Watchers, SharedTypes
    <2>6. QED
      BY <2>3, <2>4, <2>5 DEF Wishes
  <1>2. CASE Return(r) /\ UNCHANGED <<listing, count, entries, stale>>
    <2>1. at'[r] = "idle"
      BY <1>2, <1>a, Returned
    <2>2. QED
      BY <1>2, <1>a, <2>1, WishesSame
  <1>3. CASE /\ \E step \in {"upload", "insert", "cleanup", "deleteListing"} : Goto(r, step)
             /\ UNCHANGED <<listing, count, entries, stale>>
    <2>1. at'[r] \in {"upload", "insert", "cleanup", "deleteListing"}
      BY <1>3, <1>a, Went
    <2>2. QED
      BY <1>3, <1>a, <2>1, WishesSame
  <1>4. QED
    BY <1>1, <1>2, <1>3
    DEF Creates, StartCreate, Upload, Cleanup, DeleteFiles, InsertRefused, product

LEMMA DeleteWishes ==
  ASSUME Types, Jobs, Wishes, NEW r \in Requests, Deletes(r)
  PROVE  Wishes'
  <1>a. LocalTypes /\ SharedTypes /\ \A s \in Requests \ {r} : Same(s)
    BY DeleteTypes DEF Types
  <1>1. ASSUME NEW p \in Products, StartDelete(r, p) PROVE Wishes'
    <2>1. Goto(r, "deleteFiles") /\ UNCHANGED <<listing, count, entries, stale>>
      BY <1>1 DEF StartDelete, product
    <2>2. at'[r] = "deleteFiles"
      BY <1>a, <2>1, Went
    <2>3. QED
      BY <1>a, <2>1, <2>2, WishesSame
  <1>2. CASE DeleteListing(r)
    <2> DEFINE p == on[r]
    <2>1. /\ ~Held(p) /\ listing' = [listing EXCEPT ![p] = "deleted"]
          /\ stale' = [s \in Requests |-> At(s, "write") /\ (stale[s] \/ on[s] = p)]
          /\ UNCHANGED <<count, entries>> /\ Goto(r, "deleteEntries") /\ on' = on
      BY <1>2 DEF DeleteListing, Spoil
    <2>2. at'[r] = "deleteEntries" /\ on'[r] = p /\ at[r] = "deleteListing"
      BY <1>2, <1>a, <2>1, Went DEF DeleteListing, At
    <2>3. p \in Products /\ listing[p] # "new"
      BY <2>2 DEF Jobs, JobOf, Deletion
    <2>4. (Fresh(r) /\ Holds(r) /\ Clears(r))'
      BY <1>a, <2>1, <2>2, <2>3 DEF Fresh, Holds, Clears, SharedTypes
    <2>5. ASSUME NEW s \in Requests \ {r}
          PROVE  (Fresh(s) /\ Holds(s) /\ Clears(s))'
      <3>1. at[s] = "write" /\ ~stale'[s] => ~stale[s] /\ on[s] # p
        BY <2>1 DEF At
      <3>2. at[s] = "commit" => on[s] # p
        BY <2>1 DEF Held, At
      <3>3. at[s] \in {"write", "commit", "deleteEntries"} => on[s] \in Products
        BY DEF Jobs, JobOf, Change, Deletion
      <3>4. Same(s) /\ Fresh(s) /\ Holds(s) /\ Clears(s)
        BY <1>a DEF Wishes
      <3>5. (Fresh(s) /\ Holds(s))'
        BY <1>a, <2>1, <2>3, <3>1, <3>2, <3>3, <3>4
        DEF Same, Fresh, Holds, After, Watchers, SharedTypes
      <3>6. Clears(s)'
        BY <1>a, <2>1, <2>3, <3>3, <3>4 DEF Same, Clears, SharedTypes
      <3>7. QED
        BY <3>5, <3>6
    <2>6. OneHolder'
      BY <1>a, <2>2 DEF Wishes, Same, OneHolder
    <2>7. Counted'
      BY <1>a, <2>1, <2>3 DEF Wishes, Counted, Watchers, SharedTypes
    <2>8. QED
      BY <2>4, <2>5, <2>6, <2>7 DEF Wishes
  <1>3. CASE DeleteEntries(r)
    <2> DEFINE p == on[r]
    <2>1. /\ at[r] = "deleteEntries" /\ entries' = {e \in entries : e[2] # p}
          /\ UNCHANGED <<listing, count, stale>> /\ Return(r)
      BY <1>3 DEF DeleteEntries, At, product
    <2>2. at'[r] = "idle" /\ listing[p] = "deleted"
      BY <1>a, <2>1, Returned DEF Wishes, Clears
    <2>3. \A q \in Products : q # p => Watchers(q)' = Watchers(q)
      BY <2>1 DEF Watchers
    <2>4. ASSUME NEW s \in Requests \ {r}
          PROVE  (Fresh(s) /\ Holds(s) /\ Clears(s))'
      <3>1. at[s] \in {"write", "commit", "deleteEntries"} => on[s] \in Products
        BY DEF Jobs, JobOf, Change, Deletion
      <3>2. Same(s) /\ Fresh(s) /\ Holds(s) /\ Clears(s)
        BY <1>a DEF Wishes
      <3>3. UNCHANGED <<at[s], on[s], saves[s], who[s], found[s], mine[s], stale[s]>>
        BY <2>1, <3>2 DEF Same
      <3>4. at[s] \in {"write", "commit"} /\ listing[on[s]] = "listed" =>
              Watchers(on[s])' = Watchers(on[s])
        BY <2>2, <2>3, <3>1, <3>3 DEF Watchers
      <3>5. QED
        BY <2>1, <3>2, <3>3, <3>4 DEF Fresh, Holds, Clears, After
    <2>5. (Fresh(r) /\ Holds(r) /\ Clears(r))'
      BY <2>2 DEF Fresh, Holds, Clears
    <2>6. OneHolder'
      BY <1>a, <2>2 DEF Wishes, Same, OneHolder
    <2>7. Counted'
      BY <2>1, <2>2, <2>3 DEF Wishes, Counted
    <2>8. QED
      BY <2>4, <2>5, <2>6, <2>7 DEF Wishes
  <1>4. QED
    BY <1>1, <1>2, <1>3 DEF Deletes

LEMMA BeginWishes ==
  ASSUME Types, Jobs, Wishes, NEW r \in Requests, Begin(r)
  PROVE  Wishes'
  <1>a. LocalTypes /\ SharedTypes /\ \A s \in Requests \ {r} : Same(s)
    BY ChangeTypes DEF Types, Jobs, Changes
  <1>b. /\ UNCHANGED <<listing, count, entries>> /\ stale' = [stale EXCEPT ![r] = FALSE]
        /\ at[r] = "begin"
    BY DEF Begin, product, At
  <1>c. \A s \in Requests \ {r} : stale'[s] = stale[s]
    BY <1>a, <1>b DEF LocalTypes
  <1>1. CASE Return(r)
    <2>1. at'[r] = "idle"
      BY <1>1, <1>a, Returned
    <2>2. QED
      BY <1>a, <1>b, <1>c, <2>1, WishesSame
  <1>2. CASE /\ on[r] \in Listed /\ Goto(r, "write") /\ UNCHANGED on
             /\ found' = [found EXCEPT ![r] = Watchers(on[r])]
    <2>1. at'[r] = "write" /\ found'[r] = Watchers(on[r]) /\ listing[on[r]] = "listed"
      BY <1>2, <1>a, Went DEF LocalTypes, Listed
    <2>2. Watchers(on[r])' = Watchers(on[r])
      BY <1>b, <1>2 DEF Watchers
    <2>3. (Fresh(r) /\ Holds(r) /\ Clears(r))'
      BY <1>b, <1>2, <2>1, <2>2 DEF Fresh, Holds, Clears
    <2>4. ASSUME NEW s \in Requests \ {r}
          PROVE  (Fresh(s) /\ Holds(s) /\ Clears(s))'
      BY <1>a, <1>b, <1>c, OtherWish
    <2>5. OneHolder'
      BY <1>a, <2>1 DEF Wishes, Same, OneHolder
    <2>6. Counted'
      BY <1>b DEF Wishes, Counted, Watchers
    <2>7. QED
      BY <2>3, <2>4, <2>5, <2>6 DEF Wishes
  <1>3. QED
    BY <1>1, <1>2 DEF Begin

LEMMA WriteWishes ==
  ASSUME Types, Jobs, Wishes, NEW r \in Requests, Write(r)
  PROVE  Wishes'
  <1>a. LocalTypes /\ SharedTypes /\ \A s \in Requests \ {r} : Same(s)
    BY ChangeTypes DEF Types, Jobs, Changes
  <1>1. /\ UNCHANGED <<listing, count, entries, stale, on, saves, who, found>>
        /\ at[r] = "write" /\ ~stale[r] /\ ~Held(on[r]) /\ Goto(r, "commit")
        /\ mine' = [mine EXCEPT ![r] = Cardinality(After(r))]
    BY DEF Write, After, At, product, wish
  <1>2. at'[r] = "commit" /\ mine'[r] = Cardinality(After(r))
    BY <1>1, <1>a, Went DEF LocalTypes
  <1>3. listing[on[r]] = "listed" /\ found[r] = Watchers(on[r])
    BY <1>1 DEF Wishes, Fresh
  <1>4. (Fresh(r) /\ Holds(r) /\ Clears(r))'
    <2>1. Watchers(on[r])' = Watchers(on[r]) /\ After(r)' = After(r)
      BY <1>1 DEF Watchers, After
    <2>2. QED
      BY <1>1, <1>2, <1>3, <2>1 DEF Fresh, Holds, Clears
  <1>5. ASSUME NEW s \in Requests \ {r}
        PROVE  (Fresh(s) /\ Holds(s) /\ Clears(s))'
    BY <1>a, <1>1, OtherWish
  <1>6. OneHolder'
    <2>1. \A s \in Requests : at[s] = "commit" => on[s] # on[r]
      BY <1>1 DEF Held, At
    <2>2. QED
      BY <1>a, <1>1, <1>2, <2>1 DEF Wishes, Same, OneHolder
  <1>7. Counted'
    BY <1>1 DEF Wishes, Counted, Watchers
  <1>8. QED
    BY <1>4, <1>5, <1>6, <1>7 DEF Wishes

(* A transaction that commits changes the watchers of its listing as it counted them. *)
LEMMA CommitWatchers ==
  ASSUME Types, Jobs, Wishes, NEW r \in Requests, Commit(r), NEW p \in Products, p = on[r]
  PROVE  /\ listing[p] = "listed" /\ found[r] = Watchers(p) /\ who[r] \in Users
         /\ mine[r] = Cardinality(After(r))
         /\ Watchers(p)' = After(r)
         /\ \A q \in Products : q # p => Watchers(q)' = Watchers(q)
  <1>1. /\ at[r] = "commit" /\ who[r] \in Users
        /\ entries' = IF saves[r] THEN entries \cup {<<who[r], p>>} ELSE entries \ {<<who[r], p>>}
    BY DEF Commit, At, Jobs, JobOf, Change
  <1>2. listing[p] = "listed" /\ found[r] = Watchers(p) /\ mine[r] = Cardinality(After(r))
    BY <1>1 DEF Wishes, Holds
  <1>3. \A q \in Products, u \in Users : <<u, q>> \in entries' <=>
          IF q = p /\ u = who[r] THEN saves[r] ELSE <<u, q>> \in entries
    BY <1>1
  <1>4. \A q \in Products : q # p => Watchers(q)' = Watchers(q)
    BY <1>3 DEF Watchers
  <1>5. \A u \in Users : u \in Watchers(p)' <=> IF u = who[r] THEN saves[r] ELSE u \in Watchers(p)
    BY <1>3 DEF Watchers
  <1>6. Watchers(p)' \subseteq Users /\ Watchers(p) \subseteq Users
    BY DEF Watchers
  <1> QED
    BY <1>1, <1>2, <1>4, <1>5, <1>6 DEF After

LEMMA CommitWishes ==
  ASSUME Types, Jobs, Wishes, NEW r \in Requests, Commit(r)
  PROVE  Wishes'
  <1>p. on[r] \in Products
    BY DEF Commit, At, Jobs, JobOf, Change
  <1> PICK p \in Products : p = on[r]
    BY <1>p
  <1>a. LocalTypes /\ SharedTypes /\ \A s \in Requests \ {r} : Same(s)
    BY ChangeTypes DEF Types, Jobs, Changes
  <1>1. /\ at[r] = "commit" /\ listing' = listing
        /\ entries' = IF saves[r] THEN entries \cup {<<who[r], p>>} ELSE entries \ {<<who[r], p>>}
        /\ count' = [count EXCEPT ![p] = mine[r]]
        /\ stale' = [s \in Requests |-> At(s, "write") /\ (stale[s] \/ on[s] = p)]
    BY DEF Commit, At, Spoil
  <1>2. p \in Products /\ who[r] \in Users
    BY <1>1 DEF Jobs, JobOf, Change
  <1>3. listing[p] = "listed" /\ found[r] = Watchers(p) /\ mine[r] = Cardinality(After(r))
    BY <1>1 DEF Wishes, Holds
  <1>4. Watchers(p)' = After(r) /\ \A q \in Products : q # p => Watchers(q)' = Watchers(q)
    BY CommitWatchers
  <1>5. at'[r] \in {"idle", "publish"}
    BY <1>a, Returned, Went DEF Commit
  <1>6. ASSUME NEW s \in Requests \ {r}
        PROVE  (Fresh(s) /\ Holds(s) /\ Clears(s))'
    <2>1. at[s] = "write" /\ ~stale'[s] => ~stale[s] /\ on[s] # p
      BY <1>1 DEF At
    <2>2. at[s] = "commit" => on[s] # p
      BY <1>1 DEF Wishes, OneHolder
    <2>3. at[s] \in {"write", "commit", "deleteEntries"} => on[s] \in Products
      BY DEF Jobs, JobOf, Change, Deletion
    <2>4. UNCHANGED <<at[s], on[s], saves[s], who[s], found[s], mine[s]>>
      BY <1>a DEF Same
    <2>5. at[s] \in {"write", "commit"} /\ on[s] # p => Watchers(on[s])' = Watchers(on[s])
      BY <1>4, <2>3, <2>4 DEF Watchers
    <2>6. Fresh(s) /\ Holds(s) /\ Clears(s)
      BY DEF Wishes
    <2>7. QED
      BY <1>1, <2>1, <2>2, <2>4, <2>5, <2>6 DEF Fresh, Holds, Clears, After
  <1>7. (Fresh(r) /\ Holds(r) /\ Clears(r))'
    BY <1>5 DEF Fresh, Holds, Clears
  <1>8. OneHolder'
    BY <1>a, <1>5 DEF Wishes, Same, OneHolder
  <1>9. Counted'
    BY <1>a, <1>1, <1>2, <1>3, <1>4 DEF Wishes, Counted, SharedTypes
  <1>10. QED
    BY <1>6, <1>7, <1>8, <1>9 DEF Wishes

LEMMA ChangeWishes ==
  ASSUME Types, Jobs, Wishes, NEW r \in Requests, Changes(r)
  PROVE  Wishes'
  <1>a. LocalTypes /\ \A s \in Requests \ {r} : Same(s)
    BY ChangeTypes DEF Types, Jobs
  <1>1. CASE /\ Return(r) \/ Goto(r, "begin")
             /\ UNCHANGED <<listing, count, entries>>
             /\ stale' = stale \/ stale' = [stale EXCEPT ![r] = FALSE]
    <2>1. at'[r] \in {"idle", "begin"}
      BY <1>1, <1>a, Returned, Went
    <2>2. \A s \in Requests \ {r} : stale'[s] = stale[s]
      BY <1>1, <1>a DEF LocalTypes
    <2>3. QED
      BY <1>1, <1>a, <2>1, <2>2, WishesSame
  <1>2. QED
    BY <1>1, BeginWishes, WriteWishes, CommitWishes
    DEF Changes, StartSave, StartUnsave, StartChange, Conflict, Publish, product

LEMMA AbortWishes ==
  ASSUME Types, Wishes, NEW r \in Requests, Abort(r)
  PROVE  Wishes'
  <1>1. LocalTypes /\ \A s \in Requests \ {r} : Same(s)
    BY AbortTypes DEF Types
  <1>2. /\ Return(r) /\ UNCHANGED <<listing, count, entries>>
        /\ stale' = [stale EXCEPT ![r] = FALSE]
    BY DEF Abort, product
  <1>3. at'[r] = "idle"
    BY <1>1, <1>2, Returned
  <1>4. \A s \in Requests \ {r} : stale'[s] = stale[s]
    BY <1>1, <1>2 DEF LocalTypes
  <1>5. QED
    BY <1>1, <1>2, <1>3, <1>4, WishesSame

LEMMA TouchWishes ==
  ASSUME Types, Wishes, NEW p \in Products, Touch(p)
  PROVE  Wishes'
  <1>1. \A s \in Requests : Same(s)
    BY TouchTypes
  <1>2. UNCHANGED <<listing, count, entries>>
    BY DEF Touch, product
  <1>3. \A s \in Requests : at[s] = "write" /\ ~stale'[s] => ~stale[s]
    BY DEF Touch, Spoil, At
  <1>4. ASSUME NEW s \in Requests
        PROVE  (Fresh(s) /\ Holds(s) /\ Clears(s))'
    BY <1>1, <1>2, <1>3, OtherWish
  <1>5. OneHolder'
    BY <1>1 DEF Wishes, Same, OneHolder
  <1>6. Counted'
    BY <1>2 DEF Wishes, Counted, Watchers
  <1>7. QED
    BY <1>4, <1>5, <1>6 DEF Wishes

LEMMA WishesKept ==
  ASSUME Types, Jobs, Wishes, Next
  PROVE  Wishes'
  BY CreateWishes, DeleteWishes, ChangeWishes, AbortWishes, TouchWishes DEF Next

-----------------------------------------------------------------------------
(* The entries of deleted listings *)

(* The entries a deleted listing has left are about to be deleted. *)
Cleared ==
  \A p \in Products : listing[p] = "deleted" /\ Watchers(p) # {} =>
    p \in cut \/ \E r \in Requests : at[r] = "deleteEntries" /\ on[r] = p

LEMMA ClearedStep ==
  ASSUME Cleared, NEW r \in Requests, \A s \in Requests \ {r} : Same(s), cut \subseteq cut',
         \A p \in Products : listing'[p] = "deleted" =>
           \/ listing[p] = "deleted" /\ Watchers(p)' \subseteq Watchers(p)
           \/ at'[r] = "deleteEntries" /\ on'[r] = p,
         \A p \in Products : at[r] = "deleteEntries" /\ on[r] = p => p \in cut' \/ Watchers(p)' = {}
  PROVE  Cleared'
  <1> SUFFICES ASSUME NEW p \in Products, listing'[p] = "deleted", Watchers(p)' # {}, p \notin cut'
               PROVE  \E s \in Requests : at'[s] = "deleteEntries" /\ on'[s] = p
    BY DEF Cleared
  <1>1. CASE listing[p] = "deleted" /\ Watchers(p)' \subseteq Watchers(p)
    <2>1. PICK s \in Requests : at[s] = "deleteEntries" /\ on[s] = p
      BY <1>1 DEF Cleared
    <2>2. QED
      BY <2>1 DEF Same
  <1>2. QED
    BY <1>1

LEMMA ClearedKept ==
  ASSUME Types, Jobs, Wishes, Cleared, NEW r \in Requests, Acts(r)
  PROVE  Cleared'
  <1>a. LocalTypes /\ SharedTypes /\ \A s \in Requests \ {r} : Same(s)
    BY ActTypes DEF Types
  <1>b. cut \subseteq cut'
    BY DEF Acts, Creates, Deletes, Changes, Abort, StartCreate, Upload, Cleanup, DeleteFiles,
           Insert, InsertRefused, StartDelete, DeleteListing, DeleteEntries, StartSave,
           StartUnsave, StartChange, Begin, Write, Conflict, Commit, Publish, history
  <1>1. CASE at[r] # "deleteEntries" /\ UNCHANGED <<listing, entries>>
    <2>1. \A p : Watchers(p)' = Watchers(p)
      BY <1>1 DEF Watchers
    <2>2. QED
      BY <1>a, <1>b, <1>1, <2>1, ClearedStep
  <1>2. ASSUME NEW p \in Products, Insert(r, p) PROVE Cleared'
    <2>1. at[r] # "deleteEntries" /\ listing' = [listing EXCEPT ![p] = "listed"] /\ entries' = entries
      BY <1>2 DEF Insert, At
    <2>2. \A q : Watchers(q)' = Watchers(q)
      BY <2>1 DEF Watchers
    <2>3. \A q \in Products : listing'[q] = "deleted" => listing[q] = "deleted"
      BY <1>a, <2>1 DEF SharedTypes
    <2>4. QED
      BY <1>a, <1>b, <2>1, <2>2, <2>3, ClearedStep
  <1>3. CASE DeleteListing(r)
    <2>1. /\ at[r] # "deleteEntries" /\ Goto(r, "deleteEntries") /\ on' = on
          /\ listing' = [listing EXCEPT ![on[r]] = "deleted"] /\ entries' = entries
      BY <1>3 DEF DeleteListing, At
    <2>2. \A q : Watchers(q)' = Watchers(q)
      BY <2>1 DEF Watchers
    <2>3. at'[r] = "deleteEntries" /\ on'[r] = on[r]
      BY <1>a, <2>1, Went
    <2>4. \A q \in Products : listing'[q] = "deleted" => listing[q] = "deleted" \/ on'[r] = q
      BY <1>a, <2>1, <2>3 DEF SharedTypes
    <2>5. QED
      BY <1>a, <1>b, <2>1, <2>2, <2>3, <2>4, ClearedStep
  <1>4. CASE DeleteEntries(r)
    <2>1. entries' = {e \in entries : e[2] # on[r]} /\ listing' = listing
      BY <1>4 DEF DeleteEntries, product
    <2>2. \A q : Watchers(q)' \subseteq Watchers(q) /\ (q = on[r] => Watchers(q)' = {})
      BY <2>1 DEF Watchers
    <2>3. QED
      BY <1>a, <1>b, <2>1, <2>2, ClearedStep
  <1>5. CASE Commit(r)
    <2>1. /\ at[r] = "commit" /\ listing' = listing
          /\ entries' = IF saves[r] THEN entries \cup {<<who[r], on[r]>>} ELSE entries \ {<<who[r], on[r]>>}
      BY <1>5 DEF Commit, At
    <2>2. listing[on[r]] = "listed"
      BY <2>1 DEF Wishes, Holds
    <2>3. \A q \in Products : q # on[r] => Watchers(q)' \subseteq Watchers(q)
      BY <2>1 DEF Watchers
    <2>4. QED
      BY <1>a, <1>b, <2>1, <2>2, <2>3, ClearedStep
  <1>6. CASE Abort(r)
    <2>1. UNCHANGED <<listing, entries>> /\ (at[r] = "deleteEntries" => on[r] \in cut')
      BY <1>6 DEF Abort, product
    <2>2. \A p : Watchers(p)' = Watchers(p)
      BY <2>1 DEF Watchers
    <2>3. QED
      BY <1>a, <1>b, <2>1, <2>2, ClearedStep
  <1>7. CASE Creates(r)
    BY <1>1, <1>2, <1>7
    DEF Creates, StartCreate, Upload, Cleanup, DeleteFiles, InsertRefused, At, product
  <1>8. CASE Deletes(r)
    BY <1>1, <1>3, <1>4, <1>8 DEF Deletes, StartDelete, At, product
  <1>9. CASE Changes(r)
    BY <1>1, <1>5, <1>9
    DEF Changes, StartSave, StartUnsave, StartChange, Begin, Write, Conflict, Publish, At, product
  <1>10. QED
    BY <1>6, <1>7, <1>8, <1>9 DEF Acts

-----------------------------------------------------------------------------
(* The pictures *)

(* The files a handler that creates a listing uploaded, and answers for. *)
Own(r) == IF at[r] \in {"insert", "cleanup"} THEN files[r] ELSE {}

(* A file is in one listing's pictures or with one handler, never in both. *)
Apart ==
  /\ \A p \in Products : pictures[p] \subseteq uploaded
  /\ \A r \in Requests : Own(r) \subseteq uploaded
  /\ \A p, q \in Products : p # q => pictures[p] \cap pictures[q] = {}
  /\ \A r, s \in Requests : r # s => Own(r) \cap Own(s) = {}
  /\ \A r \in Requests, p \in Products : Own(r) \cap pictures[p] = {}

(* The files of a new listing are there; a deletion has the listing's pictures. *)
InHand(r) ==
  /\ at[r] = "insert" => files[r] \subseteq stored
  /\ at[r] = "deleteFiles" => files[r] = pictures[on[r]]

Stay ==
  \A p \in Products : listing[p] = "listed" =>
    \/ pictures[p] \subseteq stored
    \/ p \in cut
    \/ \E r \in Requests : at[r] = "deleteListing" /\ on[r] = p

Pictured == Apart /\ (\A r \in Requests : InHand(r)) /\ Stay

(* A step that takes and gives no file. *)
LEMMA PicturedSame ==
  ASSUME Pictured, NEW r \in Requests, \A s \in Requests \ {r} : Same(s), cut \subseteq cut',
         UNCHANGED <<pictures, stored, uploaded>>,
         at'[r] \notin {"insert", "cleanup", "deleteFiles"},
         \A p \in Products : listing'[p] = "listed" => listing[p] = "listed",
         \A p \in Products : at[r] = "deleteListing" /\ on[r] = p =>
           p \in cut' \/ listing'[p] # "listed"
  PROVE  Pictured'
  <1>1. \A s \in Requests : Own(s)' = Own(s) \/ Own(s)' = {}
    BY DEF Own, Same
  <1>2. Apart'
    BY <1>1 DEF Pictured, Apart
  <1>3. \A s \in Requests : InHand(s)'
    BY DEF Pictured, InHand, Same
  <1>4. Stay'
    <2> SUFFICES ASSUME NEW p \in Products, listing'[p] = "listed", p \notin cut',
                        ~(pictures[p] \subseteq stored)
                 PROVE  \E s \in Requests : at'[s] = "deleteListing" /\ on'[s] = p
      BY DEF Stay
    <2>1. PICK s \in Requests : at[s] = "deleteListing" /\ on[s] = p
      BY DEF Pictured, Stay
    <2>2. QED
      BY <2>1 DEF Same
  <1>5. QED
    BY <1>2, <1>3, <1>4 DEF Pictured

LEMMA UploadPictures ==
  ASSUME Types, Pictured, NEW r \in Requests, NEW all \in SUBSET Files, NEW done \in SUBSET all,
         Upload(r, all, done), \A s \in Requests \ {r} : Same(s)
  PROVE  Pictured'
  <1>1. /\ at[r] = "upload" /\ all \cap uploaded = {}
        /\ stored' = stored \cup done /\ uploaded' = uploaded \cup all
        /\ UNCHANGED <<listing, pictures, cut>>
        /\ files'[r] = done /\ at'[r] \in {"insert", "cleanup"}
    BY DEF Upload, At, Goto, product, history, Types, LocalTypes
  <1>2. Own(r)' = done /\ \A s \in Requests \ {r} : Own(s)' = Own(s)
    BY <1>1 DEF Own, Same
  <1>3. Apart'
    <2>1. \A p \in Products : pictures'[p] \subseteq uploaded'
      BY <1>1 DEF Pictured, Apart
    <2>2. \A s \in Requests : (Own(s) \subseteq uploaded)'
      BY <1>1, <1>2 DEF Pictured, Apart
    <2>3. \A s, t \in Requests : s # t => (Own(s) \cap Own(t) = {})'
      BY <1>1, <1>2 DEF Pictured, Apart
    <2>4. \A s \in Requests, p \in Products : (Own(s) \cap pictures[p] = {})'
      BY <1>1, <1>2 DEF Pictured, Apart
    <2>5. QED
      BY <1>1, <2>1, <2>2, <2>3, <2>4 DEF Pictured, Apart
  <1>4. \A s \in Requests : InHand(s)'
    BY <1>1 DEF Pictured, InHand, Same
  <1>5. Stay'
    BY <1>1 DEF Pictured, Stay, Same
  <1>6. QED
    BY <1>3, <1>4, <1>5 DEF Pictured

LEMMA CleanupPictures ==
  ASSUME Types, Pictured, NEW r \in Requests, NEW left, Cleanup(r, left),
         \A s \in Requests \ {r} : Same(s)
  PROVE  Pictured'
  <1>1. /\ at[r] = "cleanup" /\ stored' = stored \ (files[r] \ left)
        /\ UNCHANGED <<listing, pictures, uploaded, cut>> /\ at'[r] = "idle"
    BY Returned DEF Cleanup, At, product, history, Types
  <1>2. Own(r) = files[r] /\ Own(r)' = {} /\ \A s \in Requests \ {r} : Own(s)' = Own(s)
    BY <1>1 DEF Own, Same
  <1>3. Apart'
    BY <1>1, <1>2 DEF Pictured, Apart
  <1>4. ASSUME NEW s \in Requests PROVE InHand(s)'
    <2>1. CASE s = r
      BY <1>1, <2>1 DEF InHand
    <2>2. CASE s # r
      <3>1. at[s] = "insert" => files[s] \cap files[r] = {}
        BY <1>2, <2>2 DEF Pictured, Apart, Own
      <3>2. QED
        BY <1>1, <2>2, <3>1 DEF Pictured, InHand, Same
    <2>3. QED
      BY <2>1, <2>2
  <1>5. Stay'
    <2>1. \A p \in Products : pictures[p] \subseteq stored => pictures[p] \subseteq stored'
      BY <1>1, <1>2 DEF Pictured, Apart
    <2>2. QED
      BY <1>1, <2>1 DEF Pictured, Stay, Same
  <1>6. QED
    BY <1>3, <1>4, <1>5 DEF Pictured

LEMMA InsertPictures ==
  ASSUME Types, Jobs, Pictured, NEW r \in Requests, NEW p \in Products, Insert(r, p),
         \A s \in Requests \ {r} : Same(s)
  PROVE  Pictured'
  <1>1. /\ at[r] = "insert" /\ listing[p] = "new" /\ at'[r] = "idle"
        /\ listing' = [listing EXCEPT ![p] = "listed"]
        /\ pictures' = [pictures EXCEPT ![p] = files[r]]
        /\ UNCHANGED <<stored, uploaded, cut>>
    BY Returned DEF Insert, At, bucket, history, Types
  <1>2. Own(r) = files[r] /\ Own(r)' = {} /\ \A s \in Requests \ {r} : Own(s)' = Own(s)
    BY <1>1 DEF Own, Same
  <1>3. \A q \in Products : /\ pictures'[q] = IF q = p THEN Own(r) ELSE pictures[q]
                            /\ q # p => listing'[q] = listing[q]
    <2>1. pictures \in [Products -> SUBSET Files] /\ DOMAIN listing = Products
      BY DEF Types, SharedTypes
    <2>2. \A q \in Products : pictures'[q] = IF q = p THEN files[r] ELSE pictures[q]
      BY <1>1, <2>1
    <2>3. \A q \in Products : q # p => listing'[q] = listing[q]
      BY <1>1, <2>1
    <2>4. QED
      BY <1>2, <2>2, <2>3
  <1>4. Apart'
    BY <1>1, <1>2, <1>3 DEF Pictured, Apart
  <1>5. ASSUME NEW s \in Requests PROVE InHand(s)'
    <2>1. CASE s = r
      BY <1>1, <2>1 DEF InHand
    <2>2. CASE s # r
      <3>1. at[s] = "deleteFiles" => on[s] # p /\ on[s] \in Products
        BY <1>1 DEF Jobs, JobOf, Deletion
      <3>2. QED
        BY <1>1, <1>3, <2>2, <3>1 DEF Pictured, InHand, Same
    <2>3. QED
      BY <2>1, <2>2
  <1>6. Stay'
    <2>1. pictures'[p] \subseteq stored'
      BY <1>1, <1>2, <1>3 DEF Pictured, InHand
    <2>2. QED
      BY <1>1, <1>3, <2>1 DEF Pictured, Stay, Same
  <1>7. QED
    BY <1>4, <1>5, <1>6 DEF Pictured

LEMMA DeleteFilesPictures ==
  ASSUME Types, Jobs, Pictured, NEW r \in Requests, NEW left, DeleteFiles(r, left),
         \A s \in Requests \ {r} : Same(s)
  PROVE  Pictured'
  <1>0. at[r] = "deleteFiles" /\ on[r] \in Products
    BY DEF DeleteFiles, At, Jobs, JobOf, Deletion
  <1> PICK p \in Products : p = on[r]
    BY <1>0
  <1>1. /\ stored' = stored \ (files[r] \ left)
        /\ UNCHANGED <<listing, pictures, uploaded>>
        /\ files[r] = pictures[p]
    BY <1>0 DEF DeleteFiles, product, Pictured, InHand
  <1>2. \/ at'[r] = "idle" /\ cut' = cut \cup {p}
        \/ at'[r] = "deleteListing" /\ on'[r] = p /\ cut' = cut
    BY Returned, Went DEF DeleteFiles, Types
  <1>3. Own(r)' = {} /\ Own(r) = {} /\ \A s \in Requests \ {r} : Own(s)' = Own(s)
    BY <1>0, <1>2 DEF Own, Same
  <1>4. Apart'
    BY <1>1, <1>3 DEF Pictured, Apart
  <1>5. ASSUME NEW s \in Requests PROVE InHand(s)'
    <2>1. CASE s = r
      BY <1>2, <2>1 DEF InHand
    <2>2. CASE s # r
      <3>1. at[s] = "insert" => files[s] \cap files[r] = {}
        BY <1>1 DEF Pictured, Apart, Own
      <3>2. QED
        BY <1>1, <2>2, <3>1 DEF Pictured, InHand, Same
    <2>3. QED
      BY <2>1, <2>2
  <1>6. Stay'
    <2> SUFFICES ASSUME NEW q \in Products, listing[q] = "listed"
                 PROVE  \/ pictures[q] \subseteq stored'
                        \/ q \in cut'
                        \/ \E s \in Requests : at'[s] = "deleteListing" /\ on'[s] = q
      BY <1>1 DEF Stay
    <2>1. CASE q = p
      BY <1>2, <2>1
    <2>2. CASE q # p
      <3>1. pictures[q] \cap files[r] = {}
        BY <1>1, <2>2 DEF Pictured, Apart
      <3>2. \/ pictures[q] \subseteq stored
            \/ q \in cut
            \/ \E s \in Requests : at[s] = "deleteListing" /\ on[s] = q
        BY DEF Pictured, Stay
      <3>3. QED
        BY <1>0, <1>1, <1>2, <3>1, <3>2 DEF Same
    <2>3. QED
      BY <2>1, <2>2
  <1>7. QED
    BY <1>4, <1>5, <1>6 DEF Pictured

LEMMA StartDeletePictures ==
  ASSUME Types, Pictured, NEW r \in Requests, NEW p \in Products, StartDelete(r, p),
         \A s \in Requests \ {r} : Same(s)
  PROVE  Pictured'
  <1>1. /\ at[r] = "idle" /\ at'[r] = "deleteFiles" /\ on'[r] = p /\ files'[r] = pictures[p]
        /\ UNCHANGED <<listing, pictures, stored, uploaded, cut>>
    BY DEF StartDelete, At, Goto, product, bucket, history, Types, LocalTypes
  <1>2. \A s \in Requests : Own(s)' = Own(s)
    BY <1>1 DEF Own, Same
  <1>3. Apart'
    BY <1>1, <1>2 DEF Pictured, Apart
  <1>4. \A s \in Requests : InHand(s)'
    BY <1>1 DEF Pictured, InHand, Same
  <1>5. Stay'
    BY <1>1 DEF Pictured, Stay, Same
  <1>6. QED
    BY <1>3, <1>4, <1>5 DEF Pictured

LEMMA PicturedKept ==
  ASSUME Types, Jobs, Wishes, Pictured, NEW r \in Requests, Acts(r)
  PROVE  Pictured'
  <1>a. LocalTypes /\ SharedTypes /\ \A s \in Requests \ {r} : Same(s)
    BY ActTypes DEF Types
  <1>1. CASE /\ \/ Return(r)
                \/ \E step \in {"upload"} \cup Change : Goto(r, step)
             /\ at[r] # "deleteListing"
             /\ UNCHANGED <<listing, pictures, stored, uploaded, cut>>
    <2>1. at'[r] \notin {"insert", "cleanup", "deleteFiles"}
      BY <1>1, <1>a, Returned, Went DEF Change
    <2>2. QED
      BY <1>1, <1>a, <2>1, PicturedSame
  <1>2. CASE DeleteListing(r)
    <2>1. /\ listing' = [listing EXCEPT ![on[r]] = "deleted"] /\ Goto(r, "deleteEntries")
          /\ UNCHANGED <<pictures, stored, uploaded, cut>>
      BY <1>2 DEF DeleteListing, bucket, history
    <2>2. at'[r] = "deleteEntries"
      BY <1>a, <2>1, Went
    <2>3. \A p \in Products : /\ listing'[p] = "listed" => listing[p] = "listed"
                              /\ on[r] = p => listing'[p] # "listed"
      BY <1>a, <2>1 DEF SharedTypes
    <2>4. QED
      BY <1>a, <2>1, <2>2, <2>3, PicturedSame
  <1>3. CASE Abort(r)
    <2>1. /\ at'[r] = "idle" /\ UNCHANGED <<listing, pictures, stored, uploaded>>
          /\ cut \subseteq cut' /\ (at[r] = "deleteListing" => on[r] \in cut')
      BY <1>3, <1>a, Returned DEF Abort, product, bucket
    <2>2. QED
      BY <1>a, <2>1, PicturedSame
  <1>4. CASE Creates(r)
    <2>1. CASE StartCreate(r) \/ InsertRefused(r)
      BY <1>1, <2>1 DEF StartCreate, InsertRefused, At, product, bucket, history
    <2>2. QED
      BY <1>a, <1>4, <2>1, UploadPictures, CleanupPictures, InsertPictures, DeleteFilesPictures
      DEF Creates
  <1>5. CASE Deletes(r)
    <2>1. CASE DeleteEntries(r)
      BY <1>1, <2>1 DEF DeleteEntries, At, product, bucket, history
    <2>2. QED
      BY <1>a, <1>2, <1>5, <2>1, StartDeletePictures DEF Deletes
  <1>6. CASE Changes(r)
    <2>1. UNCHANGED <<listing, pictures, stored, uploaded, cut>> /\ at[r] # "deleteListing"
      BY <1>6
      DEF Changes, StartSave, StartUnsave, StartChange, Begin, Write, Conflict, Commit, Publish,
          At, product, bucket, history
    <2>2. Return(r) \/ \E step \in Change : Goto(r, step)
      BY <1>6
      DEF Changes, StartSave, StartUnsave, StartChange, Begin, Write, Conflict, Commit, Publish,
          Change
    <2>3. QED
      BY <1>1, <2>1, <2>2
  <1>7. QED
    BY <1>3, <1>4, <1>5, <1>6 DEF Acts

-----------------------------------------------------------------------------
(* The count the clients are told *)

(* Unless two changes are announced at once, the one that is has the listing's count. *)
Announced ==
  \A p \in Products \ crossed :
    /\ \A r, s \in Requests : /\ at[r] = "publish" /\ on[r] = p
                              /\ at[s] = "publish" /\ on[s] = p
                              => r = s
    /\ \A r \in Requests : at[r] = "publish" /\ on[r] = p => mine[r] = count[p]
    /\ p \in cut \/ Publishing(p) \/ shown[p] = count[p]

(* A step after which its handler announces nothing. *)
LEMMA AnnouncedSame ==
  ASSUME Announced, NEW r \in Requests, \A s \in Requests \ {r} : Same(s),
         cut \subseteq cut', crossed \subseteq crossed', UNCHANGED shown,
         \A p \in Products : count'[p] = count[p],
         at'[r] # "publish",
         \A p \in Products : at[r] = "publish" /\ on[r] = p => p \in cut'
  PROVE  Announced'
  <1> SUFFICES ASSUME NEW p \in Products, p \notin crossed
               PROVE  /\ \A s, t \in Requests : /\ at'[s] = "publish" /\ on'[s] = p
                                                /\ at'[t] = "publish" /\ on'[t] = p
                                                => s = t
                      /\ \A s \in Requests : at'[s] = "publish" /\ on'[s] = p => mine'[s] = count[p]
                      /\ p \in cut' \/ Publishing(p)' \/ shown[p] = count[p]
    BY DEF Announced, Publishing, At
  <1>1. \A s \in Requests : at'[s] = "publish" =>
          at[s] = "publish" /\ on'[s] = on[s] /\ mine'[s] = mine[s]
    BY DEF Same
  <1>2. Publishing(p) => p \in cut' \/ Publishing(p)'
    <2> SUFFICES ASSUME Publishing(p), p \notin cut' PROVE Publishing(p)'
      OBVIOUS
    <2>1. PICK s \in Requests : at[s] = "publish" /\ on[s] = p
      BY DEF Publishing, At
    <2>2. s # r
      BY <2>1
    <2>3. at'[s] = "publish" /\ on'[s] = p
      BY <2>1, <2>2 DEF Same
    <2>4. QED
      BY <2>3 DEF Publishing, At
  <1>3. QED
    BY <1>1, <1>2 DEF Announced

LEMMA CommitAnnounced ==
  ASSUME Types, Jobs, Announced, NEW r \in Requests, Commit(r),
         \A s \in Requests \ {r} : Same(s)
  PROVE  Announced'
  <1>0. at[r] = "commit" /\ on[r] \in Products
    BY DEF Commit, At, Jobs, JobOf, Change
  <1> PICK p \in Products : p = on[r]
    BY <1>0
  <1>1. /\ count' = [count EXCEPT ![p] = mine[r]]
        /\ UNCHANGED <<shown, cut>>
    BY DEF Commit
  <1>2. \A q \in Products : /\ q # p => count'[q] = count[q]
                            /\ q = p => count'[q] = mine[r]
    BY <1>1 DEF Types, SharedTypes
  <1>3. CASE /\ count[p] = mine[r] /\ Return(r) /\ crossed' = crossed
    <2>1. at'[r] = "idle"
      BY <1>3, Returned DEF Types
    <2>2. \A q \in Products : count'[q] = count[q]
      BY <1>2, <1>3
    <2>3. QED
      BY <1>0, <1>1, <1>3, <2>1, <2>2, AnnouncedSame
  <1>4. CASE /\ Goto(r, "publish") /\ UNCHANGED <<on, mine>>
             /\ crossed' = IF Publishing(p) THEN crossed \cup {p} ELSE crossed
    <2>1. at'[r] = "publish" /\ on'[r] = p /\ mine'[r] = mine[r]
      BY <1>4, Went DEF Types
    <2> SUFFICES ASSUME NEW q \in Products, q \notin crossed'
                 PROVE  /\ \A s, t \in Requests : /\ at'[s] = "publish" /\ on'[s] = q
                                                  /\ at'[t] = "publish" /\ on'[t] = q
                                                  => s = t
                        /\ \A s \in Requests : at'[s] = "publish" /\ on'[s] = q => mine'[s] = count'[q]
                        /\ q \in cut' \/ Publishing(q)' \/ shown'[q] = count'[q]
      BY DEF Announced
    <2>2. q \notin crossed
      BY <1>4
    <2>3. CASE q = p
      <3>1. ~Publishing(p)
        BY <1>4, <2>3
      <3>2. \A s \in Requests \ {r} : at'[s] = "publish" => on'[s] # p
        BY <3>1 DEF Publishing, At, Same
      <3>3. Publishing(p)'
        BY <2>1 DEF Publishing, At
      <3>4. QED
        BY <1>2, <2>1, <2>3, <3>2, <3>3
    <2>4. CASE q # p
      <3>1. \A s \in Requests : on'[s] = q /\ at'[s] = "publish" =>
              s # r /\ at[s] = "publish" /\ on[s] = q /\ mine'[s] = mine[s]
        BY <2>1, <2>4 DEF Same
      <3>2. Publishing(q) => Publishing(q)'
        <4> SUFFICES ASSUME Publishing(q) PROVE Publishing(q)'
          OBVIOUS
        <4>1. PICK s \in Requests : at[s] = "publish" /\ on[s] = q
          BY DEF Publishing, At
        <4>2. at'[s] = "publish" /\ on'[s] = q
          BY <1>0, <4>1 DEF Same
        <4>3. QED
          BY <4>2 DEF Publishing, At
      <3>3. count'[q] = count[q]
        BY <1>2, <2>4
      <3>4. QED
        BY <1>1, <2>2, <3>1, <3>2, <3>3 DEF Announced
    <2>5. QED
      BY <2>3, <2>4
  <1>5. QED
    BY <1>3, <1>4 DEF Commit, wish

LEMMA PublishAnnounced ==
  ASSUME Types, Jobs, Announced, NEW r \in Requests, Publish(r),
         \A s \in Requests \ {r} : Same(s)
  PROVE  Announced'
  <1>0. at[r] = "publish" /\ on[r] \in Products
    BY DEF Publish, At, Jobs, JobOf, Change
  <1> PICK p \in Products : p = on[r]
    BY <1>0
  <1>1. /\ at'[r] = "idle" /\ shown' = [shown EXCEPT ![p] = mine[r]]
        /\ UNCHANGED <<count, crossed, cut>>
    BY Returned DEF Publish, product, history, Types
  <1>2. \A q \in Products : /\ q # p => shown'[q] = shown[q]
                            /\ q = p => shown'[q] = mine[r]
    BY <1>1 DEF Types, SharedTypes
  <1>3. \A s \in Requests : at'[s] = "publish" =>
          s # r /\ at[s] = "publish" /\ on'[s] = on[s] /\ mine'[s] = mine[s]
    BY <1>1 DEF Same
  <1>4. ASSUME NEW q \in Products, q \notin crossed
        PROVE  q \in cut \/ Publishing(q)' \/ shown'[q] = count[q]
    <2>1. CASE q = p
      BY <1>0, <1>2, <1>4, <2>1 DEF Announced
    <2>2. CASE q # p
      <3>1. Publishing(q) => Publishing(q)'
        <4> SUFFICES ASSUME Publishing(q) PROVE Publishing(q)'
          OBVIOUS
        <4>1. PICK s \in Requests : at[s] = "publish" /\ on[s] = q
          BY DEF Publishing, At
        <4>2. at'[s] = "publish" /\ on'[s] = q
          BY <2>2, <4>1 DEF Same
        <4>3. QED
          BY <4>2 DEF Publishing, At
      <3>2. QED
        BY <1>2, <1>4, <2>2, <3>1 DEF Announced
    <2>3. QED
      BY <2>1, <2>2
  <1>5. QED
    BY <1>1, <1>3, <1>4 DEF Announced

LEMMA AnnouncedKept ==
  ASSUME Types, Jobs, Announced, NEW r \in Requests, Acts(r)
  PROVE  Announced'
  <1>a. LocalTypes /\ \A s \in Requests \ {r} : Same(s)
    BY ActTypes DEF Types
  <1>1. CASE /\ \/ Return(r)
                \/ \E step \in Steps \ {"publish"} : Goto(r, step)
             /\ at[r] # "publish" /\ cut \subseteq cut'
             /\ UNCHANGED <<count, shown, crossed>>
    <2>1. at'[r] # "publish"
      BY <1>1, <1>a, Returned, Went
    <2>2. QED
      BY <1>1, <1>a, <2>1, AnnouncedSame
  <1>2. CASE Creates(r)
    <2>1. /\ at[r] # "publish" /\ cut \subseteq cut'
          /\ UNCHANGED <<count, shown, crossed>>
      BY <1>2
      DEF Creates, StartCreate, Upload, Cleanup, DeleteFiles, Insert, InsertRefused, At, product,
          history
    <2>2. Return(r) \/ \E step \in Steps \ {"publish"} : Goto(r, step)
      BY <1>2
      DEF Creates, StartCreate, Upload, Cleanup, DeleteFiles, Insert, InsertRefused, Steps
    <2>3. QED
      BY <1>1, <2>1, <2>2
  <1>3. CASE Deletes(r)
    <2>1. /\ at[r] # "publish" /\ UNCHANGED <<count, shown, crossed, cut>>
      BY <1>3 DEF Deletes, StartDelete, DeleteListing, DeleteEntries, At, product, history
    <2>2. Return(r) \/ \E step \in Steps \ {"publish"} : Goto(r, step)
      BY <1>3 DEF Deletes, StartDelete, DeleteListing, DeleteEntries, Steps
    <2>3. QED
      BY <1>1, <2>1, <2>2
  <1>4. CASE Changes(r)
    <2>1. ASSUME NEW u \in Users, NEW p \in Products, StartSave(r, u, p) \/ StartUnsave(r, u, p)
          PROVE  Announced'
      BY <1>1, <2>1 DEF StartSave, StartUnsave, StartChange, At, product, history, Steps
    <2>2. CASE Begin(r) \/ Write(r) \/ Conflict(r)
      BY <1>1, <2>2 DEF Begin, Write, Conflict, At, product, history, Steps
    <2>3. QED
      BY <1>4, <1>a, <2>1, <2>2, CommitAnnounced, PublishAnnounced DEF Changes
  <1>5. CASE Abort(r)
    <2>1. /\ at'[r] = "idle" /\ UNCHANGED <<count, shown, crossed>>
          /\ cut \subseteq cut' /\ (at[r] = "publish" => on[r] \in cut')
      BY <1>5, <1>a, Returned DEF Abort, product
    <2>2. QED
      BY <1>a, <2>1, AnnouncedSame
  <1>6. QED
    BY <1>2, <1>3, <1>4, <1>5 DEF Acts

-----------------------------------------------------------------------------
(* The invariant *)

IInv == Types /\ Jobs /\ Wishes /\ Cleared /\ Pictured /\ Announced

LEMMA Initial == Init => IInv
  <1> SUFFICES ASSUME Init PROVE IInv
    OBVIOUS
  <1>1. Types
    BY DEF Init, Types, LocalTypes, SharedTypes, Steps
  <1>2. \A r \in Requests : at[r] = "idle"
    BY DEF Init
  <1>3. Jobs
    BY <1>2 DEF Jobs, JobOf, Deletion, Change
  <1>4. \A p \in Products : Watchers(p) = {}
    BY DEF Init, Watchers
  <1>5. Counted
    BY <1>4, FS_EmptySet DEF Init, Counted
  <1>6. Wishes
    BY <1>2, <1>5 DEF Wishes, Fresh, Holds, Clears, OneHolder
  <1>7. Cleared
    BY <1>4 DEF Cleared
  <1>8. Pictured
    <2>1. \A r \in Requests : Own(r) = {} /\ InHand(r)
      BY <1>2 DEF Own, InHand
    <2>2. \A p \in Products : pictures[p] = {} /\ listing[p] = "new"
      BY DEF Init
    <2>3. Apart /\ Stay
      BY <2>1, <2>2 DEF Apart, Stay
    <2>4. QED
      BY <2>1, <2>3 DEF Pictured
  <1>9. Announced
    BY <1>2 DEF Init, Announced
  <1>10. QED
    BY <1>1, <1>3, <1>6, <1>7, <1>8, <1>9 DEF IInv

(* Another write of a listing: no handler moves. *)
LEMMA TouchKeeps ==
  ASSUME IInv, NEW p \in Products, Touch(p)
  PROVE  IInv'
  <1>1. Types' /\ \A s \in Requests : Same(s)
    BY TouchTypes DEF IInv
  <1>2. Wishes'
    BY TouchWishes DEF IInv
  <1>3. UNCHANGED <<listing, pictures, count, entries, stored, uploaded, shown, crossed, cut>>
    BY DEF Touch, product, bucket, history
  <1>4. PICK r \in Requests : at[r] = "write"
    BY DEF Touch, At
  <1>5. at'[r] = "write"
    BY <1>1, <1>4 DEF Same
  <1>6. Jobs'
    BY <1>1, <1>3 DEF IInv, Jobs, JobOf, Same
  <1>7. Cleared'
    <2>1. \A q : Watchers(q)' = Watchers(q)
      BY <1>3 DEF Watchers
    <2>2. QED
      BY <1>1, <1>3, <1>4, <2>1, ClearedStep DEF IInv
  <1>8. Pictured'
    BY <1>1, <1>3, <1>4, <1>5, PicturedSame DEF IInv
  <1>9. Announced'
    BY <1>1, <1>3, <1>4, <1>5, AnnouncedSame DEF IInv
  <1>10. QED
    BY <1>1, <1>2, <1>6, <1>7, <1>8, <1>9 DEF IInv

LEMMA Inductive == IInv /\ [Next]_vars => IInv'
  <1> SUFFICES ASSUME IInv, [Next]_vars PROVE IInv'
    OBVIOUS
  <1>1. ASSUME NEW r \in Requests, Acts(r) PROVE IInv'
    <2>1. Types' /\ Jobs'
      BY <1>1, ActTypes, JobsKept DEF IInv
    <2>2. Wishes'
      BY <1>1, WishesKept DEF IInv, Next, Acts
    <2>3. Cleared' /\ Pictured' /\ Announced'
      BY <1>1, ClearedKept, PicturedKept, AnnouncedKept DEF IInv
    <2>4. QED
      BY <2>1, <2>2, <2>3 DEF IInv
  <1>2. CASE UNCHANGED vars
    <2>1. UNCHANGED <<listing, pictures, count, entries, stored, uploaded, shown, crossed, cut>>
      BY <1>2 DEF vars, product, bucket, history
    <2>2. UNCHANGED <<at, on, who, saves, found, stale, mine, files>>
      BY <1>2 DEF vars, local, wish
    <2>3. Types' /\ Jobs'
      BY <2>1, <2>2 DEF IInv, Types, LocalTypes, SharedTypes, Jobs, JobOf
    <2>4. \A q : Watchers(q)' = Watchers(q)
      BY <2>1 DEF Watchers
    <2>5. Wishes' /\ Cleared'
      BY <2>1, <2>2, <2>4
      DEF IInv, Wishes, Fresh, Holds, Clears, After, OneHolder, Counted, Cleared
    <2>6. Pictured'
      BY <2>1, <2>2 DEF IInv, Pictured, Apart, Own, InHand, Stay
    <2>7. Announced'
      BY <2>1, <2>2 DEF IInv, Announced, Publishing, At
    <2>8. QED
      BY <2>3, <2>5, <2>6, <2>7 DEF IInv
  <1>3. QED
    BY <1>1, <1>2, TouchKeeps DEF Next, Acts

-----------------------------------------------------------------------------
(* The rest of the types *)

RestTypes ==
  /\ stored \subseteq uploaded /\ uploaded \subseteq Files
  /\ crossed \subseteq Products /\ cut \subseteq Products
  /\ faults \in 0 .. MaxFaults

(* A count is the cardinality of a finite set, since entries come one by one. *)
Finite ==
  /\ \A p \in Products : IsFiniteSet(Watchers(p))
  /\ \A r \in Requests : IsFiniteSet(found[r])

(* There is a number above every orderId given so far. *)
Numbered ==
  /\ number \in [Products -> Nat] /\ count \in [Products -> Nat]
  /\ shown \in [Products -> Nat] /\ mine \in [Requests -> Nat]
  /\ \E top \in Nat : \A p \in Products : number[p] <= top

(* Numbers that a number is above have a highest. *)
LEMMA Highest ==
  ASSUME NEW S \in SUBSET Nat, S # {}, NEW top \in Nat, \A n \in S : n <= top
  PROVE  \E n \in S : \A m \in S : m <= n
  <1> DEFINE T == {top - n : n \in S}
  <1>1. \A n \in S : n \in Nat /\ top - n \in Nat
    OBVIOUS
  <1>2. T \subseteq Nat /\ T # {}
    BY <1>1
  <1>3. PICK x \in T : \A y \in T : <<y, x>> \notin OpToRel(<, Nat)
    BY <1>2, NatLessThanWellFounded, WFMin
  <1>4. ASSUME NEW y \in T PROVE ~(y < x)
    BY <1>2, <1>3 DEF OpToRel
  <1>5. PICK n \in S : x = top - n
    OBVIOUS
  <1>6. ASSUME NEW m \in S PROVE m <= n
    <2>1. top - m \in T
      OBVIOUS
    <2>2. ~(top - m < top - n)
      BY <1>4, <1>5, <2>1
    <2> HIDE DEF T
    <2> QED
      BY <1>1, <2>2
  <1> QED
    BY <1>6

(* The orderId of the next listing is a number. *)
LEMMA NextNumber ==
  ASSUME Numbered, Listed # {}
  PROVE  (CHOOSE n \in {number[p] : p \in Listed} : \A p \in Listed : number[p] <= n) \in Nat
  <1> DEFINE S == {number[p] : p \in Listed}
  <1>1. PICK top \in Nat : \A p \in Products : number[p] <= top
    BY DEF Numbered
  <1>2. S \in SUBSET Nat /\ S # {} /\ \A n \in S : n <= top
    BY <1>1 DEF Numbered, Listed
  <1> HIDE DEF S
  <1>3. \E n \in S : \A m \in S : m <= n
    BY <1>2, Highest
  <1>4. \E n \in S : \A p \in Listed : number[p] <= n
    BY <1>3 DEF S
  <1>5. (CHOOSE n \in S : \A p \in Listed : number[p] <= n) \in S
    BY <1>4
  <1> QED
    BY <1>2, <1>5 DEF S

LEMMA RestKept ==
  ASSUME Types, Jobs, RestTypes, [Next]_vars
  PROVE  RestTypes'
  <1> USE BoundAssumption DEF RestTypes
  <1>1. ASSUME NEW r \in Requests, Creates(r) PROVE RestTypes'
    <2>1. ASSUME NEW left, DeleteFiles(r, left) PROVE RestTypes'
      BY <2>1 DEF DeleteFiles, Jobs, JobOf, Deletion, At
    <2>2. ASSUME NEW all \in SUBSET Files, NEW done \in SUBSET all, Upload(r, all, done)
          PROVE  RestTypes'
      BY <2>2 DEF Upload, history
    <2>3. CASE UNCHANGED <<crossed, cut, faults, uploaded>> /\ stored' \subseteq stored
      BY <2>3
    <2> QED
      BY <1>1, <2>1, <2>2, <2>3
      DEF Creates, StartCreate, Cleanup, Insert, InsertRefused, bucket, history
  <1>2. ASSUME NEW r \in Requests, Deletes(r) PROVE RestTypes'
    BY <1>2 DEF Deletes, StartDelete, DeleteListing, DeleteEntries, bucket, history
  <1>3. ASSUME NEW r \in Requests, Changes(r) PROVE RestTypes'
    <2>1. CASE Commit(r)
      BY <2>1 DEF Commit, Jobs, JobOf, Change, At, bucket
    <2> QED
      BY <1>3, <2>1
      DEF Changes, StartSave, StartUnsave, StartChange, Begin, Write, Conflict, Publish, bucket,
          history
  <1>4. ASSUME NEW r \in Requests, Abort(r) PROVE RestTypes'
    <2>1. cut' \subseteq Products
      BY <1>4 DEF Abort, Jobs, JobOf, Deletion, Change
    <2> QED
      BY <1>4, <2>1 DEF Abort, bucket
  <1>5. ASSUME NEW p \in Products, Touch(p) PROVE RestTypes'
    BY <1>5 DEF Touch, bucket, history
  <1>6. CASE UNCHANGED vars
    BY <1>6 DEF vars, bucket, history
  <1> QED
    BY <1>1, <1>2, <1>3, <1>4, <1>5, <1>6 DEF Next

LEMMA FiniteKept ==
  ASSUME Types, Jobs, Finite, [Next]_vars
  PROVE  Finite'
  <1>0. LocalTypes /\ SharedTypes
    BY DEF Types
  <1>1. CASE entries' = entries /\ found' = found
    BY <1>1 DEF Finite, Watchers
  <1>2. ASSUME NEW r \in Requests, NEW users, IsFiniteSet(users), entries' = entries,
               found' = [found EXCEPT ![r] = users]
        PROVE  Finite'
    BY <1>0, <1>2 DEF Finite, Watchers, LocalTypes
  <1>3. ASSUME NEW r \in Requests, Return(r), entries' \subseteq entries
        PROVE  Finite'
    <2>1. \A p \in Products : Watchers(p)' \subseteq Watchers(p)
      BY <1>3 DEF Watchers
    <2>2. \A p \in Products : IsFiniteSet(Watchers(p)')
      BY <2>1, FS_Subset DEF Finite
    <2>3. \A s \in Requests : found'[s] = {} \/ found'[s] = found[s]
      BY <1>0, <1>3 DEF Return, LocalTypes
    <2> QED
      BY <2>2, <2>3, FS_EmptySet DEF Finite
  <1>4. ASSUME NEW r \in Requests, Begin(r) PROVE Finite'
    <2>1. CASE Return(r)
      BY <1>3, <1>4, <2>1 DEF Begin
    <2>2. CASE found' = [found EXCEPT ![r] = Watchers(on[r])]
      <3>1. IsFiniteSet(Watchers(on[r])) /\ entries' = entries
        BY <1>4 DEF Begin, At, Jobs, JobOf, Change, Finite
      <3> QED
        BY <1>2, <2>2, <3>1
    <2> QED
      BY <1>4, <2>1, <2>2 DEF Begin
  <1>5. ASSUME NEW r \in Requests, Commit(r) PROVE Finite'
    <2>1. on[r] \in Products /\ who[r] \in Users
      BY <1>5 DEF Commit, At, Jobs, JobOf, Change
    <2>2. \A p \in Products : Watchers(p)' \subseteq Watchers(p) \cup {who[r]}
      BY <1>5, <2>1 DEF Commit, Watchers
    <2>3. \A p \in Products : IsFiniteSet(Watchers(p) \cup {who[r]})
      BY FS_AddElement DEF Finite
    <2>4. \A p \in Products : IsFiniteSet(Watchers(p)')
      BY <2>2, <2>3, FS_Subset
    <2>5. \A s \in Requests : found'[s] = {} \/ found'[s] = found[s]
      BY <1>0, <1>5 DEF Commit, Return, wish, LocalTypes
    <2> QED
      BY <2>4, <2>5, FS_EmptySet DEF Finite
  <1>6. ASSUME NEW r \in Requests, Creates(r) PROVE Finite'
    BY <1>1, <1>3, <1>6
    DEF Creates, StartCreate, Upload, Cleanup, Insert, InsertRefused, DeleteFiles, wish
  <1>7. ASSUME NEW r \in Requests, Deletes(r) PROVE Finite'
    BY <1>1, <1>3, <1>7 DEF Deletes, StartDelete, DeleteListing, DeleteEntries, wish
  <1>8. ASSUME NEW r \in Requests, Changes(r) PROVE Finite'
    <2>1. CASE Conflict(r)
      BY <1>2, <2>1, FS_EmptySet DEF Conflict
    <2> QED
      BY <1>1, <1>3, <1>4, <1>5, <1>8, <2>1
      DEF Changes, StartSave, StartUnsave, StartChange, Write, Publish, wish
  <1> QED
    BY <1>1, <1>3, <1>6, <1>7, <1>8 DEF Next, Abort, Touch, vars, local, wish

LEMMA NumberedKept ==
  ASSUME Types, Jobs, Finite, Numbered, [Next]_vars
  PROVE  Numbered'
  <1>0. LocalTypes /\ SharedTypes
    BY DEF Types
  <1>1. CASE UNCHANGED <<number, count, shown, mine>>
    BY <1>1 DEF Numbered
  <1>2. ASSUME NEW r \in Requests, Return(r), UNCHANGED <<number, count, shown>>
        PROVE  Numbered'
    BY <1>2 DEF Numbered, Return
  <1>3. ASSUME NEW r \in Requests, NEW n \in Nat, mine' = [mine EXCEPT ![r] = n],
               UNCHANGED <<number, count, shown>>
        PROVE  Numbered'
    BY <1>3 DEF Numbered
  <1>4. ASSUME NEW r \in Requests, StartCreate(r) PROVE Numbered'
    <2>1. CASE Listed = {}
      BY <1>3, <1>4, <2>1 DEF StartCreate, product
    <2>2. CASE Listed # {}
      <3> DEFINE top == CHOOSE n \in {number[p] : p \in Listed} : \A p \in Listed : number[p] <= n
      <3>1. top \in Nat
        BY <2>2, NextNumber
      <3>2. mine' = [mine EXCEPT ![r] = 1 + top] /\ UNCHANGED <<number, count, shown>>
        BY <1>4, <2>2 DEF StartCreate, product
      <3> HIDE DEF top
      <3>3. 1 + top \in Nat
        BY <3>1
      <3> QED
        BY <1>3, <3>2, <3>3
    <2> QED
      BY <2>1, <2>2
  <1>5. ASSUME NEW r \in Requests, NEW p \in Products, Insert(r, p) PROVE Numbered'
    <2>1. number' = [number EXCEPT ![p] = mine[r]] /\ Return(r) /\ UNCHANGED <<count, shown>>
      BY <1>5 DEF Insert
    <2>2. PICK top \in Nat : \A q \in Products : number[q] <= top
      BY DEF Numbered
    <2>3. mine[r] \in Nat
      BY DEF Numbered
    <2>4. top + mine[r] \in Nat /\ \A q \in Products : number'[q] <= top + mine[r]
      BY <2>1, <2>2, <2>3 DEF Numbered
    <2>5. \E b \in Nat : \A q \in Products : number'[q] <= b
      BY <2>4
    <2>6. /\ number' \in [Products -> Nat] /\ mine' \in [Requests -> Nat]
          /\ count' \in [Products -> Nat] /\ shown' \in [Products -> Nat]
      BY <2>1, <2>3 DEF Numbered, Return
    <2> QED
      BY <2>5, <2>6 DEF Numbered
  <1>6. ASSUME NEW r \in Requests, Write(r) PROVE Numbered'
    <2>1. IsFiniteSet(After(r))
      BY FS_AddElement, FS_RemoveElement DEF Finite, After
    <2>2. Cardinality(After(r)) \in Nat
      BY <2>1, FS_CardinalityType
    <2> QED
      BY <1>3, <1>6, <2>2 DEF Write, After, product
  <1>7. ASSUME NEW r \in Requests, Commit(r) PROVE Numbered'
    <2>1. /\ mine[r] \in Nat /\ count' = [count EXCEPT ![on[r]] = mine[r]]
          /\ UNCHANGED <<number, shown>>
      BY <1>7 DEF Commit, Numbered
    <2>2. mine' \in [Requests -> Nat]
      BY <1>7 DEF Commit, Return, Numbered
    <2> QED
      BY <2>1, <2>2 DEF Numbered
  <1>8. ASSUME NEW r \in Requests, Publish(r) PROVE Numbered'
    <2>1. /\ mine[r] \in Nat /\ shown' = [shown EXCEPT ![on[r]] = mine[r]]
          /\ UNCHANGED <<number, count>> /\ Return(r)
      BY <1>8 DEF Publish, Numbered, product
    <2>2. mine' \in [Requests -> Nat]
      BY <2>1 DEF Return, Numbered
    <2> QED
      BY <2>1, <2>2 DEF Numbered
  <1>9. ASSUME NEW r \in Requests, Creates(r) PROVE Numbered'
    BY <1>1, <1>2, <1>4, <1>5, <1>9 DEF Creates, Upload, Cleanup, InsertRefused, DeleteFiles, product
  <1>10. ASSUME NEW r \in Requests, Deletes(r) PROVE Numbered'
    BY <1>1, <1>2, <1>10 DEF Deletes, StartDelete, DeleteListing, DeleteEntries, product
  <1>11. ASSUME NEW r \in Requests, Changes(r) PROVE Numbered'
    BY <1>1, <1>2, <1>6, <1>7, <1>8, <1>11
    DEF Changes, StartSave, StartUnsave, StartChange, Begin, Conflict, product
  <1> QED
    BY <1>1, <1>2, <1>9, <1>10, <1>11 DEF Next, Abort, Touch, vars, product, local

-----------------------------------------------------------------------------
(* Catalogue implements Wishlist: a transaction takes effect when it commits. *)

Abstract == [Counts!Next]_<<listing, wishes, totals>>

LEMMA NothingAbstract ==
  ASSUME UNCHANGED <<listing, entries, count>>
  PROVE  Abstract
  BY DEF Abstract, wishes, totals, Watchers

LEMMA InsertIsAbstract ==
  ASSUME Types, Wishes, NEW r \in Requests, NEW p \in Products, Insert(r, p)
  PROVE  Abstract
  <1>1. /\ listing[p] = "new" /\ listing' = [listing EXCEPT ![p] = "listed"]
        /\ UNCHANGED <<count, entries>>
    BY DEF Insert
  <1>2. Watchers(p) = {} /\ count[p] = 0
    BY <1>1, FS_EmptySet DEF Wishes, Counted
  <1>3. \A q : Watchers(q)' = Watchers(q)
    BY <1>1 DEF Watchers
  <1>4. \A q \in Products : listing'[q] = IF q = p THEN "listed" ELSE listing[q]
    BY <1>1 DEF Types, SharedTypes
  <1>5. wishes' = wishes /\ totals' = totals
    BY <1>1, <1>2, <1>3, <1>4 DEF wishes, totals
  <1> QED
    BY <1>1, <1>5 DEF Abstract, Counts!Next, Counts!List

LEMMA DeletionIsAbstract ==
  ASSUME Types, Jobs, Wishes, NEW r \in Requests, DeleteListing(r) \/ DeleteEntries(r)
  PROVE  Abstract
  <1>0. on[r] \in Products /\ listing[on[r]] # "new"
    BY DEF DeleteListing, DeleteEntries, At, Jobs, JobOf, Deletion
  <1> PICK p \in Products : p = on[r]
    BY <1>0
  <1>1. CASE DeleteListing(r)
    <2>1. /\ listing' = [listing EXCEPT ![p] = "deleted"] /\ UNCHANGED <<count, entries>>
      BY <1>1 DEF DeleteListing
    <2>2. \A q \in Products : listing'[q] = IF q = p THEN "deleted" ELSE listing[q]
      BY <2>1 DEF Types, SharedTypes
    <2>3. \A q : Watchers(q)' = Watchers(q)
      BY <2>1 DEF Watchers
    <2>4. /\ wishes' = [wishes EXCEPT ![p] = {}]
          /\ totals' = [totals EXCEPT ![p] = 0]
      <3>1. \A q \in Products : wishes'[q] = IF q = p THEN {} ELSE wishes[q]
        BY <2>2, <2>3 DEF wishes
      <3>2. \A q \in Products : totals'[q] = IF q = p THEN 0 ELSE totals[q]
        BY <2>1, <2>2 DEF totals
      <3>3. /\ wishes = [q \in Products |-> wishes[q]]
            /\ wishes' = [q \in Products |-> wishes'[q]]
        BY DEF wishes
      <3>4. /\ totals = [q \in Products |-> totals[q]]
            /\ totals' = [q \in Products |-> totals'[q]]
        BY DEF totals
      <3>5. wishes' = [wishes EXCEPT ![p] = {}]
        BY <3>1, <3>3
      <3>6. totals' = [totals EXCEPT ![p] = 0]
        BY <3>2, <3>4
      <3> QED
        BY <3>5, <3>6
    <2>5. CASE listing[p] = "listed"
      BY <2>1, <2>4, <2>5 DEF Abstract, Counts!Next, Counts!Withdraw
    <2>6. CASE listing[p] = "deleted"
      <3>1. listing' = listing
        BY <2>1, <2>6 DEF Types, SharedTypes
      <3> QED
        BY <2>1, <3>1, NothingAbstract
    <2> QED
      BY <1>0, <2>5, <2>6 DEF Types, SharedTypes
  <1>2. CASE DeleteEntries(r)
    <2>1. /\ listing[p] = "deleted" /\ UNCHANGED <<listing, count>>
          /\ entries' = {e \in entries : e[2] # p}
      BY <1>2 DEF DeleteEntries, At, Wishes, Clears, product
    <2>2. \A q \in Products : q # p => Watchers(q)' = Watchers(q)
      BY <2>1 DEF Watchers
    <2>3. ASSUME NEW q \in Products
          PROVE  /\ listing'[q] = listing[q]
                 /\ listing[q] = "listed" => Watchers(q)' = Watchers(q)
      BY <2>1, <2>2
    <2>4. wishes' = wishes
      BY <2>3 DEF wishes
    <2>5. totals' = totals
      BY <2>1 DEF totals
    <2> QED
      BY <2>1, <2>4, <2>5 DEF Abstract
  <1> QED
    BY <1>1, <1>2

LEMMA CommitIsAbstract ==
  ASSUME Types, Jobs, Wishes, Finite, Numbered, NEW r \in Requests, Commit(r)
  PROVE  Abstract
  <1>0. on[r] \in Products
    BY DEF Commit, At, Jobs, JobOf, Change
  <1> PICK p \in Products : p = on[r]
    BY <1>0
  <1>1. /\ listing[p] = "listed" /\ found[r] = Watchers(p) /\ who[r] \in Users
        /\ mine[r] = Cardinality(After(r)) /\ Watchers(p)' = After(r)
        /\ \A q \in Products : q # p => Watchers(q)' = Watchers(q)
    BY CommitWatchers
  <1>2. count' = [count EXCEPT ![p] = mine[r]] /\ listing' = listing
    BY DEF Commit
  <1>3. /\ count \in [Products -> Nat] /\ count[p] = Cardinality(Watchers(p))
        /\ IsFiniteSet(Watchers(p))
    BY <1>1 DEF Wishes, Counted, Finite, Numbered
  <1>4. /\ wishes' = [wishes EXCEPT ![p] = After(r)]
        /\ totals' = [totals EXCEPT ![p] = mine[r]]
    BY <1>1, <1>2, <1>3 DEF wishes, totals
  <1>5. wishes[p] = Watchers(p) /\ totals[p] = count[p]
    BY <1>1 DEF wishes, totals
  <1>6. CASE After(r) = Watchers(p)
    <2>1. count' = count
      BY <1>1, <1>2, <1>3, <1>6
    <2>2. \A q \in Products : Watchers(q)' = Watchers(q)
      BY <1>1, <1>6
    <2>3. wishes' = wishes
      BY <1>2, <2>2 DEF wishes
    <2>4. totals' = totals
      BY <1>2, <2>1 DEF totals
    <2> QED
      BY <1>2, <2>3, <2>4 DEF Abstract
  <1>7. CASE saves[r] /\ who[r] \notin Watchers(p)
    <2>1. After(r) = Watchers(p) \cup {who[r]}
      BY <1>1, <1>7 DEF After
    <2>2. Cardinality(Watchers(p) \cup {who[r]}) = Cardinality(Watchers(p)) + 1
      BY <1>3, <1>7, FS_AddElement
    <2>3. mine[r] = count[p] + 1
      BY <1>1, <1>3, <2>1, <2>2
    <2>4. Counts!Save(who[r], p)
      BY <1>1, <1>2, <1>4, <1>5, <1>7, <2>1, <2>3 DEF Counts!Save
    <2> QED
      BY <1>1, <2>4 DEF Abstract, Counts!Next
  <1>8. CASE ~saves[r] /\ who[r] \in Watchers(p)
    <2>1. After(r) = Watchers(p) \ {who[r]}
      BY <1>1, <1>8 DEF After
    <2>2. Cardinality(Watchers(p) \ {who[r]}) = Cardinality(Watchers(p)) - 1
      BY <1>3, <1>8, FS_RemoveElement
    <2>3. mine[r] = count[p] - 1
      BY <1>1, <1>3, <2>1, <2>2
    <2>4. Counts!Unsave(who[r], p)
      BY <1>1, <1>2, <1>4, <1>5, <1>8, <2>1, <2>3 DEF Counts!Unsave
    <2> QED
      BY <1>1, <2>4 DEF Abstract, Counts!Next
  <1> QED
    BY <1>1, <1>6, <1>7, <1>8 DEF After

LEMMA AbstractStep ==
  ASSUME Types, Jobs, Wishes, Finite, Numbered, [Next]_vars
  PROVE  Abstract
  <1>1. ASSUME NEW r \in Requests, Creates(r) PROVE Abstract
    BY <1>1, InsertIsAbstract, NothingAbstract
    DEF Creates, StartCreate, Upload, Cleanup, InsertRefused, DeleteFiles, product
  <1>2. ASSUME NEW r \in Requests, Deletes(r) PROVE Abstract
    BY <1>2, DeletionIsAbstract, NothingAbstract DEF Deletes, StartDelete, product
  <1>3. ASSUME NEW r \in Requests, Changes(r) PROVE Abstract
    BY <1>3, CommitIsAbstract, NothingAbstract
    DEF Changes, StartSave, StartUnsave, StartChange, Begin, Write, Conflict, Publish, product
  <1> QED
    BY <1>1, <1>2, <1>3, NothingAbstract DEF Next, Abort, Touch, vars, product

-----------------------------------------------------------------------------
(* The theorems *)

(* The inductive invariant holds in every behaviour. *)
THEOREM Invariance == Spec => []IInv
  BY Initial, Inductive, PTL DEF Spec

FullTypes == RestTypes /\ Finite /\ Numbered

LEMMA TypesKept == Spec => []FullTypes
  <1>1. Init => FullTypes
    <2> SUFFICES ASSUME Init PROVE RestTypes /\ Finite /\ Numbered
      BY DEF FullTypes
    <2>1. RestTypes /\ Numbered
      BY BoundAssumption DEF Init, RestTypes, Numbered
    <2>2. Finite
      BY FS_EmptySet DEF Init, Finite, Watchers
    <2> QED
      BY <2>1, <2>2
  <1>2. IInv /\ FullTypes /\ [Next]_vars => FullTypes'
    BY RestKept, FiniteKept, NumberedKept DEF IInv, FullTypes
  <1> QED
    BY Invariance, <1>1, <1>2, PTL DEF Spec

(* Every variable has its type: there is a highest orderId to count on from, and *)
(* a listing is saved by finitely many, whatever the number of users.            *)
THEOREM Typing == Spec => []TypeOK
  <1>1. IInv /\ FullTypes => TypeOK
    BY DEF IInv, FullTypes, Types, LocalTypes, SharedTypes, RestTypes, Numbered, TypeOK
  <1> QED
    BY Invariance, TypesKept, <1>1, PTL

(* wishlistCount is the number of users who saved the listing, however many    *)
(* transactions, edits and deletions overlap and however often one is repeated. *)
THEOREM CountsAreRight == Spec => []CountMatches
  <1>1. IInv => CountMatches
    BY DEF IInv, Wishes, Counted, CountMatches, Listed
  <1>2. QED
    BY <1>1, Invariance, PTL

(* Changes of wishlists are atomic, though each is a transaction of several calls *)
(* which others conflict with and which may be repeated: Catalogue implements     *)
(* Wishlist.                                                                      *)
THEOREM ChangesTakeEffectAtOnce == Spec => ChangesAreAtomic
  <1>1. Init => Counts!Init
    BY DEF Init, Counts!Init, wishes, totals
  <1>2. IInv /\ FullTypes /\ [Next]_vars => [Counts!Next]_<<listing, wishes, totals>>
    BY AbstractStep DEF IInv, FullTypes, Abstract
  <1> QED
    BY Invariance, TypesKept, <1>1, <1>2, PTL DEF Spec, ChangesAreAtomic, Counts!Spec

(* A deletion that runs to its end leaves no entry, not even of a user who *)
(* saved the listing meanwhile.                                            *)
THEOREM EntriesGo == Spec => []NoOrphans
  <1>1. IInv => NoOrphans
    BY DEF IInv, Cleared, NoOrphans, Deleting
  <1>2. QED
    BY <1>1, Invariance, PTL

(* The pictures of a listing stay until its own deletion takes them. *)
THEOREM PicturesAreKept == Spec => []PicturesStay
  <1>1. IInv => PicturesStay
    BY DEF IInv, Pictured, Stay, PicturesStay, Listed, Deleting
  <1>2. QED
    BY <1>1, Invariance, PTL

(* The clients are told the count the listing has, once all is announced, *)
(* unless two changes were announced at once or a handler died.           *)
THEOREM CountIsTold == Spec => []ShownIsCount
  <1>1. IInv => ShownIsCount
    BY DEF IInv, Announced, ShownIsCount, Listed
  <1>2. QED
    BY <1>1, Invariance, PTL

=============================================================================
