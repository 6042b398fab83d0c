------------------------------- MODULE Catalogue -------------------------------
(***************************************************************************)
(* Listings, the pictures they show and the users who saved them.          *)
(*                                                                         *)
(*   createProductToDB     StartCreate .. Insert                           *)
(*   deleteProductFromDB, resolveIssue (delete)                            *)
(*                         StartDelete .. DeleteEntries                    *)
(*   addToWishlist, removeFromWishlist                                     *)
(*                         StartSave, StartUnsave, Begin .. Publish        *)
(*                                                                         *)
(* A change of a wishlist is a transaction: it reads a snapshot, its write *)
(* of the listing fails when the listing was written since, by another     *)
(* transaction or otherwise, and withTransaction runs it again.  A write   *)
(* outside a transaction waits for one that wrote the listing.             *)
(*                                                                         *)
(* Who may create and delete is AccountStanding's and StripeAccounts'      *)
(* matter; the status of a listing is OrderPayment's and OrderFulfilment's.*)
(***************************************************************************)
EXTENDS Naturals, FiniteSets

CONSTANTS
  Users,     \* users with a wishlist
  Products,  \* listings, each made at most once
  Files,     \* objects in the bucket, each with a name of its own
  Requests,  \* slots for handlers in flight
  Pictures,  \* bound on the pictures of a listing
  MaxFaults, \* bound on handlers that die half way
  None       \* an unset field

ASSUME BoundAssumption == Pictures \in Nat /\ MaxFaults \in Nat
ASSUME NoneAssumption  == None \notin Products \cup Users

VARIABLES
  listing,  \* what became of each listing
  number,   \* its orderId
  pictures, \* its images and proofOfPurchase
  count,    \* its wishlistCount
  entries,  \* the wishlist: <<user, listing>>
  stored,   \* files in the bucket
  uploaded, \* files that were ever put there
  shown,    \* the count the clients were told last
  crossed,  \* history: listings two changes of whose wishlist were announced at once
  cut,      \* history: listings with a handler that failed half way
  faults,   \* handlers that died half way so far
  at,       \* the handler in each slot: the step it takes next,
  on,       \*   the listing it is about,
  who,      \*   the user whose wishlist changes, and
  saves,    \*   whether the listing is saved,
  found,    \*   the users who had it when it began,
  stale,    \*   whether the listing was written since,
  mine,     \*   the number or count it took,
  files     \*   and the files it has at hand

product == <<listing, number, pictures, count>>
bucket  == <<stored, uploaded>>
history == <<crossed, cut>>
wish    == <<who, saves, found>>
local   == <<at, on, wish, stale, mine, files>>
vars    == <<product, entries, bucket, shown, history, faults, local>>

Steps == {"idle", "upload", "cleanup", "insert"} \cup
         {"deleteFiles", "deleteListing", "deleteEntries"} \cup
         {"begin", "write", "commit", "publish"}

Init ==
  /\ listing = [p \in Products |-> "new"]
  /\ number = [p \in Products |-> 0]
  /\ pictures = [p \in Products |-> {}]
  /\ count = [p \in Products |-> 0]
  /\ entries = {}
  /\ stored = {}
  /\ uploaded = {}
  /\ shown = [p \in Products |-> 0]
  /\ crossed = {}
  /\ cut = {}
  /\ faults = 0
  /\ at = [r \in Requests |-> "idle"]
  /\ on = [r \in Requests |-> None]
  /\ who = [r \in Requests |-> None]
  /\ saves = [r \in Requests |-> FALSE]
  /\ found = [r \in Requests |-> {}]
  /\ stale = [r \in Requests |-> FALSE]
  /\ mine = [r \in Requests |-> 0]
  /\ files = [r \in Requests |-> {}]

-----------------------------------------------------------------------------

Listed == {p \in Products : listing[p] = "listed"}
Watchers(p) == {u \in Users : <<u, p>> \in entries}

At(r, step) == at[r] = step
Goto(r, step) == at' = [at EXCEPT ![r] = step]
Return(r) ==
  /\ Goto(r, "idle")
  /\ on' = [on EXCEPT ![r] = None]
  /\ who' = [who EXCEPT ![r] = None]
  /\ saves' = [saves EXCEPT ![r] = FALSE]
  /\ found' = [found EXCEPT ![r] = {}]
  /\ mine' = [mine EXCEPT ![r] = 0]
  /\ files' = [files EXCEPT ![r] = {}]

\* A transaction that wrote the listing holds it until it commits.
Held(p) == \E r \in Requests : At(r, "commit") /\ on[r] = p
\* The listing was written: a transaction that began before will not write it.
Spoil(p) == stale' = [r \in Requests |-> At(r, "write") /\ (stale[r] \/ on[r] = p)]

-----------------------------------------------------------------------------
(* createProductToDB *)

\* orderId is one more than the highest, or 1000 (here 0) for the first listing.
StartCreate(r) ==
  /\ At(r, "idle")
  /\ Goto(r, "upload")
  /\ mine' = [mine EXCEPT ![r] =
       IF Listed = {} THEN 0
       ELSE 1 + CHOOSE n \in {number[p] : p \in Listed} : \A p \in Listed : number[p] <= n]
  /\ UNCHANGED <<product, entries, bucket, shown, history, faults, on, wish, stale, files>>

\* Mutant: the listing is made of what could be uploaded.
UploadSome(r, all, done) ==
  /\ At(r, "upload")
  /\ all \cap uploaded = {}
  /\ stored' = stored \cup done
  /\ uploaded' = uploaded \cup all
  /\ files' = [files EXCEPT ![r] = all]
  /\ Goto(r, "insert")
  /\ UNCHANGED <<product, entries, shown, history, faults, on, wish, stale, mine>>

\* All uploads settle before one that failed (all # done) counts.
Upload(r, all, done) ==
  /\ At(r, "upload")
  /\ all \cap uploaded = {}
  /\ stored' = stored \cup done
  /\ uploaded' = uploaded \cup all
  /\ files' = [files EXCEPT ![r] = done]
  /\ Goto(r, IF done = all THEN "insert" ELSE "cleanup")
  /\ UNCHANGED <<product, entries, shown, history, faults, on, wish, stale, mine>>

\* What was uploaded is taken back; a file (in left) that cannot be deleted stays.
Cleanup(r, left) ==
  /\ At(r, "cleanup")
  /\ stored' = stored \ (files[r] \ left)
  /\ Return(r)
  /\ UNCHANGED <<product, entries, uploaded, shown, history, faults, stale>>

NumberTaken(n) == \E p \in Listed : number[p] = n

Insert(r, p) ==
  /\ At(r, "insert")
  /\ ~NumberTaken(mine[r])
  /\ listing[p] = "new"
  /\ listing' = [listing EXCEPT ![p] = "listed"]
  /\ number' = [number EXCEPT ![p] = mine[r]]
  /\ pictures' = [pictures EXCEPT ![p] = files[r]]
  /\ Return(r)
  /\ UNCHANGED <<count, entries, bucket, shown, history, faults, stale>>

\* The index on orderId refuses the second of two creations that read the same
\* highest number: it fails, and leaves its files where they are.
InsertRefused(r) ==
  /\ At(r, "insert")
  /\ NumberTaken(mine[r])
  /\ Return(r)
  /\ UNCHANGED <<product, entries, bucket, shown, history, faults, stale>>

-----------------------------------------------------------------------------
(* deleteProductFromDB, and resolveIssue with "delete" *)

StartDelete(r, p) ==
  /\ At(r, "idle")
  /\ p \in Listed
  /\ Goto(r, "deleteFiles")
  /\ on' = [on EXCEPT ![r] = p]
  /\ files' = [files EXCEPT ![r] = pictures[p]]
  /\ UNCHANGED <<product, entries, bucket, shown, history, faults, wish, stale, mine>>

\* Mutant: the listing goes once its files are gone, and its entries are not looked for.
DeleteListingOnly(r) ==
  /\ At(r, "deleteListing")
  /\ ~Held(on[r])
  /\ listing' = [listing EXCEPT ![on[r]] = "deleted"]
  /\ Spoil(on[r])
  /\ Return(r)
  /\ UNCHANGED <<number, pictures, count, entries, bucket, shown, history, faults>>

\* When a file (in left) cannot be deleted the listing stays without the others.
DeleteFiles(r, left) ==
  /\ At(r, "deleteFiles")
  /\ left \subseteq files[r]
  /\ stored' = stored \ (files[r] \ left)
  /\ IF left = {}
     THEN Goto(r, "deleteListing") /\ UNCHANGED <<cut, on, wish, mine, files>>
     ELSE Return(r) /\ cut' = cut \cup {on[r]}
  /\ UNCHANGED <<product, entries, uploaded, shown, crossed, faults, stale>>

DeleteListing(r) ==
  /\ At(r, "deleteListing")
  /\ ~Held(on[r])
  /\ listing' = [listing EXCEPT ![on[r]] = "deleted"]
  /\ Spoil(on[r])
  /\ Goto(r, "deleteEntries")
  /\ UNCHANGED <<number, pictures, count, entries, bucket, shown, history, faults, on, wish,
                 mine, files>>

DeleteEntries(r) ==
  /\ At(r, "deleteEntries")
  /\ entries' = {e \in entries : e[2] # on[r]}
  /\ Return(r)
  /\ UNCHANGED <<product, bucket, shown, history, faults, stale>>

-----------------------------------------------------------------------------
(* addToWishlist and removeFromWishlist *)

StartChange(r, u, p, save) ==
  /\ At(r, "idle")
  /\ Goto(r, "begin")
  /\ on' = [on EXCEPT ![r] = p]
  /\ who' = [who EXCEPT ![r] = u]
  /\ saves' = [saves EXCEPT ![r] = save]
  /\ UNCHANGED <<product, entries, bucket, shown, history, faults, found, stale, mine, files>>

StartSave(r, u, p) == listing[p] # "new" /\ StartChange(r, u, p, TRUE)
StartUnsave(r, u, p) == listing[p] # "new" /\ StartChange(r, u, p, FALSE)

\* The transaction's snapshot; the call fails when the listing, or the entry to
\* remove, is not there.
Begin(r) ==
  LET p == on[r] IN
  /\ At(r, "begin")
  /\ IF p \in Listed /\ (saves[r] \/ who[r] \in Watchers(p))
     THEN /\ Goto(r, "write")
          /\ found' = [found EXCEPT ![r] = Watchers(p)]
          /\ UNCHANGED <<on, who, saves, mine, files>>
     ELSE Return(r)
  /\ stale' = [stale EXCEPT ![r] = FALSE]
  /\ UNCHANGED <<product, entries, bucket, shown, history, faults>>

\* Mutant: the count is written without a transaction around it.
WriteAnyway(r) ==
  LET after == IF saves[r] THEN found[r] \cup {who[r]} ELSE found[r] \ {who[r]} IN
  /\ At(r, "write")
  /\ Goto(r, "commit")
  /\ mine' = [mine EXCEPT ![r] = Cardinality(after)]
  /\ UNCHANGED <<product, entries, bucket, shown, history, faults, on, wish, stale, files>>

\* The entry is made or removed, the entries counted as the transaction sees them,
\* and the count written to the listing: unless it was written since the snapshot,
\* or another transaction holds it.
Write(r) ==
  LET after == IF saves[r] THEN found[r] \cup {who[r]} ELSE found[r] \ {who[r]} IN
  /\ At(r, "write")
  /\ ~stale[r]
  /\ ~Held(on[r])
  /\ Goto(r, "commit")
  /\ mine' = [mine EXCEPT ![r] = Cardinality(after)]
  /\ UNCHANGED <<product, entries, bucket, shown, history, faults, on, wish, stale, files>>

\* A write conflict: withTransaction runs the callback again.
Conflict(r) ==
  /\ At(r, "write")
  /\ stale[r] \/ Held(on[r])
  /\ Goto(r, "begin")
  /\ found' = [found EXCEPT ![r] = {}]
  /\ stale' = [stale EXCEPT ![r] = FALSE]
  /\ UNCHANGED <<product, entries, bucket, shown, history, faults, on, who, saves, mine, files>>

\* Somebody else's change of the listing was committed and not announced yet.
Publishing(p) == \E r \in Requests : At(r, "publish") /\ on[r] = p

\* Saving what is saved announces nothing.
Commit(r) ==
  LET p == on[r] IN
  /\ At(r, "commit")
  /\ entries' = IF saves[r] THEN entries \cup {<<who[r], p>>} ELSE entries \ {<<who[r], p>>}
  /\ count' = [count EXCEPT ![p] = mine[r]]
  /\ Spoil(p)
  /\ IF ~saves[r] \/ who[r] \notin found[r] \/ count[p] # mine[r]
     THEN /\ Goto(r, "publish")
          /\ crossed' = IF Publishing(p) THEN crossed \cup {p} ELSE crossed
          /\ UNCHANGED <<on, wish, mine, files>>
     ELSE Return(r) /\ UNCHANGED crossed
  /\ UNCHANGED <<listing, number, pictures, bucket, shown, cut, faults>>

\* Mutant: the count as it was before the change is announced.
PublishFound(r) ==
  /\ At(r, "publish")
  /\ shown' = [shown EXCEPT ![on[r]] = Cardinality(found[r])]
  /\ Return(r)
  /\ UNCHANGED <<product, entries, bucket, history, faults, stale>>

\* publishProductWishlistCount, once the session has ended.
Publish(r) ==
  /\ At(r, "publish")
  /\ shown' = [shown EXCEPT ![on[r]] = mine[r]]
  /\ Return(r)
  /\ UNCHANGED <<product, entries, bucket, history, faults, stale>>

-----------------------------------------------------------------------------
(* Other writes of a listing, and faults *)

\* An order, a seller's edit or an issue writes another field of the listing.
Touch(p) ==
  /\ p \in Listed
  /\ ~Held(p)
  /\ \E r \in Requests : At(r, "write") /\ on[r] = p /\ ~stale[r]
  /\ Spoil(p)
  /\ UNCHANGED <<product, entries, bucket, shown, history, faults, at, on, wish, mine, files>>

\* A call rejects, or the process stops: a transaction is rolled back.
Abort(r) ==
  /\ ~At(r, "idle")
  /\ faults < MaxFaults
  /\ faults' = faults + 1
  /\ cut' = IF at[r] \in {"deleteListing", "deleteEntries", "publish"}
            THEN cut \cup {on[r]} ELSE cut
  /\ stale' = [stale EXCEPT ![r] = FALSE]
  /\ Return(r)
  /\ UNCHANGED <<product, entries, bucket, shown, crossed>>

Creates(r) ==
  \/ StartCreate(r)
  \/ \E all \in SUBSET Files :
       /\ Cardinality(all) \in 1 .. Pictures
       /\ \E done \in SUBSET all : Upload(r, all, done)
  \/ \E left \in SUBSET files[r] : Cleanup(r, left) \/ DeleteFiles(r, left)
  \/ \E p \in Products : Insert(r, p)
  \/ InsertRefused(r)
Deletes(r) ==
  \/ \E p \in Products : StartDelete(r, p)
  \/ DeleteListing(r)
  \/ DeleteEntries(r)
Changes(r) ==
  \/ \E u \in Users, p \in Products : StartSave(r, u, p) \/ StartUnsave(r, u, p)
  \/ Begin(r)
  \/ Write(r)
  \/ Conflict(r)
  \/ Commit(r)
  \/ Publish(r)

Next ==
  \/ \E r \in Requests : Creates(r) \/ Deletes(r) \/ Changes(r) \/ Abort(r)
  \/ \E p \in Products : Touch(p)

Spec == Init /\ [][Next]_vars

-----------------------------------------------------------------------------
(* Properties *)

\* Every variable has its type.
TypeOK ==
  /\ listing \in [Products -> {"new", "listed", "deleted"}]
  /\ number \in [Products -> Nat]
  /\ pictures \in [Products -> SUBSET Files]
  /\ count \in [Products -> Nat]
  /\ entries \subseteq Users \X Products
  /\ stored \subseteq uploaded
  /\ uploaded \subseteq Files
  /\ shown \in [Products -> Nat]
  /\ crossed \subseteq Products
  /\ cut \subseteq Products
  /\ faults \in 0 .. MaxFaults
  /\ at \in [Requests -> Steps]
  /\ on \in [Requests -> Products \cup {None}]
  /\ who \in [Requests -> Users \cup {None}]
  /\ saves \in [Requests -> BOOLEAN]
  /\ found \in [Requests -> SUBSET Users]
  /\ stale \in [Requests -> BOOLEAN]
  /\ mine \in [Requests -> Nat]
  /\ files \in [Requests -> SUBSET Files]

\* wishlistCount is the number of users who saved the listing, whoever else saves,
\* removes and edits at the same time and however often a transaction is repeated.
CountMatches == \A p \in Listed : count[p] = Cardinality(Watchers(p))

\* Transactions that overlap, conflict and are repeated implement Wishlist: each
\* takes effect at once, when it commits, and its recount is one more or one less.
wishes == [p \in Products |-> IF listing[p] = "listed" THEN Watchers(p) ELSE {}]
totals == [p \in Products |-> IF listing[p] = "listed" THEN count[p] ELSE 0]
Counts == INSTANCE Wishlist WITH wanted <- wishes, total <- totals
ChangesAreAtomic == Counts!Spec

Deleting(p) ==
  \E r \in Requests : at[r] \in {"deleteFiles", "deleteListing", "deleteEntries"} /\ on[r] = p

\* Nobody's wishlist keeps a listing that is gone: not even one that was saved
\* while it was deleted.  A deletion that stops half way (cut) leaves entries.
NoOrphans ==
  \A p \in Products : listing[p] = "deleted" /\ Watchers(p) # {} => Deleting(p) \/ p \in cut

\* The pictures of a listing are in the bucket, unless its deletion is under way or
\* failed: no other creation or deletion takes them away.
PicturesStay ==
  \A p \in Listed : pictures[p] \subseteq stored \/ Deleting(p) \/ p \in cut

\* The count the clients were told is the listing's once every change is announced;
\* unless two were announced at once: then the older may come last.
ShownIsCount ==
  \A p \in Listed \ (crossed \cup cut) : Publishing(p) \/ shown[p] = count[p]

=============================================================================
