---------------------------- MODULE ProductCache ----------------------------
(***************************************************************************)
(* The cache in front of the listings (TTLCache), the requests that read   *)
(* through it and the writes that invalidate it.                           *)
(*                                                                         *)
(*   getOrSet, get, set       Hit, Join, Miss, Query .. Settle             *)
(*   flushPrefix and callers  Commit, Flush, Forget                        *)
(*                                                                         *)
(* A key is a page of the feed (products:list:<query>) or the details of a *)
(* listing (products:detail:<id>, here the listing itself).  A value is    *)
(* what the database said of each listing when the loader asked: the       *)
(* number of writes to it so far.  Only what it says of the listings the   *)
(* key is about counts.  Which entry goes when the cache is full is left   *)
(* open (the code drops the one read longest ago).                         *)
(***************************************************************************)
EXTENDS Naturals, FiniteSets

CONSTANTS
  Products,   \* listings
  Lists,      \* pages of the feed: queries with their viewer
  Requests,   \* slots for requests that read
  Writers,    \* slots for requests that write
  Kinds,      \* what writers do, see KindAssumption
  MaxEntries, \* maxEntries
  ListTtl, DetailTtl, \* PRODUCT_LIST_CACHE_TTL_MS, PRODUCT_DETAIL_CACHE_TTL_MS in ticks
  MaxVersion, \* bound on the writes to a listing
  None        \* an unset field

AllKinds ==
  { "update",      \* a change of the listing: status, fields, wishlist count
    "delete",      \* the seller or an admin deletes the listing
    "issueDelete", \* resolveIssue deletes it
    "profile" }    \* the seller's profile changes, which every value quotes

ASSUME KindAssumption  == Kinds \subseteq AllKinds
ASSUME BoundAssumption == /\ MaxEntries \in Nat \ {0} /\ MaxVersion \in Nat
                          /\ ListTtl \in Nat /\ DetailTtl \in Nat
ASSUME NoneAssumption  == None \notin Products \cup Requests \cup AllKinds
ASSUME KeyAssumption   == Products \cap Lists = {}

VARIABLES
  db,         \* how often each listing was written
  gone,       \* listings that were deleted,
  byIssue,    \*   and those of them that resolveIssue deleted
  held,       \* the keys in store,
  value,      \*   their values
  age,        \*   and how long ago they were set
  generation, \* generation
  pending,    \* pending: the request whose load of the key is in flight
  at,         \* a request: what it does next,
  key,        \*   the key it reads,
  leader,     \*   the request whose load it awaits,
  gen,        \*   generation as its own load began
  got,        \*   and the value that came
  floor,      \*   what an up-to-date answer says at least (see Arrive)
  write,      \* a writer: what it committed and has not announced yet,
  target,     \*   and the listing
  lost        \* keys owed an invalidation by a writer that failed

database == <<db, gone, byIssue>>
store    == <<held, value, age>>
reader   == <<at, key, leader, gen, got, floor>>
writer   == <<write, target, lost>>
vars     == <<database, store, generation, pending, reader, writer>>

-----------------------------------------------------------------------------
Keys == Lists \cup Products
About(k) == IF k \in Lists THEN Products ELSE {k}
Ttl(k) == IF k \in Lists THEN ListTtl ELSE DetailTtl

Versions == [Products -> 0..MaxVersion]
Nothing == [p \in Products |-> 0]

Fresh(k) == k \in held /\ age[k] <= Ttl(k)

Touches(w) ==
  CASE write[w] = None      -> {}
    [] write[w] = "profile" -> Products
    [] OTHER                -> {target[w]}
Writing(p) == \E w \in Writers : p \in Touches(w)

Init ==
  /\ db = Nothing
  /\ gone = {}
  /\ byIssue = {}
  /\ held = {}
  /\ value = [k \in Keys |-> Nothing]
  /\ age = [k \in Keys |-> 0]
  /\ generation = 0
  /\ pending = [k \in Keys |-> None]
  /\ at = [r \in Requests |-> "idle"]
  /\ key = [r \in Requests |-> None]
  /\ leader = [r \in Requests |-> None]
  /\ gen = [r \in Requests |-> 0]
  /\ got = [r \in Requests |-> Nothing]
  /\ floor = [r \in Requests |-> Nothing]
  /\ write = [w \in Writers |-> None]
  /\ target = [w \in Writers |-> None]
  /\ lost = {}

-----------------------------------------------------------------------------
(* The store *)

\* The entries in ks, and nothing else, stay.
Keep(ks) ==
  /\ held' = held \cap ks
  /\ value' = [k \in Keys |-> IF k \in ks THEN value[k] ELSE Nothing]
  /\ age' = [k \in Keys |-> IF k \in ks THEN age[k] ELSE 0]

\* What stays beside a new entry for k: nothing that expired, and at the bound
\* one entry less, for set() never finds more than the bound.
Room(k) ==
  LET live == {j \in held : age[j] <= Ttl(j)} \ {k} IN
  IF Cardinality(live) < MaxEntries THEN {live} ELSE {live \ {j} : j \in live}

\* set()
Put(k, v) ==
  \E kept \in Room(k) :
    /\ held' = kept \cup {k}
    /\ value' = [j \in Keys |-> IF j = k THEN v ELSE IF j \in kept THEN value[j] ELSE Nothing]
    /\ age' = [j \in Keys |-> IF j # k /\ j \in kept THEN age[j] ELSE 0]

\* Time passes; an expired entry stays until it is looked at.
Tick ==
  /\ \E k \in Keys : Fresh(k)
  /\ age' = [k \in Keys |-> IF Fresh(k) THEN age[k] + 1 ELSE age[k]]
  /\ UNCHANGED <<database, held, value, generation, pending, reader, writer>>

-----------------------------------------------------------------------------
(* getOrSet *)

\* r asks for k.  Of every listing nobody is writing, an up-to-date answer
\* says at least what the database says now, if k is owed no invalidation.
Arrive(r, k) ==
  /\ at[r] = "idle"
  /\ key' = [key EXCEPT ![r] = k]
  /\ floor' = [floor EXCEPT ![r] =
       [p \in Products |-> IF /\ p \in About(k) /\ ~Writing(p)
                             /\ k \notin lost \cup byIssue
                           THEN db[p] ELSE 0]]
  /\ UNCHANGED <<database, generation, writer>>

\* Mutant: a hit also renews the entry.
HitRenews(r, k) ==
  /\ Fresh(k)
  /\ Arrive(r, k)
  /\ at' = [at EXCEPT ![r] = "answered"]
  /\ got' = [got EXCEPT ![r] = value[k]]
  /\ age' = [age EXCEPT ![k] = 0]
  /\ UNCHANGED <<held, value, pending, leader, gen>>

Hit(r, k) ==
  /\ Fresh(k)
  /\ Arrive(r, k)
  /\ at' = [at EXCEPT ![r] = "answered"]
  /\ got' = [got EXCEPT ![r] = value[k]]
  /\ UNCHANGED <<store, pending, leader, gen>>

\* An expired entry is deleted; a load in flight is shared.
Join(r, k) ==
  /\ ~Fresh(k)
  /\ pending[k] # None
  /\ Arrive(r, k)
  /\ at' = [at EXCEPT ![r] = "waiting"]
  /\ leader' = [leader EXCEPT ![r] = pending[k]]
  /\ Keep(Keys \ {k})
  /\ UNCHANGED <<pending, gen, got>>

Miss(r, k) ==
  /\ ~Fresh(k)
  /\ pending[k] = None
  /\ Arrive(r, k)
  /\ at' = [at EXCEPT ![r] = "loading"]
  /\ leader' = [leader EXCEPT ![r] = r]
  /\ gen' = [gen EXCEPT ![r] = generation]
  /\ pending' = [pending EXCEPT ![k] = r]
  /\ Keep(Keys \ {k})
  /\ UNCHANGED got

\* The loader's query; the details of a deleted listing are not found.
Query(r) ==
  /\ at[r] = "loading"
  /\ IF key[r] \in gone
     THEN at' = [at EXCEPT ![r] = "rejected"] /\ UNCHANGED got
     ELSE at' = [at EXCEPT ![r] = "loaded"] /\ got' = [got EXCEPT ![r] = db]
  /\ UNCHANGED <<database, store, generation, pending, key, leader, gen, floor, writer>>

QueryThrows(r) ==
  /\ at[r] = "loading"
  /\ at' = [at EXCEPT ![r] = "rejected"]
  /\ UNCHANGED <<database, store, generation, pending, key, leader, gen, got, floor, writer>>

\* Mutant: the generation is not looked at.
StoreAnyway(r) ==
  /\ at[r] = "loaded"
  /\ at' = [at EXCEPT ![r] = "settling"]
  /\ Put(key[r], got[r])
  /\ UNCHANGED <<database, generation, pending, key, leader, gen, got, floor, writer>>

\* then(): the value is kept unless the cache was invalidated meanwhile.
Store(r) ==
  /\ at[r] = "loaded"
  /\ at' = [at EXCEPT ![r] = "settling"]
  /\ IF gen[r] = generation THEN Put(key[r], got[r]) ELSE UNCHANGED store
  /\ UNCHANGED <<database, generation, pending, key, leader, gen, got, floor, writer>>

\* Every request that awaits r's load has its answer, or fails if there is none.
Awaits(q, r) == leader[q] = r
AnswerAll(r) ==
  /\ at' = [q \in Requests |-> IF ~Awaits(q, r) THEN at[q]
                               ELSE IF at[r] = "settling" THEN "answered" ELSE "failed"]
  /\ got' = [q \in Requests |-> IF Awaits(q, r) THEN got[r] ELSE got[q]]
  /\ leader' = [q \in Requests |-> IF Awaits(q, r) THEN None ELSE leader[q]]
  /\ UNCHANGED <<key, gen, floor>>

\* finally()
Settle(r) ==
  /\ at[r] \in {"settling", "rejected"}
  /\ pending' = [pending EXCEPT ![key[r]] = IF @ = r THEN None ELSE @]
  /\ AnswerAll(r)
  /\ UNCHANGED <<database, store, generation, writer>>

\* The response is sent.
Leave(r) ==
  /\ at[r] \in {"answered", "failed"}
  /\ at' = [at EXCEPT ![r] = "idle"]
  /\ key' = [key EXCEPT ![r] = None]
  /\ gen' = [gen EXCEPT ![r] = 0]
  /\ got' = [got EXCEPT ![r] = Nothing]
  /\ floor' = [floor EXCEPT ![r] = Nothing]
  /\ UNCHANGED <<leader, database, store, generation, pending, writer>>

-----------------------------------------------------------------------------
(* Writes *)

\* A write commits.  The cache hears of it when the handler runs again.
Commit(w, kind, p) ==
  LET touched == IF kind = "profile" THEN Products ELSE {p} IN
  /\ write[w] = None
  /\ p \notin gone
  /\ \A q \in touched : db[q] < MaxVersion
  /\ write' = [write EXCEPT ![w] = kind]
  /\ target' = [target EXCEPT ![w] = p]
  /\ db' = [q \in Products |-> IF q \in touched THEN db[q] + 1 ELSE db[q]]
  /\ gone' = IF kind \in {"delete", "issueDelete"} THEN gone \cup {p} ELSE gone
  /\ byIssue' = IF kind = "issueDelete" THEN byIssue \cup {p} ELSE byIssue
  /\ UNCHANGED <<store, generation, pending, reader, lost>>

Done(w) ==
  /\ write' = [write EXCEPT ![w] = None]
  /\ target' = [target EXCEPT ![w] = None]

\* invalidateProductCaches, invalidateAllProductCaches, and the feed alone
\* where an issue's listing was deleted.
Invalidated(w) ==
  Lists \cup CASE write[w] = "profile"     -> Products
               [] write[w] = "issueDelete" -> {}
               [] OTHER                    -> {target[w]}

\* Mutant: loads in flight go on being shared.
FlushStore(w) ==
  /\ write[w] # None
  /\ generation' = generation + 1
  /\ Keep(Keys \ Invalidated(w))
  /\ lost' = lost \ Invalidated(w)
  /\ Done(w)
  /\ UNCHANGED <<database, pending, reader>>

\* flushPrefix: entries and loads in flight go, and no load begun before is kept.
Flush(w) ==
  /\ write[w] # None
  /\ generation' = generation + 1
  /\ Keep(Keys \ Invalidated(w))
  /\ pending' = [k \in Keys |-> IF k \in Invalidated(w) THEN None ELSE pending[k]]
  /\ lost' = lost \ Invalidated(w)
  /\ Done(w)
  /\ UNCHANGED <<database, reader>>

\* The answer of the database is lost, or a later step of the handler throws.
Forget(w) ==
  /\ write[w] # None
  /\ lost' = lost \cup {k \in Keys : About(k) \cap Touches(w) # {}}
  /\ Done(w)
  /\ UNCHANGED <<database, store, generation, pending, reader>>

-----------------------------------------------------------------------------
Next ==
  \/ Tick
  \/ \E r \in Requests :
       \/ \E k \in Keys : Hit(r, k) \/ Join(r, k) \/ Miss(r, k)
       \/ Query(r) \/ QueryThrows(r) \/ Store(r) \/ Settle(r) \/ Leave(r)
  \/ \E w \in Writers :
       \/ \E kind \in Kinds, p \in Products : Commit(w, kind, p)
       \/ Flush(w) \/ Forget(w)

Spec == Init /\ [][Next]_vars

\* Nothing is asked of requests and writers, only that time passes.
FairSpec == Spec /\ WF_vars(Tick)

-----------------------------------------------------------------------------
(* Properties *)

TypeOK ==
  /\ db \in Versions
  /\ gone \subseteq Products
  /\ byIssue \subseteq gone
  /\ held \subseteq Keys
  /\ value \in [Keys -> Versions]
  /\ age \in [Keys -> Nat]
  /\ generation \in Nat
  /\ pending \in [Keys -> Requests \cup {None}]
  /\ at \in [Requests -> {"idle", "loading", "loaded", "settling", "rejected",
                          "waiting", "answered", "failed"}]
  /\ key \in [Requests -> Keys \cup {None}]
  /\ leader \in [Requests -> Requests \cup {None}]
  /\ gen \in [Requests -> Nat]
  /\ got \in [Requests -> Versions]
  /\ floor \in [Requests -> Versions]
  /\ write \in [Writers -> Kinds \cup {None}]
  /\ target \in [Writers -> Products \cup {None}]
  /\ lost \subseteq Keys

\* An entry says what the database says of every listing nobody is writing,
\* however loads and writes interleave, unless a writer failed before it
\* announced its write (or an issue deleted the listing, see Synchronized).
UpToDate(k, v) == \A p \in About(k) : v[p] = db[p] \/ Writing(p)
Coherent == \A k \in held \ (lost \cup byIssue) : UpToDate(k, value[k])

\* The same for deletion by an issue, which "clears the product cache".
Synchronized == \A k \in held \ lost : UpToDate(k, value[k])

\* A request is never answered with less than what was written and announced
\* before it came, also when it shares the load of an earlier request.
FreshAnswer ==
  \A r \in Requests :
    at[r] = "answered" => \A p \in Products : got[r][p] >= floor[r][p]

\* A burst of requests costs one load: two loads of one key are in flight only
\* if the cache was invalidated between them.
InFlight(r) == at[r] \in {"loading", "loaded", "settling", "rejected"}
Coalesced ==
  \A r, s \in Requests :
    r # s /\ InFlight(r) /\ InFlight(s) /\ key[r] = key[s] => gen[r] # gen[s]

\* The cache never holds more than its bound.
SizeBound == Cardinality(held) <= MaxEntries

\* What the cache missed it serves for a while only: in the end every entry it
\* would serve agrees with the database.
StaleEnds == <>[](\A k \in Keys : Fresh(k) => \A p \in About(k) : value[k][p] = db[p])
=============================================================================
