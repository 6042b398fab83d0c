------------------------- MODULE ProductCacheProofs -------------------------
(***************************************************************************)
(* Proofs that the cache is coherent for any number of listings, pages,    *)
(* readers, writers and entries, and whatever the times to live are.       *)
(*                                                                         *)
(* The cache has two guards against a load that a write overtakes: the     *)
(* load is struck from pending, so nobody joins it any more, and the       *)
(* generation it began with is past, so its value is not stored.  The      *)
(* invariant says that they agree (PendingInv: a load of the present       *)
(* generation is the pending one) and that a pending load is as good as a  *)
(* stored value (CoherentInv).                                             *)
(***************************************************************************)
EXTENDS ProductCache, FiniteSetTheorems, TLAPS

\* What a handler in flight works on is there.
Known ==
  /\ \A r \in Requests : InFlight(r) => key[r] \in Keys /\ leader[r] = r
  /\ \A r \in Requests : at[r] \in {"idle", "answered", "failed"} => leader[r] = None
  /\ \A w \in Writers : write[w] # None => target[w] \in Products
  /\ \A w \in Writers : write[w] = "issueDelete" => target[w] \in byIssue

\* pending names a load in flight, and no load of this generation is unnamed.
PendingInv ==
  /\ \A k \in Keys : pending[k] # None => InFlight(pending[k]) /\ key[pending[k]] = k
  /\ \A r \in Requests :
       InFlight(r) => gen[r] <= generation
                      /\ (gen[r] = generation => pending[key[r]] = r)
  /\ Coalesced

\* What is stored, or comes of a pending load, is up to date.
Came(r) == at[r] \in {"loaded", "settling"}
CoherentInv ==
  /\ Coherent
  /\ \A k \in Keys \ (lost \cup byIssue) :
       pending[k] # None /\ Came(pending[k]) => UpToDate(k, got[pending[k]])

\* What a request is about to be answered is recent enough for it.
AnswerInv ==
  /\ FreshAnswer
  /\ \A r \in Requests, p \in Products : floor[r][p] <= db[p]
  /\ \A r \in Requests : leader[r] # None /\ Came(leader[r]) =>
       \A p \in Products : got[leader[r]][p] >= floor[r][p]

SizeInv == IsFiniteSet(held) /\ SizeBound

IInv == TypeOK /\ Known /\ PendingInv /\ CoherentInv /\ AnswerInv /\ SizeInv

-----------------------------------------------------------------------------
\* What stays beside a new entry was there, and leaves room for it.
LEMMA RoomStays ==
  ASSUME NEW k, NEW kept \in Room(k)
  PROVE  kept \subseteq held \ {k}
BY DEF Room

LEMMA RoomIsLeft ==
  ASSUME NEW k, NEW kept \in Room(k), BoundAssumption, SizeInv
  PROVE  IsFiniteSet(kept) /\ Cardinality(kept) < MaxEntries
  <1> DEFINE live == {j \in held : age[j] <= Ttl(j)} \ {k}
  <1>1. IsFiniteSet(live) /\ Cardinality(live) <= Cardinality(held)
    BY FS_Subset DEF SizeInv
  <1>2. Cardinality(live) \in Nat /\ Cardinality(held) \in Nat
    BY <1>1, FS_CardinalityType DEF SizeInv
  <1>3. CASE Cardinality(live) < MaxEntries
    BY <1>1, <1>3 DEF Room
  <1>4. CASE ~(Cardinality(live) < MaxEntries)
    <2>1. PICK j \in live : kept = live \ {j}
      BY <1>4 DEF Room
    <2>2. IsFiniteSet(kept) /\ Cardinality(kept) = Cardinality(live) - 1
      BY <1>1, <2>1, FS_RemoveElement
    <2> QED
      BY <1>1, <1>2, <2>2 DEF SizeInv, SizeBound, BoundAssumption
  <1> QED
    BY <1>3, <1>4

\* Entries that go leave fewer.
LEMMA FewerFit ==
  ASSUME NEW ks, SizeInv, Keep(ks), BoundAssumption
  PROVE  SizeInv'
  <1>1. held' \subseteq held
    BY DEF Keep
  <1>2. IsFiniteSet(held') /\ Cardinality(held') <= Cardinality(held)
    BY <1>1, FS_Subset DEF SizeInv
  <1>3. Cardinality(held') \in Nat /\ Cardinality(held) \in Nat
    BY <1>2, FS_CardinalityType DEF SizeInv
  <1> QED
    BY <1>2, <1>3 DEF SizeInv, SizeBound, BoundAssumption

\* Handlers keep what they work on.
LEMMA KnownStep == TypeOK /\ Known /\ [Next]_vars => Known'
  <1> SUFFICES ASSUME TypeOK /\ Known, [Next]_vars PROVE Known'
    OBVIOUS
  <1> USE NoneAssumption, KindAssumption DEF
        database, store, reader, writer, Arrive, Done, TypeOK, Known,
        InFlight, Keys, AnswerAll, Awaits, AllKinds
  <1>1. ASSUME Tick PROVE Known'
    BY <1>1 DEF Tick
  <1>2. ASSUME NEW r \in Requests, NEW k \in Keys, Hit(r, k) PROVE Known'
    BY <1>2 DEF Hit
  <1>3. ASSUME NEW r \in Requests, NEW k \in Keys, Join(r, k) PROVE Known'
    BY <1>3 DEF Join
  <1>4. ASSUME NEW r \in Requests, NEW k \in Keys, Miss(r, k) PROVE Known'
    BY <1>4 DEF Miss
  <1>5. ASSUME NEW r \in Requests, Query(r) PROVE Known'
    BY <1>5 DEF Query
  <1>6. ASSUME NEW r \in Requests, QueryThrows(r) PROVE Known'
    BY <1>6 DEF QueryThrows
  <1>7. ASSUME NEW r \in Requests, Store(r) PROVE Known'
    BY <1>7 DEF Store
  <1>8. ASSUME NEW r \in Requests, Settle(r) PROVE Known'
    BY <1>8 DEF Settle
  <1>9. ASSUME NEW r \in Requests, Leave(r) PROVE Known'
    BY <1>9 DEF Leave
  <1>10. ASSUME NEW w \in Writers, NEW kind \in Kinds, NEW p \in Products,
              Commit(w, kind, p) PROVE Known'
    BY <1>10 DEF Commit
  <1>11. ASSUME NEW w \in Writers, Flush(w) PROVE Known'
    BY <1>11 DEF Flush
  <1>12. ASSUME NEW w \in Writers, Forget(w) PROVE Known'
    BY <1>12 DEF Forget
  <1>13. CASE UNCHANGED vars
    BY <1>13 DEF vars
  <1> HIDE DEF
        database, store, reader, writer, Arrive, Done, TypeOK, Known,
        InFlight, Keys, AnswerAll, Awaits, AllKinds
  <1> QED
    BY
      <1>1, <1>2, <1>3, <1>4, <1>5, <1>6, <1>7, <1>8, <1>9, <1>10, <1>11,
      <1>12, <1>13
    DEF Next

\* Every variable keeps its type.
LEMMA TypeStep == TypeOK /\ Known /\ [Next]_vars => TypeOK'
  <1> SUFFICES ASSUME TypeOK /\ Known, [Next]_vars PROVE TypeOK'
    OBVIOUS
  <1> USE NoneAssumption, KindAssumption, BoundAssumption DEF
        database, store, reader, writer, Arrive, Done, TypeOK, Known,
        InFlight, Keys, AnswerAll, Awaits, Keep, Put, Versions, Nothing,
        AllKinds
  <1>1. ASSUME Tick PROVE TypeOK'
    BY <1>1 DEF Tick
  <1>2. ASSUME NEW r \in Requests, NEW k \in Keys, Hit(r, k) PROVE TypeOK'
    BY <1>2 DEF Hit
  <1>3. ASSUME NEW r \in Requests, NEW k \in Keys, Join(r, k) PROVE TypeOK'
    BY <1>3 DEF Join
  <1>4. ASSUME NEW r \in Requests, NEW k \in Keys, Miss(r, k) PROVE TypeOK'
    BY <1>4 DEF Miss
  <1>5. ASSUME NEW r \in Requests, Query(r) PROVE TypeOK'
    <2> HIDE DEF Versions, Nothing
    <2>1. got' \in [Requests -> Versions]
      BY <1>5 DEF Query
    <2>2. at' = [at EXCEPT ![r] = "rejected"] \/ at' = [at EXCEPT ![r] = "loaded"]
      BY <1>5 DEF Query
    <2>3. UNCHANGED <<database, store, generation, pending, key, leader, gen, floor, writer>>
      BY <1>5 DEF Query
    <2> QED
      BY <2>1, <2>2, <2>3
  <1>6. ASSUME NEW r \in Requests, QueryThrows(r) PROVE TypeOK'
    BY <1>6 DEF QueryThrows
  <1>7. ASSUME NEW r \in Requests, Store(r) PROVE TypeOK'
    <2>1. /\ UNCHANGED <<database, generation, pending, key, leader, gen, got, floor, writer>>
          /\ at' = [at EXCEPT ![r] = "settling"]
          /\ key[r] \in Keys
      BY <1>7 DEF Store
    <2>2. CASE gen[r] = generation
      <3>1. PICK kept \in Room(key[r]) :
              /\ held' = kept \cup {key[r]}
              /\ value' = [j \in Keys |-> IF j = key[r] THEN got[r]
                                         ELSE IF j \in kept THEN value[j] ELSE Nothing]
              /\ age' = [j \in Keys |-> IF j # key[r] /\ j \in kept THEN age[j] ELSE 0]
        BY <1>7, <2>2 DEF Store
      <3>2. held' \subseteq Keys
        BY <2>1, <3>1, RoomStays
      <3>3. value' \in [Keys -> Versions]
        BY <3>1
      <3>4. age' \in [Keys -> Nat]
        BY <3>1
      <3> QED
        BY <2>1, <3>2, <3>3, <3>4
    <2>3. CASE gen[r] # generation
      BY <1>7, <2>1, <2>3 DEF Store
    <2> QED
      BY <2>2, <2>3
  <1>8. ASSUME NEW r \in Requests, Settle(r) PROVE TypeOK'
    BY <1>8 DEF Settle
  <1>9. ASSUME NEW r \in Requests, Leave(r) PROVE TypeOK'
    BY <1>9 DEF Leave
  <1>10. ASSUME NEW w \in Writers, NEW kind \in Kinds, NEW p \in Products,
              Commit(w, kind, p) PROVE TypeOK'
    BY <1>10 DEF Commit
  <1>11. ASSUME NEW w \in Writers, Flush(w) PROVE TypeOK'
    BY <1>11 DEF Flush
  <1>12. ASSUME NEW w \in Writers, Forget(w) PROVE TypeOK'
    BY <1>12 DEF Forget
  <1>13. CASE UNCHANGED vars
    BY <1>13 DEF vars
  <1> HIDE DEF
        database, store, reader, writer, Arrive, Done, TypeOK, Known,
        InFlight, Keys, AnswerAll, Awaits, Keep, Put, Versions, Nothing,
        AllKinds
  <1> QED
    BY
      <1>1, <1>2, <1>3, <1>4, <1>5, <1>6, <1>7, <1>8, <1>9, <1>10, <1>11,
      <1>12, <1>13
    DEF Next

\* Loads stay known to pending, and one at a time.
LEMMA PendingStep == TypeOK /\ Known /\ PendingInv /\ [Next]_vars => PendingInv'
  <1> SUFFICES ASSUME TypeOK /\ Known /\ PendingInv, [Next]_vars PROVE PendingInv'
    OBVIOUS
  <1> USE NoneAssumption, KindAssumption DEF
        database, store, reader, writer, Arrive, Done, TypeOK, Known,
        InFlight, Keys, AnswerAll, Awaits, PendingInv, Coalesced
  <1>1. ASSUME Tick PROVE PendingInv'
    BY <1>1 DEF Tick
  <1>2. ASSUME NEW r \in Requests, NEW k \in Keys, Hit(r, k) PROVE PendingInv'
    BY <1>2 DEF Hit
  <1>3. ASSUME NEW r \in Requests, NEW k \in Keys, Join(r, k) PROVE PendingInv'
    BY <1>3 DEF Join
  <1>4. ASSUME NEW r \in Requests, NEW k \in Keys, Miss(r, k) PROVE PendingInv'
    BY <1>4 DEF Miss
  <1>5. ASSUME NEW r \in Requests, Query(r) PROVE PendingInv'
    BY <1>5 DEF Query
  <1>6. ASSUME NEW r \in Requests, QueryThrows(r) PROVE PendingInv'
    BY <1>6 DEF QueryThrows
  <1>7. ASSUME NEW r \in Requests, Store(r) PROVE PendingInv'
    BY <1>7 DEF Store
  <1>8. ASSUME NEW r \in Requests, Settle(r) PROVE PendingInv'
    BY <1>8 DEF Settle
  <1>9. ASSUME NEW r \in Requests, Leave(r) PROVE PendingInv'
    BY <1>9 DEF Leave
  <1>10. ASSUME NEW w \in Writers, NEW kind \in Kinds, NEW p \in Products,
              Commit(w, kind, p) PROVE PendingInv'
    BY <1>10 DEF Commit
  <1>11. ASSUME NEW w \in Writers, Flush(w) PROVE PendingInv'
    BY <1>11 DEF Flush
  <1>12. ASSUME NEW w \in Writers, Forget(w) PROVE PendingInv'
    BY <1>12 DEF Forget
  <1>13. CASE UNCHANGED vars
    BY <1>13 DEF vars
  <1> HIDE DEF
        database, store, reader, writer, Arrive, Done, TypeOK, Known,
        InFlight, Keys, AnswerAll, Awaits, PendingInv, Coalesced
  <1> QED
    BY
      <1>1, <1>2, <1>3, <1>4, <1>5, <1>6, <1>7, <1>8, <1>9, <1>10, <1>11,
      <1>12, <1>13
    DEF Next

\* Entries and pending loads stay up to date.
LEMMA CoherentStep == TypeOK /\ Known /\ PendingInv /\ CoherentInv /\ [Next]_vars => CoherentInv'
  <1> SUFFICES ASSUME TypeOK /\ Known /\ PendingInv /\ CoherentInv, [Next]_vars PROVE CoherentInv'
    OBVIOUS
  <1> USE NoneAssumption, KindAssumption DEF
        database, store, reader, writer, Arrive, Done, TypeOK, Known,
        InFlight, Keys, PendingInv, AnswerAll, Awaits, Keep, Put, Fresh,
        Touches, Writing, CoherentInv, Coherent, UpToDate, Came, About
  <1>1. ASSUME Tick PROVE CoherentInv'
    BY <1>1 DEF Tick
  <1>2. ASSUME NEW r \in Requests, NEW k \in Keys, Hit(r, k) PROVE CoherentInv'
    BY <1>2 DEF Hit
  <1>3. ASSUME NEW r \in Requests, NEW k \in Keys, Join(r, k) PROVE CoherentInv'
    BY <1>3 DEF Join
  <1>4. ASSUME NEW r \in Requests, NEW k \in Keys, Miss(r, k) PROVE CoherentInv'
    BY <1>4 DEF Miss
  <1>5. ASSUME NEW r \in Requests, Query(r) PROVE CoherentInv'
    BY <1>5 DEF Query
  <1>6. ASSUME NEW r \in Requests, QueryThrows(r) PROVE CoherentInv'
    BY <1>6 DEF QueryThrows
  <1>7. ASSUME NEW r \in Requests, Store(r) PROVE CoherentInv'
    <2>1. /\ UNCHANGED <<database, generation, pending, key, leader, gen, got, floor, writer>>
          /\ at' = [at EXCEPT ![r] = "settling"]
          /\ at[r] = "loaded" /\ key[r] \in Keys
      BY <1>7 DEF Store
    <2>2. CASE gen[r] = generation
      <3>1. PICK kept \in Room(key[r]) :
              /\ held' = kept \cup {key[r]}
              /\ value' = [j \in Keys |-> IF j = key[r] THEN got[r]
                                         ELSE IF j \in kept THEN value[j] ELSE Nothing]
        BY <1>7, <2>2 DEF Store
      <3>2. pending[key[r]] = r
        BY <2>1, <2>2
      <3>3. kept \subseteq held \ {key[r]}
        BY <3>1, RoomStays
      <3> QED
        BY <2>1, <3>1, <3>2, <3>3
    <2>3. CASE gen[r] # generation
      BY <1>7, <2>1, <2>3 DEF Store
    <2> QED
      BY <2>2, <2>3
  <1>8. ASSUME NEW r \in Requests, Settle(r) PROVE CoherentInv'
    BY <1>8 DEF Settle
  <1>9. ASSUME NEW r \in Requests, Leave(r) PROVE CoherentInv'
    BY <1>9 DEF Leave
  <1>10. ASSUME NEW w \in Writers, NEW kind \in Kinds, NEW p \in Products,
              Commit(w, kind, p) PROVE CoherentInv'
    <2>1. ASSUME NEW q \in Products, Writing(q) PROVE Writing(q)'
      <3>1. PICK x \in Writers : q \in Touches(x)
        BY <2>1
      <3>2. x # w
        <4>1. write[w] = None
          BY <1>10 DEF Commit
        <4>2. Touches(w) = {}
          BY <4>1 DEF AllKinds
        <4> QED
          BY <3>1, <4>2
      <3>3. write'[x] = write[x] /\ target'[x] = target[x]
        BY <1>10, <3>2 DEF Commit
      <3> QED
        BY <3>1, <3>3
    <2>2. \A q \in Products : db'[q] = db[q] \/ Writing(q)'
      BY <1>10 DEF Commit, AllKinds
    <2>3. /\ UNCHANGED <<store, pending, reader, lost>>
          /\ byIssue \subseteq byIssue'
      BY <1>10 DEF Commit
    <2>4. \A k \in Keys : About(k) \subseteq Products
      OBVIOUS
    <2> QED
      BY <2>1, <2>2, <2>3, <2>4
  <1>11. ASSUME NEW w \in Writers, Flush(w) PROVE CoherentInv'
    <2>1. ASSUME NEW k \in Keys \ (lost' \cup byIssue), k \notin Invalidated(w),
                 NEW p \in About(k), Writing(p)
          PROVE  Writing(p)'
      <3>1. k \notin Lists /\ p = k
        BY <2>1 DEF Invalidated
      <3>2. p \notin Touches(w)
        BY <1>11, <2>1, <3>1 DEF Flush, Invalidated
      <3> QED
        BY <1>11, <2>1, <3>2 DEF Flush
    <2>2. \A k \in held' : k \in held /\ k \notin Invalidated(w) /\ value'[k] = value[k]
      BY <1>11 DEF Flush
    <2>3. \A k \in Keys : pending'[k] # None =>
            pending'[k] = pending[k] /\ k \notin Invalidated(w)
      BY <1>11 DEF Flush
    <2>4. UNCHANGED <<database, reader>>
      BY <1>11 DEF Flush
    <2>5. \A k \in Keys : k \notin lost' /\ k \notin Invalidated(w) => k \notin lost
      BY <1>11 DEF Flush
    <2> HIDE DEF Writing, Touches
    <2> QED
      BY <2>1, <2>2, <2>3, <2>4, <2>5
  <1>12. ASSUME NEW w \in Writers, Forget(w) PROVE CoherentInv'
    BY <1>12 DEF Forget
  <1>13. CASE UNCHANGED vars
    BY <1>13 DEF vars
  <1> HIDE DEF
        database, store, reader, writer, Arrive, Done, TypeOK, Known,
        InFlight, Keys, PendingInv, AnswerAll, Awaits, Keep, Put, Fresh,
        Touches, Writing, CoherentInv, Coherent, UpToDate, Came, About
  <1> QED
    BY
      <1>1, <1>2, <1>3, <1>4, <1>5, <1>6, <1>7, <1>8, <1>9, <1>10, <1>11,
      <1>12, <1>13
    DEF Next

\* Answers stay recent enough.
LEMMA AnswerStep == TypeOK /\ Known /\ PendingInv /\ CoherentInv /\ AnswerInv /\ [Next]_vars => AnswerInv'
  <1> SUFFICES ASSUME TypeOK /\ Known /\ PendingInv /\ CoherentInv /\ AnswerInv, [Next]_vars PROVE AnswerInv'
    OBVIOUS
  <1> USE NoneAssumption, KindAssumption, BoundAssumption DEF
        database, store, reader, writer, Arrive, Done, TypeOK, Known,
        InFlight, Keys, Versions, Nothing, PendingInv, AnswerAll, Awaits,
        CoherentInv, Coherent, UpToDate, Came, About, AnswerInv, FreshAnswer
  <1>1. ASSUME Tick PROVE AnswerInv'
    BY <1>1 DEF Tick
  <1>2. ASSUME NEW r \in Requests, NEW k \in Keys, Hit(r, k) PROVE AnswerInv'
    <2>1. \A p \in Products :
            /\ floor'[r][p] <= value[k][p]
            /\ floor'[r][p] <= db[p]
      BY <1>2 DEF Hit, Fresh
    <2>2. /\ \A q \in Requests \ {r} : floor'[q] = floor[q] /\ got'[q] = got[q] /\ at'[q] = at[q]
          /\ got'[r] = value[k] /\ at'[r] = "answered" /\ leader[r] = None
          /\ UNCHANGED <<database, leader>>
      BY <1>2 DEF Hit
    <2> HIDE DEF Versions, CoherentInv, PendingInv
    <2>3. FreshAnswer'
      BY <2>1, <2>2
    <2>4. \A q \in Requests, p \in Products : floor'[q][p] <= db'[p]
      BY <2>1, <2>2
    <2>5. ASSUME NEW q \in Requests, leader'[q] # None, Came(leader[q])'
          PROVE  q # r /\ leader[q] # r /\ Came(leader[q])
      BY <2>2, <2>5
    <2> QED
      BY <2>2, <2>3, <2>4, <2>5
  <1>3. ASSUME NEW r \in Requests, NEW k \in Keys, Join(r, k) PROVE AnswerInv'
    BY <1>3 DEF Join
  <1>4. ASSUME NEW r \in Requests, NEW k \in Keys, Miss(r, k) PROVE AnswerInv'
    BY <1>4 DEF Miss
  <1>5. ASSUME NEW r \in Requests, Query(r) PROVE AnswerInv'
    <2> HIDE DEF Versions, CoherentInv, PendingInv
    <2>1. /\ UNCHANGED <<db, leader, floor>>
          /\ \A q \in Requests \ {r} : at'[q] = at[q] /\ got'[q] = got[q]
          /\ at'[r] = "rejected" \/ (at'[r] = "loaded" /\ got'[r] = db)
      BY <1>5 DEF Query
    <2>2. FreshAnswer'
      BY <2>1
    <2>3. \A q \in Requests, p \in Products : floor'[q][p] <= db'[p]
      BY <2>1
    <2>4. ASSUME NEW q \in Requests, leader'[q] # None, Came(leader[q])', NEW p \in Products
          PROVE  got'[leader'[q]][p] >= floor'[q][p]
      <3>1. CASE leader[q] = r
        <4>1. floor[q][p] <= db[p] /\ floor[q][p] \in Nat /\ db[p] \in Nat
          BY DEF Versions
        <4> QED
          BY <2>1, <2>4, <3>1, <4>1
      <3>2. CASE leader[q] # r
        BY <2>1, <2>4, <3>2
      <3> QED
        BY <3>1, <3>2
    <2> QED
      BY <2>2, <2>3, <2>4
  <1>6. ASSUME NEW r \in Requests, QueryThrows(r) PROVE AnswerInv'
    BY <1>6 DEF QueryThrows
  <1>7. ASSUME NEW r \in Requests, Store(r) PROVE AnswerInv'
    BY <1>7 DEF Store
  <1>8. ASSUME NEW r \in Requests, Settle(r) PROVE AnswerInv'
    BY <1>8 DEF Settle
  <1>9. ASSUME NEW r \in Requests, Leave(r) PROVE AnswerInv'
    BY <1>9 DEF Leave
  <1>10. ASSUME NEW w \in Writers, NEW kind \in Kinds, NEW p \in Products,
              Commit(w, kind, p) PROVE AnswerInv'
    BY <1>10 DEF Commit
  <1>11. ASSUME NEW w \in Writers, Flush(w) PROVE AnswerInv'
    BY <1>11 DEF Flush
  <1>12. ASSUME NEW w \in Writers, Forget(w) PROVE AnswerInv'
    BY <1>12 DEF Forget
  <1>13. CASE UNCHANGED vars
    BY <1>13 DEF vars
  <1> HIDE DEF
        database, store, reader, writer, Arrive, Done, TypeOK, Known,
        InFlight, Keys, Versions, Nothing, PendingInv, AnswerAll, Awaits,
        CoherentInv, Coherent, UpToDate, Came, About, AnswerInv, FreshAnswer
  <1> QED
    BY
      <1>1, <1>2, <1>3, <1>4, <1>5, <1>6, <1>7, <1>8, <1>9, <1>10, <1>11,
      <1>12, <1>13
    DEF Next

\* The cache stays within its bound.
LEMMA SizeStep == TypeOK /\ SizeInv /\ [Next]_vars => SizeInv'
  <1> SUFFICES ASSUME TypeOK /\ SizeInv, [Next]_vars PROVE SizeInv'
    OBVIOUS
  <1> USE NoneAssumption, KindAssumption, BoundAssumption DEF
        database, store, reader, writer, Arrive, Done, TypeOK, Known,
        InFlight, Keys, Keep, SizeInv, SizeBound, AnswerAll
  <1>1. ASSUME Tick PROVE SizeInv'
    BY <1>1 DEF Tick
  <1>2. ASSUME NEW r \in Requests, NEW k \in Keys, Hit(r, k) PROVE SizeInv'
    BY <1>2 DEF Hit
  <1>3. ASSUME NEW r \in Requests, NEW k \in Keys, Join(r, k) PROVE SizeInv'
    BY <1>3, FewerFit DEF Join
  <1>4. ASSUME NEW r \in Requests, NEW k \in Keys, Miss(r, k) PROVE SizeInv'
    BY <1>4, FewerFit DEF Miss
  <1>5. ASSUME NEW r \in Requests, Query(r) PROVE SizeInv'
    BY <1>5 DEF Query
  <1>6. ASSUME NEW r \in Requests, QueryThrows(r) PROVE SizeInv'
    BY <1>6 DEF QueryThrows
  <1>7. ASSUME NEW r \in Requests, Store(r) PROVE SizeInv'
    <2>1. CASE gen[r] = generation
      <3>1. PICK kept \in Room(key[r]) : held' = kept \cup {key[r]}
        BY <1>7, <2>1 DEF Store, Put
      <3>2. IsFiniteSet(kept) /\ Cardinality(kept) < MaxEntries /\ key[r] \notin kept
        BY <3>1, RoomIsLeft, RoomStays
      <3>3. IsFiniteSet(held') /\ Cardinality(held') = Cardinality(kept) + 1
        BY <3>1, <3>2, FS_AddElement
      <3>4. Cardinality(kept) \in Nat
        BY <3>2, FS_CardinalityType
      <3> QED
        BY <3>2, <3>3, <3>4
    <2>2. CASE gen[r] # generation
      BY <1>7, <2>2 DEF Store
    <2> QED
      BY <2>1, <2>2
  <1>8. ASSUME NEW r \in Requests, Settle(r) PROVE SizeInv'
    BY <1>8 DEF Settle
  <1>9. ASSUME NEW r \in Requests, Leave(r) PROVE SizeInv'
    BY <1>9 DEF Leave
  <1>10. ASSUME NEW w \in Writers, NEW kind \in Kinds, NEW p \in Products,
              Commit(w, kind, p) PROVE SizeInv'
    BY <1>10 DEF Commit
  <1>11. ASSUME NEW w \in Writers, Flush(w) PROVE SizeInv'
    BY <1>11, FewerFit DEF Flush
  <1>12. ASSUME NEW w \in Writers, Forget(w) PROVE SizeInv'
    BY <1>12 DEF Forget
  <1>13. CASE UNCHANGED vars
    BY <1>13 DEF vars
  <1> HIDE DEF
        database, store, reader, writer, Arrive, Done, TypeOK, Known,
        InFlight, Keys, Keep, SizeInv, SizeBound, AnswerAll
  <1> QED
    BY
      <1>1, <1>2, <1>3, <1>4, <1>5, <1>6, <1>7, <1>8, <1>9, <1>10, <1>11,
      <1>12, <1>13
    DEF Next

\* The inductive invariant holds of the empty cache.
LEMMA Initially == Init => IInv
  <1> SUFFICES ASSUME Init PROVE IInv
    OBVIOUS
  <1>1. SizeInv
    BY FS_EmptySet, BoundAssumption DEF Init, SizeInv, SizeBound
  <1> QED
    BY <1>1, NoneAssumption, KindAssumption, BoundAssumption
    DEF Init, IInv, TypeOK, Known, PendingInv, CoherentInv, AnswerInv, Coherent,
        Coalesced, FreshAnswer, InFlight, Came, Versions, Nothing, AllKinds

\* The inductive invariant holds in every reachable state.
THEOREM Invariance == Spec => []IInv
  <1>1. IInv /\ [Next]_vars => IInv'
    BY KnownStep, TypeStep, PendingStep, CoherentStep, AnswerStep, SizeStep DEF IInv
  <1> QED
    BY Initially, <1>1, PTL DEF Spec

\* Every variable has its type in every reachable state.
THEOREM Typing == Spec => []TypeOK
  <1>1. IInv => TypeOK
    BY DEF IInv
  <1> QED
    BY Invariance, <1>1, PTL

\* An entry agrees with the database about every listing nobody is writing.
THEOREM Coherence == Spec => []Coherent
  <1>1. IInv => Coherent
    BY DEF IInv, CoherentInv
  <1> QED
    BY Invariance, <1>1, PTL

\* A request is answered with what was announced before it came, or more.
THEOREM AnswersAreFresh == Spec => []FreshAnswer
  <1>1. IInv => FreshAnswer
    BY DEF IInv, AnswerInv
  <1> QED
    BY Invariance, <1>1, PTL

\* Between invalidations a key is loaded by one request at a time.
THEOREM OneLoad == Spec => []Coalesced
  <1>1. IInv => Coalesced
    BY DEF IInv, PendingInv
  <1> QED
    BY Invariance, <1>1, PTL

\* The cache never holds more than maxEntries.
THEOREM Bounded == Spec => []SizeBound
  <1>1. IInv => SizeBound
    BY DEF IInv, SizeInv
  <1> QED
    BY Invariance, <1>1, PTL
=============================================================================
