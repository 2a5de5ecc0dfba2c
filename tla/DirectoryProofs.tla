-------------------------- MODULE DirectoryProofs --------------------------
(***************************************************************************)
(* Proofs about ValidatorDirectory, for any finite set of validators, any  *)
(* lifetimes of the cache entries and any capacity of the cache.           *)
(***************************************************************************)
EXTENDS ValidatorDirectory, FiniteSetTheorems, TLAPS

-----------------------------------------------------------------------------
(* The response cache: its bound, and where its bodies come from.          *)

Caches == [Keys -> Entries \cup {None}]

LEMMA KeysFinite == IsFiniteSet(Keys)
<1>1. Keys = Validators \cup {"list"}
  BY DEF Keys
<1>2. QED
  BY <1>1, FS_AddElement, DirectoryAssumption

LEMMA LiveFinite ==
  ASSUME NEW c
  PROVE  IsFiniteSet(Live(c)) /\ Cardinality(Live(c)) \in Nat
<1>1. Live(c) \in SUBSET Keys
  BY DEF Live
<1>2. QED
  BY <1>1, KeysFinite, FS_Subset, FS_CardinalityType

(* The bodies of d are among those of c.                                   *)
DrawnFrom(d, c) == \A k \in Keys : d[k] = None \/ d[k] = c[k]

(* Taking one more key in leaves at most one entry too many.               *)
LEMMA OneMore ==
  ASSUME NEW c \in Caches, NEW k \in Keys, NEW e \in Entries
  PROVE  Cardinality(Live([c EXCEPT ![k] = e])) <= Cardinality(Live(c)) + 1
<1> DEFINE d == [c EXCEPT ![k] = e]
<1>1. Live(d) \in SUBSET (Live(c) \cup {k})
  BY DEF Live, Caches
<1>2. /\ IsFiniteSet(Live(c) \cup {k})
      /\ Cardinality(Live(c) \cup {k}) <= Cardinality(Live(c)) + 1
  <2>1. IsFiniteSet(Live(c)) /\ Cardinality(Live(c)) \in Nat
    BY LiveFinite
  <2>2. /\ IsFiniteSet(Live(c) \cup {k})
        /\ Cardinality(Live(c) \cup {k})
             = IF k \in Live(c) THEN Cardinality(Live(c)) ELSE Cardinality(Live(c)) + 1
    BY <2>1, FS_AddElement
  <2>3. QED
    BY <2>1, <2>2
<1>3. Cardinality(Live(d)) <= Cardinality(Live(c) \cup {k})
  BY <1>1, <1>2, FS_Subset
<1>4. /\ Cardinality(Live(c) \cup {k}) \in Nat
      /\ Cardinality(Live(c)) \in Nat /\ Cardinality(Live(d)) \in Nat
  BY <1>2, LiveFinite, FS_CardinalityType
<1> HIDE DEF d
<1>5. Cardinality(Live(d)) <= Cardinality(Live(c)) + 1
  BY <1>2, <1>3, <1>4
<1>6. QED
  BY <1>5 DEF d

LEMMA UsableFacts ==
  ASSUME NEW c \in Caches
  PROVE  /\ Usable(c) \in Caches
         /\ DrawnFrom(Usable(c), c)
         /\ Cardinality(Live(Usable(c))) <= Cardinality(Live(c))
<1>1. Usable(c) \in Caches /\ DrawnFrom(Usable(c), c)
  BY DEF Usable, Caches, DrawnFrom
<1>2. Live(Usable(c)) \in SUBSET Live(c)
  BY DEF Usable, Live
<1>3. QED
  BY <1>1, <1>2, LiveFinite, FS_Subset

(* A cache that is one entry too large is cut back to its capacity.        *)
LEMMA BoundedFacts ==
  ASSUME NEW c \in Caches, Cardinality(Live(c)) <= Capacity + 1, NEW d \in Bounded(c)
  PROVE  d \in Caches /\ DrawnFrom(d, c) /\ Cardinality(Live(d)) <= Capacity
<1>1. CASE Cardinality(Live(c)) <= Capacity
  BY <1>1 DEF Bounded, DrawnFrom
<1>2. CASE ~(Cardinality(Live(c)) <= Capacity) /\ Cardinality(Live(Usable(c))) <= Capacity
  BY <1>2, UsableFacts DEF Bounded
<1>3. CASE ~(Cardinality(Live(c)) <= Capacity) /\ ~(Cardinality(Live(Usable(c))) <= Capacity)
  <2> DEFINE b == Usable(c)
             n == Cardinality(Live(b))
  <2>1. PICK D \in FirstHalves(b) : d = [k \in Keys |-> IF k \in D THEN None ELSE b[k]]
    BY <1>3 DEF Bounded
  <2>2. D \in SUBSET Live(b) /\ Cardinality(D) = (n + 1) \div 2
    BY <2>1 DEF FirstHalves
  <2>3. d \in Caches /\ DrawnFrom(d, c)
    BY <2>1, UsableFacts DEF Caches, DrawnFrom
  <2>4. Live(d) = Live(b) \ D /\ Live(b) \cap D = D
    BY <2>1, <2>2 DEF Live
  <2>5. Cardinality(Live(d)) = n - (n + 1) \div 2
    <3>1. IsFiniteSet(Live(b))
      BY LiveFinite
    <3> HIDE DEF b
    <3>2. Cardinality(Live(b) \ D) = Cardinality(Live(b)) - Cardinality(Live(b) \cap D)
      BY <3>1, FS_Difference
    <3>3. QED
      BY <2>2, <2>4, <3>2
  <2>6. n \in Nat /\ n <= Capacity + 1
    BY LiveFinite, UsableFacts, DirectoryAssumption
  <2>7. n - (n + 1) \div 2 <= Capacity
    <3> HIDE DEF n
    <3>1. (n + 1) \div 2 \in Nat /\ (n >= 1 => (n + 1) \div 2 >= 1)
      BY <2>6
    <3>2. QED
      BY <2>6, <3>1, DirectoryAssumption
  <2>8. QED
    BY <2>3, <2>5, <2>7
<1>4. QED
  BY <1>1, <1>2, <1>3

(* An entry as it is stored now.                                           *)
IsNew(e) == e.body = Body /\ e.staleUntil = now + FreshTTL + StaleTTL

(* Storing the present body of a key under the bound.                      *)
LEMMA StoredFacts ==
  ASSUME Body \in Bodies, now \in Nat, NEW c \in Caches, Cardinality(Live(c)) <= Capacity,
         NEW k \in Keys, NEW d \in Stored(c, k)
  PROVE  /\ d \in Caches
         /\ Cardinality(Live(d)) <= Capacity
         /\ \A j \in Live(d) : IsNew(d[j]) \/ d[j] = c[j]
<1> DEFINE e == [ body |-> Body, expiresAt |-> now + FreshTTL,
                  staleUntil |-> now + FreshTTL + StaleTTL ]
           f == [c EXCEPT ![k] = e]
<1>1. e \in Entries /\ IsNew(e)
  BY DirectoryAssumption DEF Entries, IsNew
<1>2. f \in Caches /\ d \in Bounded(f)
  BY <1>1 DEF Caches, Stored
<1>3. Cardinality(Live(f)) <= Capacity + 1
  BY <1>1, OneMore, LiveFinite, DirectoryAssumption
<1>4. d \in Caches /\ DrawnFrom(d, f) /\ Cardinality(Live(d)) <= Capacity
  BY <1>2, <1>3, BoundedFacts
<1>5. \A j \in Live(d) : IsNew(d[j]) \/ d[j] = c[j]
  <2> SUFFICES ASSUME NEW j \in Live(d) PROVE IsNew(d[j]) \/ d[j] = c[j]
    OBVIOUS
  <2>1. j \in Keys /\ d[j] = f[j]
    BY <1>4 DEF Live, DrawnFrom
  <2>2. f[j] = IF j = k THEN e ELSE c[j]
    BY <2>1 DEF Caches
  <2>3. QED
    BY <1>1, <2>1, <2>2
<1>6. QED
  BY <1>4, <1>5

-----------------------------------------------------------------------------
(* Types.                                                                  *)

LEMMA NoEntriesFacts ==
  NoEntries \in Caches /\ Live(NoEntries) = {} /\ Cardinality(Live(NoEntries)) <= Capacity
<1>1. NoEntries \in Caches /\ Live(NoEntries) = {}
  BY DEF NoEntries, Caches, Live
<1>2. QED
  BY <1>1, FS_EmptySet, DirectoryAssumption

(* What the endpoints answer is a body.                                    *)
LEMMA BodyType ==
  ASSUME TypeOK
  PROVE  Body \in Bodies /\ now \in Nat /\ cache \in Caches
  BY DirectoryAssumption DEF TypeOK, Body, Bodies, Caches

LEMMA UpsertedType ==
  ASSUME TypeOK
  PROVE  Upserted(sync) \in [Validators -> Rows \cup {None}]
<1>1. \A v \in Validators : HasReward(v) \in BOOLEAN
  BY DEF TypeOK, HasReward, Rowed, Rows
<1>2. \A v \in Validators : IsListed(sync, v) \in BOOLEAN
  BY DEF IsListed
<1>3. QED
  BY <1>1, <1>2 DEF TypeOK, Upserted, Rows

LEMMA TypeStep ==
  ASSUME TypeOK, [Next]_vars
  PROVE  TypeOK'
<1> USE DirectoryAssumption DEF TypeOK
<1>1. CASE StartSync
  BY <1>1 DEF StartSync, NoSync, Syncs, Listings, Live
<1>2. CASE KnownArrives
  BY <1>2 DEF KnownArrives, Syncs, Live
<1>3. CASE AllArrives
  <2> DEFINE s == [sync EXCEPT !.pc = "rewards", !.all = registry]
             t == [s EXCEPT !.todo = {v \in Merged(s) : ~HasReward(v)}]
  <2>1. s \in Syncs
    BY DEF Syncs
  <2>2. Merged(s) \in SUBSET Validators
    BY <2>1 DEF Merged, Syncs
  <2>3. {v \in Merged(s) : ~HasReward(v)} \in SUBSET Validators
    BY <2>2
  <2> HIDE DEF s
  <2>4. t \in Syncs
    BY <2>1, <2>3 DEF Syncs
  <2>5. sync' = t
    BY <1>3 DEF AllArrives, s
  <2>6. QED
    BY <1>3, <2>4, <2>5 DEF AllArrives, Live
<1>4. CASE FetchFails
  BY <1>4 DEF FetchFails, NoSync, Syncs, Listings, Live
<1>5. ASSUME NEW v \in Validators, NEW known \in BOOLEAN, RewardAnswers(v, known)
      PROVE  TypeOK'
  <2>1. sync' \in Syncs
    BY <1>5 DEF RewardAnswers, Syncs
  <2>2. faults' \in 0 .. MaxFaults
    BY <1>5 DEF RewardAnswers
  <2>3. QED
    BY <1>5, <2>1, <2>2 DEF RewardAnswers, Live
<1>6. CASE FinishSync
  <2>1. validators' \in [Validators -> Rows \cup {None}]
    BY <1>6, UpsertedType DEF FinishSync
  <2>2. cache' \in [Keys -> Entries \cup {None}] /\ Cardinality(Live(cache')) <= Capacity
    BY <1>6, NoEntriesFacts DEF FinishSync, Caches
  <2>3. inflight' \in SUBSET Keys
    BY <1>6 DEF FinishSync
  <2>4. outdated' \in (0 .. MaxTime) \cup {None}
    BY <1>6 DEF FinishSync
  <2>5. QED
    BY <1>6, <2>1, <2>2, <2>3, <2>4 DEF FinishSync, NoSync, Syncs, Listings, Live
<1>7. ASSUME NEW k \in Keys, Request(k)
      PROVE  TypeOK'
  <2>1. cache' \in Caches /\ Cardinality(Live(cache')) <= Capacity
    BY <1>7, BodyType, StoredFacts DEF Request
  <2>2. QED
    BY <1>7, <2>1 DEF Request, Caches, Live
<1>8. ASSUME NEW k \in Keys, RequestFails(k)
      PROVE  TypeOK'
  <2>1. cache' \in Caches /\ Live(cache') \in SUBSET Live(cache)
    BY <1>8 DEF RequestFails, Caches, Live
  <2>2. Cardinality(Live(cache')) <= Capacity
    BY <2>1, LiveFinite, FS_Subset
  <2>3. QED
    BY <1>8, <2>1, <2>2 DEF RequestFails, Caches, Live
<1>9. ASSUME NEW v \in Validators, Observe(v) \/ Watch(v) \/ Unwatch(v)
      PROVE  TypeOK'
  BY <1>9 DEF Observe, Watch, Unwatch, Live
<1>10. ASSUME NEW listings \in [Validators -> Listings], RegistryChanges(listings)
       PROVE  TypeOK'
  BY <1>10 DEF RegistryChanges, Live
<1>11. CASE Tick
  BY <1>11 DEF Tick, Live
<1>12. CASE Restart
  <2>1. cache' \in Caches /\ Cardinality(Live(cache')) <= Capacity
    BY <1>12, BodyType, NoEntriesFacts, StoredFacts DEF Restart, Keys
  <2>2. QED
    BY <1>12, <2>1 DEF Restart, Caches, NoSync, Syncs, Listings, Live
<1>13. CASE UNCHANGED vars
  BY <1>13 DEF vars, Live
<1>14. QED
  BY <1>1, <1>2, <1>3, <1>4, <1>5, <1>6, <1>7, <1>8, <1>9, <1>10, <1>11, <1>12, <1>13
     DEF Next

(* Every variable keeps its type, and the cache its bound.                 *)
THEOREM TypeCorrect == Spec => []TypeOK
<1>1. Init => TypeOK
  BY NoEntriesFacts, DirectoryAssumption
     DEF Init, TypeOK, NoEntries, Caches, NoSync, Syncs, Listings, Live
<1>2. TypeOK /\ [Next]_vars => TypeOK'
  BY TypeStep
<1>3. QED
  BY <1>1, <1>2, PTL DEF Spec

-----------------------------------------------------------------------------
(* References: what a sync leaves of a row.                                *)

(* A row that is referred to stays.                                        *)
LEMMA RowStays ==
  ASSUME TypeOK, FinishSync, NEW v \in Validators, v \in Rowed
  PROVE  v \in Referenced => validators'[v] # None
<1>1. validators'[v] = IF v \in Gone(sync) /\ Prunes(sync) THEN None ELSE Upserted(sync)[v]
  BY DEF FinishSync
<1>2. Upserted(sync)[v] =
        IF v \in Merged(sync)
        THEN [listed |-> IsListed(sync, v), reward |-> v \in sync.resolved \/ HasReward(v)]
        ELSE validators[v]
  BY DEF Upserted
<1>3. Upserted(sync)[v] # None
  <2>1. CASE v \in Merged(sync)
    <3>1. IsListed(sync, v) \in BOOLEAN /\ (v \in sync.resolved \/ HasReward(v)) \in BOOLEAN
      BY DEF IsListed
    <3>2. Upserted(sync)[v] \in Rows
      BY <1>2, <2>1, <3>1 DEF Rows
    <3>3. QED
      BY <3>2, DirectoryAssumption
  <2>2. CASE v \notin Merged(sync)
    BY <1>2, <2>2 DEF Rowed
  <2>3. QED
    BY <2>1, <2>2
<1>4. v \in Referenced => ~(v \in Gone(sync) /\ Prunes(sync))
  BY DEF Prunes
<1>5. QED
  BY <1>1, <1>3, <1>4

(* No observation and no watched validator loses its row.                  *)
THEOREM ReferencesAreKept == Spec => []ReferencesHold
<1>1. Init => ReferencesHold
  BY DEF Init, ReferencesHold, Referenced
<1>2. TypeOK /\ ReferencesHold /\ [Next]_vars => ReferencesHold'
  <2> SUFFICES ASSUME TypeOK, ReferencesHold, [Next]_vars PROVE ReferencesHold'
    OBVIOUS
  <2> USE DEF ReferencesHold, Referenced, Rowed
  <2>1. CASE UNCHANGED <<validators, observed, watched>>
    BY <2>1
  <2>2. CASE FinishSync
    BY <2>2, RowStays DEF FinishSync, TypeOK
  <2>3. ASSUME NEW v \in Validators, Observe(v) \/ Watch(v) \/ Unwatch(v)
        PROVE  ReferencesHold'
    BY <2>3 DEF Observe, Watch, Unwatch, HasReward
  <2>4. QED
    BY <2>1, <2>2, <2>3 DEF Next, StartSync, KnownArrives, AllArrives, FetchFails,
       RewardAnswers, Request, RequestFails, RegistryChanges, Tick, Restart, vars
<1>3. QED
  BY <1>1, <1>2, TypeCorrect, PTL DEF Spec

-----------------------------------------------------------------------------
(* The cache follows the directory.                                        *)

(* A body that shows other rows was stored no later than the sync that     *)
(* left it behind.  Two parts make that inductive: no entry outlives what  *)
(* the clock gives it, and a sync with nothing to store and nothing to     *)
(* prune, which leaves the cache alone, finds the directory empty, which   *)
(* it cannot be after a prune that failed.                                 *)
LeftBehind ==
  \A k \in Live(cache) :
    cache[k].body.rows # validators =>
      outdated # None /\ cache[k].staleUntil <= outdated + FreshTTL + StaleTTL

Aged == \A k \in Live(cache) : cache[k].staleUntil <= now + FreshTTL + StaleTTL

CacheInv == LeftBehind /\ Aged /\ (outdated # None => Rowed # {})

LEMMA CacheStep ==
  ASSUME TypeOK, CacheInv, [Next]_vars
  PROVE  CacheInv'
<1> USE DEF CacheInv, LeftBehind, Aged
<1>1. /\ now \in Nat /\ FreshTTL \in Nat /\ StaleTTL \in Nat
      /\ \A k \in Live(cache) : cache[k] \in Entries /\ cache[k].staleUntil \in Nat
  BY DirectoryAssumption DEF TypeOK, Live, Entries
<1>2. CASE UNCHANGED <<now, validators, cache, outdated>>
  BY <1>2 DEF Rowed, Live
<1>3. CASE Tick
  BY <1>1, <1>3 DEF Tick, Rowed, Live
<1>4. CASE FinishSync
  <2>1. CASE ~Prunes(sync)
    <3>1. PICK v \in Gone(sync) : v \in Referenced
      BY <2>1 DEF Prunes
    <3>2. v \in Validators /\ v \in Rowed
      BY <3>1 DEF Gone, Rowed
    <3>3. validators'[v] # None
      BY <1>4, <3>1, <3>2, RowStays
    <3>4. Rowed' # {}
      BY <3>2, <3>3 DEF Rowed
    <3>5. /\ cache' = cache /\ now' = now
          /\ outdated' = IF validators' # validators THEN now ELSE outdated
      BY <1>4, <2>1 DEF FinishSync, Clears
    <3>6. now # None
      BY <1>1, DirectoryAssumption
    <3>7. QED
      BY <3>4, <3>5, <3>6 DEF Live
  <2>2. CASE Clears(sync)
    BY <1>4, <2>2, NoEntriesFacts DEF FinishSync, Clears
  <2>3. CASE Prunes(sync) /\ ~Clears(sync)
    <3>1. Gone(sync) = {} /\ Merged(sync) = {}
      BY <2>3 DEF Clears
    <3>2. Rowed = {}
      BY <3>1 DEF Gone
    <3>3. validators' = validators
      BY <1>4, <3>1 DEF FinishSync, Upserted, TypeOK
    <3>4. cache' = cache /\ now' = now /\ outdated' = None
      BY <1>4, <2>3 DEF FinishSync
    <3>5. QED
      BY <3>2, <3>3, <3>4 DEF Live
  <2>4. QED
    BY <2>1, <2>2, <2>3
<1>5. ASSUME NEW k \in Keys, Request(k)
      PROVE  CacheInv'
  <2>1. \A j \in Live(cache') : IsNew(cache'[j]) \/ cache'[j] = cache[j]
    BY <1>5, BodyType, StoredFacts DEF Request, TypeOK
  <2>2. Body.rows = validators
    BY DEF Body
  <2>3. UNCHANGED <<now, validators, outdated>>
    BY <1>5 DEF Request
  <2>4. \A j \in Live(cache') : IsNew(cache'[j]) \/ (j \in Live(cache) /\ cache'[j] = cache[j])
    BY <2>1 DEF Live
  <2>5. QED
    BY <1>1, <2>2, <2>3, <2>4 DEF IsNew, Rowed
<1>6. ASSUME NEW k \in Keys, RequestFails(k)
      PROVE  CacheInv'
  <2>1. \A j \in Live(cache') : j \in Live(cache) /\ cache'[j] = cache[j]
    BY <1>6 DEF RequestFails, Live, TypeOK
  <2>2. UNCHANGED <<now, validators, outdated>>
    BY <1>6 DEF RequestFails
  <2>3. QED
    BY <2>1, <2>2 DEF Rowed
<1>7. CASE Restart
  <2>1. \A j \in Live(cache') : IsNew(cache'[j])
    <3>1. CASE cache' = NoEntries
      BY <3>1, NoEntriesFacts
    <3>2. CASE cache' \in Stored(NoEntries, "list")
      <4>1. \A j \in Live(cache') : IsNew(cache'[j]) \/ cache'[j] = NoEntries[j]
        BY <3>2, BodyType, NoEntriesFacts, StoredFacts DEF Keys
      <4>2. QED
        BY <4>1 DEF Live, NoEntries
    <3>3. QED
      BY <1>7, <3>1, <3>2 DEF Restart
  <2>2. UNCHANGED <<now, validators>> /\ outdated' = None
    BY <1>7 DEF Restart
  <2>3. QED
    BY <1>1, <2>1, <2>2 DEF IsNew, Body
<1>8. QED
  BY <1>2, <1>3, <1>4, <1>5, <1>6, <1>7 DEF Next, StartSync, KnownArrives, AllArrives,
     FetchFails, RewardAnswers, Observe, Watch, Unwatch, RegistryChanges, vars

THEOREM CacheInvariant == Spec => []CacheInv
<1>1. Init => CacheInv
  BY DEF Init, CacheInv, LeftBehind, Aged, Live
<1>2. TypeOK /\ CacheInv /\ [Next]_vars => CacheInv'
  BY CacheStep
<1>3. QED
  BY <1>1, <1>2, TypeCorrect, PTL DEF Spec

(* Whatever the cache serves shows the rows the directory has, for as long *)
(* as no prune fails.                                                      *)
THEOREM CacheIsCurrent == Spec => []CacheFollowsDirectory
<1>1. CacheInv => CacheFollowsDirectory
  BY DEF CacheInv, LeftBehind, CacheFollowsDirectory
<1>2. QED
  BY <1>1, CacheInvariant, PTL

(* After a prune that failed no body of the rows from before is served for *)
(* longer than the stale window.                                           *)
THEOREM OldRowsExpire == Spec => []OutdatedRowsExpire
<1>1. TypeOK /\ CacheInv => OutdatedRowsExpire
  <2> SUFFICES ASSUME TypeOK, CacheInv, NEW k \in Live(cache), cache[k].staleUntil > now,
                      cache[k].body.rows # validators
               PROVE  outdated # None /\ now < outdated + FreshTTL + StaleTTL
    BY DEF OutdatedRowsExpire
  <2>1. cache[k].staleUntil \in Nat /\ now \in Nat
    BY DirectoryAssumption DEF TypeOK, Live, Entries
  <2>2. outdated # None /\ cache[k].staleUntil <= outdated + FreshTTL + StaleTTL
    BY DEF CacheInv, LeftBehind
  <2>3. outdated \in Nat /\ FreshTTL \in Nat /\ StaleTTL \in Nat
    BY <2>2, DirectoryAssumption DEF TypeOK
  <2>4. QED
    BY <2>1, <2>2, <2>3
<1>2. QED
  BY <1>1, CacheInvariant, TypeCorrect, PTL
=============================================================================
