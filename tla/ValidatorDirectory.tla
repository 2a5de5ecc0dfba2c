------------------------- MODULE ValidatorDirectory ------------------------
(***************************************************************************)
(* The directory of validators: the hourly sync with the registry          *)
(* (syncValidators and pruneValidatorsNotIn in server/src/validatorSync.ts *)
(* with the foreign keys of server/src/db.ts) and the cache the public     *)
(* endpoints answer from (server/src/responseCache.ts).                    *)
(*                                                                         *)
(* The sync awaits two snapshots of the registry and then one reward       *)
(* address after the other; what follows, the upsert, the prune and the    *)
(* clearing of the cache, runs without an await.  So does a request, and   *)
(* a revalidation with it: the loaders of the endpoints are synchronous.   *)
(***************************************************************************)
EXTENDS Integers, FiniteSets

CONSTANTS
  Validators,
  None,
  FreshTTL,   \* PUBLIC_RESPONSE_CACHE_TTL_MS, in ticks
  StaleTTL,   \* PUBLIC_RESPONSE_STALE_MS
  Capacity,   \* entries the cache keeps
  MaxTime,    \* bound: the last tick
  MaxFaults   \* bound: registry and loader failures, restarts and
              \* changes of the registry, counted together

Listings == {"absent", "observable", "listed"}

(* A row: is_listed, and whether reward_address is known.                  *)
Rows == [listed : BOOLEAN, reward : BOOLEAN]

(* The list of validators, the profile of each.                            *)
Keys == {"list"} \cup Validators

(* What an endpoint answers is drawn from the rows and the observations.   *)
Bodies == [rows : [Validators -> Rows \cup {None}], observed : SUBSET Validators]

Entries == [body : Bodies, expiresAt : Nat, staleUntil : Nat]

ASSUME DirectoryAssumption ==
  /\ None \notin Validators \cup Rows \cup Entries \cup Int
  /\ IsFiniteSet(Validators)
  /\ FreshTTL \in Nat \ {0} /\ StaleTTL \in Nat /\ Capacity \in Nat \ {0}
  /\ MaxTime \in Nat /\ MaxFaults \in Nat

VARIABLES
  now,
  registry,   \* the registry: validator -> "absent", "observable", "listed"
  validators, \* table validators: validator -> row, or None
  observed,   \* validators with rows in validator_observations
  watched,    \* validators with rows in validator_watchlist
  sync,       \* the sync in flight
  cache,      \* store: key -> entry, or None
  inflight,   \* the keys of revalidateInflight
  faults,
  outdated    \* history: when the rows last changed and a failed prune left the
              \* cache as it was; None once a sync or a restart emptied it

vars == <<now, registry, validators, observed, watched, sync, cache, inflight,
          faults, outdated>>

(* pc is what the sync awaits; known and all are the two snapshots, todo   *)
(* and resolved the validators whose reward address is asked for, got.     *)
Syncs == [ pc       : {"idle", "known", "all", "rewards"},
           known    : SUBSET Validators,
           all      : [Validators -> Listings],
           todo     : SUBSET Validators,
           resolved : SUBSET Validators ]

NoSync == [ pc |-> "idle", known |-> {}, all |-> [v \in Validators |-> "absent"],
            todo |-> {}, resolved |-> {} ]

Init ==
  /\ now = 0
  /\ registry \in [Validators -> Listings]
  /\ validators = [v \in Validators |-> None]
  /\ observed = {} /\ watched = {}
  /\ sync = NoSync
  /\ cache = [k \in Keys |-> None]
  /\ inflight = {}
  /\ faults = 0
  /\ outdated = None

Rowed == {v \in Validators : validators[v] # None}

HasReward(v) == v \in Rowed /\ validators[v].reward

-----------------------------------------------------------------------------
(* startValidatorSyncScheduler: the timer starts a sync unless one runs.   *)
StartSync ==
  /\ sync.pc = "idle"
  /\ sync' = [NoSync EXCEPT !.pc = "known"]
  /\ UNCHANGED <<now, registry, validators, observed, watched, cache, inflight,
                 faults, outdated>>

(* The snapshot of the listed validators, then that of all.                *)
KnownArrives ==
  /\ sync.pc = "known"
  /\ sync' = [sync EXCEPT !.pc = "all",
                          !.known = {v \in Validators : registry[v] = "listed"}]
  /\ UNCHANGED <<now, registry, validators, observed, watched, cache, inflight,
                 faults, outdated>>

(* mergeSnapshots                                                          *)
Merged(s) == s.known \cup {v \in Validators : s.all[v] # "absent"}

IsListed(s, v) == v \in s.known \/ s.all[v] = "listed"

AllArrives ==
  /\ sync.pc = "all"
  /\ LET s == [sync EXCEPT !.pc = "rewards", !.all = registry]
     IN  sync' = [s EXCEPT !.todo = {v \in Merged(s) : ~HasReward(v)}]
  /\ UNCHANGED <<now, registry, validators, observed, watched, cache, inflight,
                 faults, outdated>>

(* The registry does not answer: the sync is over, nothing is stored.      *)
FetchFails ==
  /\ sync.pc \in {"known", "all"}
  /\ faults < MaxFaults
  /\ faults' = faults + 1
  /\ sync' = NoSync
  /\ UNCHANGED <<now, registry, validators, observed, watched, cache, inflight,
                 outdated>>

(* resolveMissingRewards: the node knows the reward address or fails,      *)
(* which the sync survives.                                                *)
RewardAnswers(v, known) ==
  /\ sync.pc = "rewards" /\ v \in sync.todo
  /\ faults + (IF known THEN 0 ELSE 1) <= MaxFaults
  /\ faults' = faults + (IF known THEN 0 ELSE 1)
  /\ sync' = [sync EXCEPT !.todo = @ \ {v},
                          !.resolved = IF known THEN @ \cup {v} ELSE @]
  /\ UNCHANGED <<now, registry, validators, observed, watched, cache, inflight,
                 outdated>>

(* Mutant: a row that is there is left as it is.                           *)
UpsertedOnce(s) ==
  [v \in Validators |->
     IF v \in Merged(s) \ Rowed
     THEN [listed |-> IsListed(s, v), reward |-> v \in s.resolved]
     ELSE validators[v]]

(* upsertValidators: a reward address that is known stays known.           *)
Upserted(s) ==
  [v \in Validators |->
     IF v \in Merged(s)
     THEN [listed |-> IsListed(s, v), reward |-> v \in s.resolved \/ HasReward(v)]
     ELSE validators[v]]

(* The tables that refer to a validator.                                   *)
Referenced == observed \cup watched

(* The rows a snapshot does not have any more.                             *)
Gone(s) == Rowed \ Merged(s)

(* pruneValidatorsNotIn is one database transaction: a foreign key that    *)
(* refers to one of the validators that are gone undoes it.                *)
Prunes(s) == Gone(s) \cap Referenced = {}

(* Mutant: the cache is cleared when a row was deleted.                    *)
ClearsWhenPruned(s) == Prunes(s) /\ Gone(s) # {}

(* The cache is cleared when a row was written or deleted; a prune that    *)
(* throws ends the sync before that.                                       *)
Clears(s) == Prunes(s) /\ Gone(s) \cup Merged(s) # {}

NoEntries == [k \in Keys |-> None]

(* The rest of syncValidators, from the upsert on.                         *)
FinishSync ==
  /\ sync.pc = "rewards" /\ sync.todo = {}
  /\ validators' = [v \in Validators |->
       IF v \in Gone(sync) /\ Prunes(sync) THEN None ELSE Upserted(sync)[v]]
  /\ IF Clears(sync) THEN cache' = NoEntries /\ inflight' = {}
                     ELSE UNCHANGED <<cache, inflight>>
  /\ sync' = NoSync
  /\ outdated' = IF Prunes(sync) THEN None
                 ELSE IF validators' # validators THEN now
                 ELSE outdated
  /\ UNCHANGED <<now, registry, observed, watched, faults>>

-----------------------------------------------------------------------------
(* The public endpoints                                                    *)

Body == [rows |-> validators, observed |-> observed]

Live(c) == {k \in Keys : c[k] # None}

(* evictExpired                                                            *)
Usable(c) == [k \in Keys |-> IF c[k] # None /\ c[k].staleUntil <= now THEN None ELSE c[k]]

(* The half, rounded up, of the entries that expires first.                *)
FirstHalves(c) ==
  {D \in SUBSET Live(c) :
     /\ Cardinality(D) = (Cardinality(Live(c)) + 1) \div 2
     /\ \A d \in D, e \in Live(c) \ D : c[d].expiresAt <= c[e].expiresAt}

(* Beyond its capacity the cache drops what is past its stale window, and, *)
(* when that is not enough, the half that expires first.                   *)
Bounded(c) ==
  IF Cardinality(Live(c)) <= Capacity THEN {c}
  ELSE IF Cardinality(Live(Usable(c))) <= Capacity THEN {Usable(c)}
  ELSE {[k \in Keys |-> IF k \in D THEN None ELSE Usable(c)[k]] : D \in FirstHalves(Usable(c))}

(* Mutant: what is revalidated is the body that was served.                *)
StoredAgain(c, k) ==
  Bounded([c EXCEPT ![k] = [ body       |-> IF @ = None THEN Body ELSE @.body,
                             expiresAt  |-> now + FreshTTL,
                             staleUntil |-> now + FreshTTL + StaleTTL ]])

(* setCachedPublicResponse                                                 *)
Stored(c, k) ==
  Bounded([c EXCEPT ![k] = [ body       |-> Body,
                             expiresAt  |-> now + FreshTTL,
                             staleUntil |-> now + FreshTTL + StaleTTL ]])

Fresh(k) == cache[k] # None /\ cache[k].expiresAt > now

Stale(k) == cache[k] # None /\ ~Fresh(k) /\ cache[k].staleUntil > now

(* A request of key k that is not answered from a fresh entry; the profile *)
(* of a validator without a row is refused before the cache is looked at.  *)
Asked(k) == k \in Validators => k \in Rowed

(* A stale entry is served and, unless the key is in revalidateInflight,   *)
(* revalidated; no entry: the body is computed and stored.                 *)
Request(k) ==
  /\ Asked(k) /\ ~Fresh(k)
  /\ Stale(k) => k \notin inflight
  /\ cache' \in Stored(cache, k)
  /\ UNCHANGED <<now, registry, validators, observed, watched, sync, inflight,
                 faults, outdated>>

(* The loader throws.  On the request path the error is answered; in a     *)
(* revalidation it is caught, and the key is taken out of the map before   *)
(* it is put in: the async function runs to its end before its promise is  *)
(* stored.                                                                 *)
RequestFails(k) ==
  /\ Asked(k) /\ ~Fresh(k)
  /\ Stale(k) => k \notin inflight
  /\ faults < MaxFaults
  /\ faults' = faults + 1
  /\ inflight' = IF Stale(k) THEN inflight \cup {k} ELSE inflight
  /\ cache' = IF Stale(k) THEN cache ELSE [cache EXCEPT ![k] = None]
  /\ UNCHANGED <<now, registry, validators, observed, watched, sync, outdated>>

-----------------------------------------------------------------------------
(* The indexer classifies a validator whose reward address is known; a     *)
(* wallet watches a validator that has a row, and stops watching it.       *)
Observe(v) ==
  /\ HasReward(v) /\ v \notin observed
  /\ observed' = observed \cup {v}
  /\ UNCHANGED <<now, registry, validators, watched, sync, cache, inflight,
                 faults, outdated>>

Watch(v) ==
  /\ v \in Rowed /\ v \notin watched
  /\ watched' = watched \cup {v}
  /\ UNCHANGED <<now, registry, validators, observed, sync, cache, inflight,
                 faults, outdated>>

Unwatch(v) ==
  /\ v \in watched
  /\ watched' = watched \ {v}
  /\ UNCHANGED <<now, registry, validators, observed, sync, cache, inflight,
                 faults, outdated>>

(* The registry lists, drops or changes validators, several at once when   *)
(* it stops answering for some or answers for another network.             *)
RegistryChanges(listings) ==
  /\ registry # listings
  /\ faults < MaxFaults
  /\ faults' = faults + 1
  /\ registry' = listings
  /\ UNCHANGED <<now, validators, observed, watched, sync, cache, inflight,
                 outdated>>

Tick ==
  /\ now < MaxTime
  /\ now' = now + 1
  /\ UNCHANGED <<registry, validators, observed, watched, sync, cache, inflight,
                 faults, outdated>>

(* A restart keeps the database only; warmPublicValidatorsCache then       *)
(* stores the list, or fails.                                              *)
Restart ==
  /\ faults < MaxFaults
  /\ faults' = faults + 1
  /\ sync' = NoSync
  /\ cache' \in {NoEntries} \cup Stored(NoEntries, "list")
  /\ inflight' = {}
  /\ outdated' = None
  /\ UNCHANGED <<now, registry, validators, observed, watched>>

Next ==
  \/ StartSync \/ KnownArrives \/ AllArrives \/ FetchFails \/ FinishSync
  \/ \E v \in Validators, known \in BOOLEAN : RewardAnswers(v, known)
  \/ \E k \in Keys : Request(k) \/ RequestFails(k)
  \/ \E v \in Validators : Observe(v) \/ Watch(v) \/ Unwatch(v)
  \/ \E listings \in [Validators -> Listings] : RegistryChanges(listings)
  \/ Tick
  \/ Restart

Spec == Init /\ [][Next]_vars

(* The timer keeps firing and the registry and the nodes answer in the     *)
(* end: what can go wrong is bounded by MaxFaults.                         *)
FairSpec ==
  /\ Spec
  /\ WF_vars(StartSync) /\ WF_vars(KnownArrives) /\ WF_vars(AllArrives)
  /\ WF_vars(FinishSync)
  /\ WF_vars(\E v \in Validators : RewardAnswers(v, TRUE))

-----------------------------------------------------------------------------
TypeOK ==
  /\ now \in 0 .. MaxTime
  /\ registry \in [Validators -> Listings]
  /\ validators \in [Validators -> Rows \cup {None}]
  /\ observed \in SUBSET Validators /\ watched \in SUBSET Validators
  /\ sync \in Syncs
  /\ cache \in [Keys -> Entries \cup {None}]
  /\ Cardinality(Live(cache)) <= Capacity
  /\ inflight \in SUBSET Keys
  /\ faults \in 0 .. MaxFaults
  /\ outdated \in (0 .. MaxTime) \cup {None}

(* Whatever is served, fresh or stale, shows the rows the directory has:   *)
(* entries that were stored, revalidated or warmed around a sync do not    *)
(* outlive it, unless its prune failed.                                    *)
CacheFollowsDirectory ==
  outdated = None => \A k \in Live(cache) : cache[k].body.rows = validators

(* A sync whose prune fails has written its rows and leaves the cache as   *)
(* it was.  What is served of the rows from before is gone when the stale  *)
(* window after that sync is over: no revalidation in between, successful  *)
(* or not, and no second failure prolongs the life of an old body.         *)
OutdatedRowsExpire ==
  \A k \in Live(cache) :
    cache[k].staleUntil > now /\ cache[k].body.rows # validators
      => outdated # None /\ now < outdated + FreshTTL + StaleTTL

(* No observation and no watched validator loses its row, whatever the     *)
(* registry drops.                                                         *)
ReferencesHold == Referenced \subseteq Rowed

(* When the registry comes to rest and holds on to every validator that is *)
(* referred to, the directory becomes what the registry lists, and every   *)
(* reward address gets known.                                              *)
Follows ==
  \A v \in Validators :
    /\ (validators[v] = None) = (registry[v] = "absent")
    /\ v \in Rowed => /\ validators[v].reward
                      /\ validators[v].listed = (registry[v] = "listed")

DirectoryFollowsRegistry ==
  <>[](\A v \in Referenced : registry[v] # "absent") => <>[]Follows

=============================================================================
