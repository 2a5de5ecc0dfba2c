--------------------------- MODULE StakingIntents ---------------------------
(***************************************************************************)
(* The staking write path of the API server (server/src/stakingIntents.ts) *)
(* and the position read it is built on (readStakingPosition and           *)
(* maybeWriteStakerSnapshot of server/src/stakingState.ts).                *)
(*                                                                         *)
(* A wallet asks for an intent, signs and broadcasts a transaction with    *)
(* the wallet of its own, and asks the server to confirm the intent with   *)
(* the transaction's hash.  The handlers are asynchronous: between two     *)
(* awaits a handler runs alone, at an await any other handler may run.     *)
(* Each handler is therefore one action per stretch between two awaits,    *)
(* and what it read before an await is kept in its call's record.          *)
(***************************************************************************)
EXTENDS PositionRules, FiniteSets

CONSTANTS
  Users,        \* wallet addresses with a session
  IntentIds,    \* the uuids createStakingIntent may draw
  TxHashes,     \* transaction hashes
  CreateCalls,  \* bound: handler activations that can be in flight together,
  ConfirmCalls, \* of POST intent, of POST confirm
  GetCalls,     \* and of GET staking-position
  Bodies,       \* the request bodies wallets send
  StakerStates, \* the staker records the chain may hold for an address
  MinedTxs,     \* the transactions that may reach a block
  IntentTTL,    \* INTENT_TTL_MS, in ticks of the clock
  CacheTTL,     \* POSITION_CACHE_TTL_MS
  Throttle,     \* SNAPSHOT_THROTTLE_MS
  MaxTime       \* bound: the last tick of the clock

Transactions == [from : Users, op : Operations, value : Luna, executionResult : BOOLEAN]

Statuses == {"pending", "confirmed", "failed", "expired"}

Rows == [ user        : Users,
          op          : Operations,
          params      : Params,
          status      : Statuses,
          txHash      : TxHashes \cup {None},
          expiresAt   : Nat,
          confirmedAt : Nat \cup {None} ]

(* What the abstract life cycle keeps of a row.                            *)
BookRows == [ owner : Users, params : Params, status : Statuses, txHash : TxHashes \cup {None} ]

ASSUME IntentsAssumption ==
  /\ None \notin Users \cup IntentIds \cup TxHashes \cup StakerStates \cup MinedTxs
  /\ None \notin Rows \cup BookRows
  /\ Bodies \subseteq Requests
  /\ StakerStates \subseteq Stakers
  /\ MinedTxs \subseteq Transactions
  /\ IntentTTL \in Nat \ {0} /\ CacheTTL \in Nat \ {0}
  /\ Throttle \in Nat /\ MaxTime \in Nat

VARIABLES
  now,        \* the wall clock
  chain,      \* hash -> the transaction in a block under that hash, or None
  stakers,    \* user -> the staker record on chain
  intents,    \* table staking_intents: id -> row, or None
  snapshots,  \* table staker_snapshots: the (user, observed_at) of its rows
  cache,      \* positionCache: user -> entry, or None (in memory)
  call        \* the handlers in flight

vars == <<now, chain, stakers, intents, snapshots, cache, call>>

Times == 0 .. MaxTime

Calls == CreateCalls \cup ConfirmCalls \cup GetCalls

Envelopes == [state : PositionStates, expiresAt : Nat]

(* pc "tx" awaits fetchTransaction, "staker" the wallet balance and the    *)
(* staker, "block" the block number.  nowMs, pending and staker are what   *)
(* the handler captured; caching is ~bypassCache.                          *)
CallStates == [ pc      : {"idle", "tx", "staker", "block"},
                kind    : {"create", "confirm", "position"},
                user    : Users \cup {None},
                nowMs   : Nat,
                body    : Bodies \cup {None},
                intent  : IntentIds \cup {None},
                hash    : TxHashes \cup {None},
                pending : BOOLEAN,
                staker  : StakerStates \cup {None},
                caching : BOOLEAN ]

Idle == [ pc |-> "idle", kind |-> "position", user |-> None, nowMs |-> 0,
          body |-> None, intent |-> None, hash |-> None, pending |-> FALSE,
          staker |-> None, caching |-> FALSE ]

Init ==
  /\ now = 0
  /\ chain = [h \in TxHashes |-> None]
  /\ stakers \in [Users -> StakerStates]
  /\ intents = [i \in IntentIds |-> None]
  /\ snapshots = {}
  /\ cache = [u \in Users |-> None]
  /\ call = [c \in Calls |-> Idle]

-----------------------------------------------------------------------------
(* The statements on staking_intents.                                      *)

Owns(u, i) == intents[i] # None /\ intents[i].user = u

IsPending(i) == intents[i] # None /\ intents[i].status = "pending"

(* Mutant: the overlay of an intent outlives the intent's expiry.          *)
HasPendingIntentEver(rows, u, nowMs) ==
  \E i \in IntentIds : rows[i] # None /\ rows[i].user = u /\ rows[i].status = "pending"

(* hasPendingStakingIntent                                                 *)
HasPendingIntent(rows, u, nowMs) ==
  \E i \in IntentIds : /\ rows[i] # None
                       /\ rows[i].user = u
                       /\ rows[i].status = "pending"
                       /\ rows[i].expiresAt > nowMs

(* expireAbandonedPendingIntents: one UPDATE over the rows of the user     *)
(* that are pending and carry no transaction hash.                         *)
Abandoned(u) == {i \in IntentIds : Owns(u, i) /\ IsPending(i) /\ intents[i].txHash = None}

ExpireAll(rows, S) ==
  [i \in IntentIds |-> IF i \in S THEN [rows[i] EXCEPT !.status = "expired"] ELSE rows[i]]

-----------------------------------------------------------------------------
(* readStakingPosition, up to its first await: the clock and the Pending   *)
(* overlay are captured here, before anything is read from the chain.      *)
BeginRead(kind, u, body, nowMs, pending, caching) ==
  [Idle EXCEPT !.pc = "staker", !.kind = kind, !.user = u, !.body = body,
               !.nowMs = nowMs, !.pending = pending, !.caching = caching]

(* GET /api/me/staking-position that the cache does not answer.  One that  *)
(* it does answer changes nothing.                                         *)
GetPosition(c, u, fresh) ==
  /\ call[c].pc = "idle"
  /\ ~fresh /\ cache[u] # None => cache[u].expiresAt <= now
  /\ call' = [call EXCEPT ![c] =
                BeginRead("position", u, None, now,
                          HasPendingIntent(intents, u, now), ~fresh)]
  /\ UNCHANGED <<now, chain, stakers, intents, snapshots, cache>>

(* Bound: ids in IntentIds are left for every create in flight and one     *)
(* more.                                                                   *)
IdLeft ==
  Cardinality({d \in CreateCalls : call[d].pc # "idle"})
    < Cardinality({i \in IntentIds : intents[i] = None})

(* POST /api/staking/intent, up to the first await of its position read:   *)
(* the abandoned intents of the wallet are expired whatever comes next.    *)
BeginCreate(c, u, b) ==
  /\ call[c].pc = "idle"
  /\ IdLeft
  /\ ValidParams(b.op, b.params)
  /\ intents' = ExpireAll(intents, Abandoned(u))
  /\ call' = [call EXCEPT ![c] =
                BeginRead("create", u, b, now, HasPendingIntent(intents', u, now), FALSE)]
  /\ UNCHANGED <<now, chain, stakers, snapshots, cache>>

(* The staker read answers.                                                *)
StakerRead(c) ==
  /\ call[c].pc = "staker"
  /\ call' = [call EXCEPT ![c].pc = "block", ![c].staker = stakers[call[c].user]]
  /\ UNCHANGED <<now, chain, stakers, intents, snapshots, cache>>

(* The staker read fails: a position request and a create answer with the  *)
(* error, a confirm has confirmed already and swallows it.                 *)
StakerReadFails(c) ==
  /\ call[c].pc = "staker"
  /\ call' = [call EXCEPT ![c] = Idle]
  /\ UNCHANGED <<now, chain, stakers, intents, snapshots, cache>>

(* Mutant: a snapshot exactly the throttle old does not count as recent.   *)
RecentSnapshotStrict(u, nowMs) == \E s \in snapshots : s[1] = u /\ s[2] > nowMs - Throttle

(* maybeWriteStakerSnapshot                                                *)
RecentSnapshot(u, nowMs) == \E s \in snapshots : s[1] = u /\ s[2] >= nowMs - Throttle

WriteSnapshot(u, nowMs) ==
  snapshots' = IF RecentSnapshot(u, nowMs) THEN snapshots
                                           ELSE snapshots \cup {<<u, nowMs>>}

NewRow(u, b, nowMs) ==
  [ user |-> u, op |-> b.op, params |-> b.params, status |-> "pending",
    txHash |-> None, expiresAt |-> nowMs + IntentTTL, confirmedAt |-> None ]

(* The rest of createStakingIntent: reject, or INSERT under a fresh id.    *)
FinishCreate(k) ==
  IF Admissible(k.body.op, k.body.params, k.staker, k.pending)
  THEN \E i \in IntentIds : /\ intents[i] = None
                            /\ intents' = [intents EXCEPT ![i] = NewRow(k.user, k.body, k.nowMs)]
  ELSE UNCHANGED intents

(* The block number answers or fails (blockKnown), which ends the read:    *)
(* the snapshot, the cache entry, and the caller's continuation.           *)
FinishRead(c, blockKnown) ==
  LET k == call[c] IN
  /\ k.pc = "block"
  /\ IF blockKnown THEN WriteSnapshot(k.user, k.nowMs) ELSE UNCHANGED snapshots
  /\ cache' = IF k.caching
              THEN [cache EXCEPT ![k.user] =
                      [ state     |-> NormalizePositionState(k.staker, k.pending),
                        expiresAt |-> k.nowMs + CacheTTL ]]
              ELSE cache
  /\ IF k.kind = "create" THEN FinishCreate(k) ELSE UNCHANGED intents
  /\ call' = [call EXCEPT ![c] = Idle]
  /\ UNCHANGED <<now, chain, stakers>>

-----------------------------------------------------------------------------
(* Mutant: the expiry is compared with <.                                  *)
BeginConfirmAtExpiry(c, u, i, h) ==
  /\ call[c].pc = "idle"
  /\ Owns(u, i) /\ IsPending(i)
  /\ intents[i].expiresAt >= now
  /\ call' = [call EXCEPT ![c] = [Idle EXCEPT !.pc = "tx", !.kind = "confirm", !.user = u,
                                              !.nowMs = now, !.intent = i, !.hash = h]]
  /\ UNCHANGED <<now, chain, stakers, intents, snapshots, cache>>

(* POST /api/staking/confirm, up to fetchTransaction.  A row that is       *)
(* missing, another wallet's or not pending is refused with no effect; one *)
(* past its expiry is expired.                                             *)
BeginConfirm(c, u, i, h) ==
  /\ call[c].pc = "idle"
  /\ Owns(u, i) /\ IsPending(i)
  /\ intents[i].expiresAt > now
  /\ call' = [call EXCEPT ![c] = [Idle EXCEPT !.pc = "tx", !.kind = "confirm", !.user = u,
                                              !.nowMs = now, !.intent = i, !.hash = h]]
  /\ UNCHANGED <<now, chain, stakers, intents, snapshots, cache>>

ConfirmExpired(u, i) ==
  /\ Owns(u, i) /\ IsPending(i)
  /\ intents[i].expiresAt <= now
  /\ intents' = ExpireAll(intents, {i})
  /\ UNCHANGED <<now, chain, stakers, snapshots, cache, call>>

(* No transaction under the hash: 202 TX_PENDING, and nothing is stored.   *)
TxUnknown(c) ==
  /\ call[c].pc = "tx"
  /\ chain[call[c].hash] = None
  /\ call' = [call EXCEPT ![c] = Idle]
  /\ UNCHANGED <<now, chain, stakers, intents, snapshots, cache>>

(* fetchTransaction throws: the error is answered.                         *)
TxFetchFails(c) ==
  /\ call[c].pc = "tx"
  /\ call' = [call EXCEPT ![c] = Idle]
  /\ UNCHANGED <<now, chain, stakers, intents, snapshots, cache>>

(* Mutant: the UPDATE without AND status = 'pending'.                      *)
SettleRowAnyway(i, status, h, confirmedAt) ==
  intents' = [intents EXCEPT ![i].status = status, ![i].txHash = h,
                             ![i].confirmedAt = confirmedAt]

(* UPDATE ... WHERE id = ? AND status = 'pending'                          *)
SettleRow(i, status, h, confirmedAt) ==
  IF IsPending(i)
  THEN intents' = [intents EXCEPT ![i].status = status, ![i].txHash = h,
                                  ![i].confirmedAt = confirmedAt]
  ELSE UNCHANGED intents

(* An unsuccessful execution fails the intent, before the sender and the   *)
(* amount are looked at.                                                   *)
TxFailed(c) ==
  LET k == call[c] IN
  /\ k.pc = "tx"
  /\ chain[k.hash] # None /\ ~chain[k.hash].executionResult
  /\ SettleRow(k.intent, "failed", k.hash, None)
  /\ call' = [call EXCEPT ![c] = Idle]
  /\ UNCHANGED <<now, chain, stakers, snapshots, cache>>

(* Mutant: any wallet's transaction of the right amount will do.           *)
MatchesAnySender(row, u, tx) == MatchAmount(row.params, tx.value)

Matches(row, u, tx) == tx.from = u /\ MatchAmount(row.params, tx.value)

(* The sender or the amount differs: 422 TX_MISMATCH, no effect.           *)
TxMismatch(c) ==
  LET k == call[c] IN
  /\ k.pc = "tx"
  /\ chain[k.hash] # None /\ chain[k.hash].executionResult
  /\ ~Matches(intents[k.intent], k.user, chain[k.hash])
  /\ call' = [call EXCEPT ![c] = Idle]
  /\ UNCHANGED <<now, chain, stakers, intents, snapshots, cache>>

(* The UPDATE to confirmed.  When it changes the row the position cache is *)
(* cleared and the position is read without the Pending overlay; when the  *)
(* row is no longer pending the request is refused.                        *)
TxMatches(c) ==
  LET k == call[c] IN
  /\ k.pc = "tx"
  /\ chain[k.hash] # None /\ chain[k.hash].executionResult
  /\ Matches(intents[k.intent], k.user, chain[k.hash])
  /\ SettleRow(k.intent, "confirmed", k.hash, k.nowMs)
  /\ IF IsPending(k.intent)
     THEN /\ cache' = [u \in Users |-> None]
          /\ call' = [call EXCEPT ![c] =
                        BeginRead("confirm", k.user, None, k.nowMs, FALSE, FALSE)]
     ELSE /\ UNCHANGED cache
          /\ call' = [call EXCEPT ![c] = Idle]
  /\ UNCHANGED <<now, chain, stakers, snapshots>>

-----------------------------------------------------------------------------
(* POST /api/staking/cancel-pending                                        *)
CancelPending(u) ==
  /\ Abandoned(u) # {}
  /\ intents' = ExpireAll(intents, Abandoned(u))
  /\ UNCHANGED <<now, chain, stakers, snapshots, cache, call>>

(* GET /api/staking/intent/:id of an own row that is pending and past its  *)
(* expiry.  Here the expiry itself is still in time.                       *)
GetOwnedIntent(u, i) ==
  /\ Owns(u, i) /\ IsPending(i)
  /\ intents[i].expiresAt < now
  /\ intents' = ExpireAll(intents, {i})
  /\ UNCHANGED <<now, chain, stakers, snapshots, cache, call>>

-----------------------------------------------------------------------------
(* The surroundings: a transaction reaches a block; the chain changes a    *)
(* staker (after a transaction, a reward, an epoch); the clock; a restart, *)
(* which keeps the database only.                                          *)
MineTx(h, tx) ==
  /\ chain[h] = None
  /\ chain' = [chain EXCEPT ![h] = tx]
  /\ UNCHANGED <<now, stakers, intents, snapshots, cache, call>>

StakerChanges(u, s) ==
  /\ stakers[u] # s
  /\ stakers' = [stakers EXCEPT ![u] = s]
  /\ UNCHANGED <<now, chain, intents, snapshots, cache, call>>

Tick ==
  /\ now < MaxTime
  /\ now' = now + 1
  /\ UNCHANGED <<chain, stakers, intents, snapshots, cache, call>>

Restart ==
  /\ cache' = [u \in Users |-> None]
  /\ call' = [c \in Calls |-> Idle]
  /\ UNCHANGED <<now, chain, stakers, intents, snapshots>>

Answer(c) ==
  \/ StakerRead(c) \/ StakerReadFails(c)
  \/ \E blockKnown \in BOOLEAN : FinishRead(c, blockKnown)
  \/ TxUnknown(c) \/ TxFetchFails(c) \/ TxFailed(c) \/ TxMismatch(c) \/ TxMatches(c)

Request ==
  \E u \in Users :
    \/ CancelPending(u)
    \/ \E i \in IntentIds : ConfirmExpired(u, i) \/ GetOwnedIntent(u, i)
    \/ \E c \in GetCalls, fresh \in BOOLEAN : GetPosition(c, u, fresh)
    \/ \E c \in CreateCalls, b \in Bodies : BeginCreate(c, u, b)
    \/ \E c \in ConfirmCalls, i \in IntentIds, h \in TxHashes : BeginConfirm(c, u, i, h)

Environment ==
  \/ \E h \in TxHashes, tx \in MinedTxs : MineTx(h, tx)
  \/ \E u \in Users, s \in StakerStates : StakerChanges(u, s)
  \/ Tick
  \/ Restart

Next == Request \/ Environment \/ \E c \in Calls : Answer(c)

Spec == Init /\ [][Next]_vars

-----------------------------------------------------------------------------
(* Every variable stays within its type.                                   *)
TypeOK ==
  /\ now \in Times
  /\ chain \in [TxHashes -> Transactions \cup {None}]
  /\ stakers \in [Users -> StakerStates]
  /\ intents \in [IntentIds -> Rows \cup {None}]
  /\ snapshots \in SUBSET (Users \X Nat)
  /\ cache \in [Users -> Envelopes \cup {None}]
  /\ call \in [Calls -> CallStates]

(* The trust rule of the module: a row is confirmed only by a transaction  *)
(* that is in a block, executed successfully, was sent by the row's owner  *)
(* and moved the recorded amount; whatever the client said.                *)
ConfirmedIsOnChain ==
  \A i \in IntentIds :
    intents[i] # None /\ intents[i].status = "confirmed" =>
      \E h \in TxHashes :
        /\ intents[i].txHash = h
        /\ chain[h] # None
        /\ chain[h].executionResult
        /\ chain[h].from = intents[i].user
        /\ MatchAmount(intents[i].params, chain[h].value)

(* A row fails only on a transaction that is in a block and executed       *)
(* unsuccessfully: a hash not yet visible, a mismatch or an RPC error      *)
(* leave the intent pending.                                               *)
FailedIsOnChain ==
  \A i \in IntentIds :
    intents[i] # None /\ intents[i].status = "failed" =>
      \E h \in TxHashes :
        intents[i].txHash = h /\ chain[h] # None /\ ~chain[h].executionResult

(* An intent is confirmed by a request that came in before its expiry, at  *)
(* the boundary too, however long the chain took to answer.                *)
ConfirmedInTime ==
  \A i \in IntentIds :
    intents[i] # None /\ intents[i].status = "confirmed" =>
      /\ intents[i].confirmedAt < intents[i].expiresAt
      /\ intents[i].confirmedAt >= intents[i].expiresAt - IntentTTL

(* Snapshots of an address are more than the throttle apart, whichever     *)
(* position reads overlap and in whatever order they finish.               *)
SnapshotSpacing ==
  \A s, t \in snapshots :
    s[1] = t[1] /\ s[2] < t[2] => t[2] - s[2] > Throttle

(* A cached Pending overlay comes from an intent of that very address that *)
(* had not reached its expiry when the read that cached it began.          *)
PendingOverlayIsBacked ==
  \A u \in Users :
    cache[u] # None /\ cache[u].state = "Pending" =>
      \E i \in IntentIds :
        Owns(u, i) /\ intents[i].expiresAt > cache[u].expiresAt - CacheTTL

(* A settled or expired row is final: no later confirm, cancel, create or  *)
(* expiry, however they interleave, changes its status, hash or time.      *)
TerminalIsFinal ==
  [][\A i \in IntentIds :
       intents[i] # None /\ intents[i].status # "pending" => intents'[i] = intents[i]]_vars

(* A row leaves pending for confirmed or failed only by a confirm request  *)
(* of its own owner for that very row.                                     *)
OnlyOwnerSettles ==
  [][\A i \in IntentIds :
       IsPending(i) /\ intents'[i].status \in {"confirmed", "failed"} =>
         \E c \in Calls : /\ call[c].kind = "confirm"
                          /\ call[c].intent = i
                          /\ call[c].user = intents[i].user]_vars

(* The rows, seen without operation and clock, follow the life cycle every *)
(* intent is promised: whatever the handlers interleave, a step of theirs  *)
(* opens, settles or lapses intents as IntentLifecycle says, or is hidden. *)
Entry(row) == [ owner  |-> row.user,   params |-> row.params,
                status |-> row.status, txHash |-> row.txHash ]

Book == [i \in IntentIds |-> IF intents[i] = None THEN None ELSE Entry(intents[i])]

Lifecycle == INSTANCE IntentLifecycle
               WITH Owners <- Users, Ids <- IntentIds, Hashes <- TxHashes,
                    OpenRequests <- Bodies, Entries <- MinedTxs,
                    ledger <- chain, book <- Book

ImplementsLifecycle == Lifecycle!LSpec

=============================================================================
