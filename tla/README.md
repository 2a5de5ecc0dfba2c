# A TLA+ development for Steakout

Steakout watches Nimiq proof-of-stake validators for the people who stake with them. Its server
(`server/src`, TypeScript on Node) keeps a SQLite database, reads the chain through JSON-RPC nodes
and the registry of validators through its HTTP API, and answers a web client (`client/src`). The
client signs in with a wallet, shows a staking position, reviews staking operations that the wallet
then signs, and shows what validators have been observed to pay.

Node and the browser run one callback at a time. What makes both hard to test is everything between
two `await`s: handlers of different requests, timers, the chain, the registry, the wallet's dialogs,
lost answers, restarts and reloads come in any order, and much of what was read before an `await` is
used after it. The modules here describe exactly those orders. Each handler is one action per
stretch between two awaits; what it remembers across an await is a field of a record; tables,
in-memory maps, browser storage and React state are variables; a restart or reload keeps what is
stored and drops the rest. What the code computes without waiting is in modules of rules.

Contents:

1. [The system and its parts](#1-the-system-and-its-parts)
2. [The modules and the code](#2-the-modules-and-the-code)
3. [The runs](#3-the-runs)
4. [Bounds](#4-bounds)
5. [Fairness](#5-fairness)
6. [What is proved](#6-what-is-proved)
7. [Where code and documents disagree](#7-where-code-and-documents-disagree)
8. [What is not modelled](#8-what-is-not-modelled)
9. [Plan](#9-plan)
10. [Running it](#10-running-it)

## 1. The system and its parts

| Part | Source | State | Operations | Module |
| --- | --- | --- | --- | --- |
| Staking write path | `server/src/stakingIntents.ts` | table `staking_intents` | create, confirm, cancel-pending, read of an intent | `StakingIntents` |
| Staking position | `server/src/stakingState.ts` | `positionCache` (memory), table `staker_snapshots` | position read with the Pending overlay, throttled snapshot | `StakingIntents`, `PositionRules` |
| Payout indexer | `server/src/payoutIndexer.ts` | tables `transactions`, `index_cursors`; the `running` flag | timer, cycle, workers, walk page by page, commit | `PayoutIndexer` |
| Staking history and growth | `server/src/stakerHistory.ts`, `personalContinuity.ts` | tables `user_staking_actions`, `user_staking_history_scans`; the map of scans in flight | shared scan, watermark, intervals of growth | `GrowthEvidence` |
| Validator directory | `server/src/validatorSync.ts`, `responseCache.ts` | tables `validators`, `validator_observations`, `validator_watchlist`; response cache, `revalidateInflight` | hourly sync, upsert, prune, cached reads, revalidation | `ValidatorDirectory` |
| Sign-in | `server/src/auth.ts` | tables `auth_challenges`, `desktop_pairings`, `users`; cookies in browsers | challenge, verify, renewal, pairing | `SignIn` |
| RPC client | `server/src/nimiq-rpc.ts` | sticky endpoint (memory) | call with attempts per endpoint and failover | `RpcClient` |
| Classifier, scoring, watchlist alerts | `server/src/payoutClassifier.ts`, `observationScoring.ts`, `alerts.ts` | tables `validator_observations`, `validator_watchlist`, `user_alerts` | payout runs, schedule grade, recipient coverage, alerts behind a cursor, read marks | `Observations` |
| Payment floors | `server/src/paymentFloor.ts` | table `payment_floors` and its copy in memory | weekly scan, due check, cached read | `PaymentFloors` |
| Personal reads | `server/src/freshness.ts`, `personalContinuity.ts` | none | age and status of an answer, payments, streak, membership | `PersonalReads` |
| Timeline, feed, personal alerts | `server/src/activity.ts`, `alerts.ts` | table `user_alerts` | merge of three sources, alerts derived on read | `ActivityFeed` |
| Directory reads | `server/src/validators-api.ts`, `validatorSync.ts`, `observationsApi.ts` | none | normalisation, seven orders, list, profile, evidence pages, network summary | `DirectoryReads` |
| Canary probes | `server/src/probeRoster.ts`, `probeSnapshots.ts` | table `staker_snapshots` | roster, summaries, coverage, snapshot cycle | `Canaries` |
| Rate limits, counters, balance, declared payouts, diagnostics | `server/src/rate-limit.ts`, `metrics.ts`, `walletBalance.ts`, `minPayoutDeclarations.ts`, `diagnostics.ts` | buckets (memory), counters | admission, counting, open contracts, gaps | `ServerReads` |
| Client wallet session | `client/src/wallet/useWallet.ts`, `nimiq.ts`, `session.ts`, `hubLoginRedirect.ts`, `components/OpenInNimiqPayQr.tsx` | React state and refs, `sessionStorage`, the URL, the cookie | boot, connect on each device, Hub redirect, deeplink, disconnect, pairing | `WalletSession` |
| Client stake flow | `client/src/staking/StakeFlow.tsx`, `pendingIntent.ts`, `api/staking.ts`, `components/PhoneApproveIntent.tsx` | React state and refs, a record in `localStorage` | review, sign, poll, resume, cancel, approval on a phone | `StakeFlow` |
| Client stake form | `StakeFlow.tsx`, `staking/amounts.ts`, `ReviewSheet.tsx` | none | presets, enabled button, request, review sheet | `StakeEntry` |
| Client public pages | `client/src/validators/*.tsx`, `publicDataCache.ts` | shared requests and cache records, page state | directory, profile, evidence, navigation, prefetch | `PublicViews` |
| Everything else | see [section 8](#8-what-is-not-modelled) | | | |

How they interact:

- **Client to write path.** The client asks for an intent, has the wallet sign and broadcast a
  transaction, and asks for confirmation with its hash, polling while the answer is 202. The server
  trusts neither the hash nor the amounts it is sent: it fetches the transaction from a node.
- **Write path to position.** A create reads the position (without the cache) before it decides, a
  confirm clears the cache and reads it again. A pending intent turns the position into Pending.
- **Position to growth.** Every position read may leave a snapshot. Growth is what two snapshots
  differ by when the stored staking history explains none of it.
- **Registry to indexer.** The sync fills in the reward addresses; the indexer walks the reward
  addresses that are listed, and calls the classifier, whose observations refer to the validator row.
- **Directory to cache.** Public endpoints answer from a stale-while-revalidate cache, which the sync
  clears.
- **Sign-in to everything.** Every `/api/me` and `/api/staking` handler runs behind a session.
- **Everything to the chain.** Positions, confirms, walks, scans and probes all go through the RPC
  client, which shares one sticky endpoint among them.
- **Indexer to observations to readers.** A cycle stores transactions, then runs, grade and coverage in
  writes of their own; the evidence page, the directory, continuity, the timeline and the alerts read
  those rows; payment floors read the transactions.
- **Wallet session to sign-in, stake flow to intents.** The client's modules take the server for what
  `SignIn` and `IntentLifecycle` say it is.

Where it is hard, and what has to be right:

| Part | What interleaves | What must hold |
| --- | --- | --- |
| Write path | two creates; confirm against cancel, expiry, create and another confirm; a late answer of the node; a restart after the UPDATE | confirmed only by a successful transaction of the owner with the amount; a settled row is final; settled by its owner only; in time |
| Position | overlapping reads that end in another order; a read across a confirm | snapshots stay spaced; a cached Pending comes from an intent of that address that was in time |
| Indexer | walks of addresses that share transactions, new blocks and lagging nodes between pages, failing pages, commit or classifier, restart with and without cleared cursors | nothing is missing below a cursor; cursors do not move back; one cycle at a time; what is listed is stored and classified in the end, but for what a walk without pages to go left behind |
| Growth | requests that share a scan, transactions that land during it, nodes behind one another, unreadable rows, a page budget | an interval with an action that every node knew is never growth; nobody waits for a scan that is gone; every request is answered |
| Directory | requests between the awaits of a sync, foreign keys against the prune, failing loaders | what is served is what the directory has; rows of before a failed prune are served no longer than the cache keeps an entry; no reference dangles; the directory follows the registry |
| Sign-in | repeated requests, lost answers, a second approval, expiry at equality | a session is of an address whose key was proved; one session per challenge and per pairing; a session in use does not lapse |
| RPC client | calls between each other's attempts, answers that arrive late, endpoints that come and go | an endpoint that stays down is not preferred for ever; an endpoint that is up throughout is reached; every call ends |
| Observations | a crash between the writes of a cycle, late payouts that regroup runs, another schedule or version, reads of the inbox between cycles | the evidence is repaired by the next cycle; no alert is taken back or unread again; only news is told |
| Wallet session | overlapping logins, disconnect, deeplink timer, return from the Hub with or without an answer, reload anywhere | what is shown was granted; the button comes back |
| Stake flow | reload and close anywhere, answers to a dialog that moved on, cancels that are not waited for, a phone that approves meanwhile | success is confirmed; a review sends one transaction; the record is of something sent; the dialog comes back |
| Public pages | shared requests aborted by one of their callers, late answers after navigation, prefetch | a profile shows its own data; the cache never goes back; what is kept is shown before a skeleton or an error; no page stays loading |
| Payment floors | refreshes that fail, restarts and reads between two scans | a reader sees one scan's floors, those in the table |

`PROJECT.json` lists each hazard at its line with the properties that would catch it.

## 2. The modules and the code

Conventions. `None` is a missing row, entry or field. Identifiers (addresses, hashes, uuids) are
model values, amounts are naturals, clocks and lifetimes are ticks. An operation that is refused
without an effect has no action: it would be a stuttering step. A comment "Mutant:" marks a
definition that no specification uses: it is a variation of a definition after it, as a plausible
bug would have it, kept to show that the property named with it in `PROJECT.json` notices.

### PositionRules

The pure rules: `NormalizePositionState` (the six states of `normalizePositionState`), `ValidParams`
(`parseAndValidateParams`), `StatesAllowing` (`assertStatePreconditions`), `AmountWithinPosition`
(`assertAmountAgainstPosition`), `Admissible` (all that stands between the position read of a create
and its INSERT), `MatchAmount` (`matchAmount`).

### StakingIntents

Both `stakingIntents.ts` and the position read of `stakingState.ts`, in one module because a create
and a confirm run the position read as their own continuation.

| State | Code |
| --- | --- |
| `intents` | table `staking_intents`; `confirmedAt` is the clock the confirm captured |
| `snapshots` | table `staker_snapshots`, as (address, observed_at) |
| `cache` | `positionCache`, with the expiry computed from the clock of the start of the read |
| `call` | handlers in flight: `pc` names what is awaited, the other fields what was captured before |
| `chain`, `stakers` | the Nimiq chain: transactions in blocks, staker records |

| Action | Code |
| --- | --- |
| `BeginCreate`, `StakerRead`, `StakerReadFails`, `FinishRead` | `createStakingIntent`: expire the abandoned intents, capture clock and overlay, await balances, await the block number, then snapshot, admissibility and INSERT |
| `GetPosition` and the same continuation | `GET /api/me/staking-position` that the cache does not answer |
| `BeginConfirm`, `ConfirmExpired` | `confirmStakingIntent` up to `fetchTransaction` |
| `TxUnknown`, `TxFetchFails`, `TxFailed`, `TxMismatch`, `TxMatches` | its answers; `TxMatches` clears the cache and begins a read |
| `CancelPending`, `GetOwnedIntent` | `POST cancel-pending`, `GET intent/:id` |
| `MineTx`, `StakerChanges`, `Tick`, `Restart` | the surroundings; a restart empties `cache` and `call` |

### IntentLifecycle

The abstract specification: a book of intents and a ledger, four actions (`Record`, `Open`, `Settle`,
`Lapse`) and no handlers, clock, cache or position. `StakingIntents` maps onto it by dropping the
operation and the times of a row (`Book`), and `ImplementsLifecycle` states that it refines it.

### PayoutIndexer

A transaction is its position in the chain, its block a function of it and the block the clock, so
the time floor of a backfill is a number of blocks. `cycle` is the scheduler with the addresses no
worker has taken; `walk[a]` is `runAddress` with the cursor it read, its floor, the last transaction
of the page before, its page and attempt counters, what it keeps in memory and the watermark it will
store. `PageArrives` is a page from a node that may be up to `MaxLag` blocks behind; the last page of
a walk continues, without an await, with the database transaction and the classifier (`Commit`).
`FetchFails` is an attempt that fails, `WalkFails` a malformed row or a database error. `Relist` is
the registry sync seen from here, `Restart(TRUE)` a start with `INDEXER_REBACKFILL`. `Parties` says between
which addresses a transaction may be. `base` and `truncated` are history: the floor of the walk that
created a cursor, and whether a walk ran out of its page budget with something left below its last page
and above its cursor or floor (`Left`).

### GrowthEvidence

One wallet. `BeginSnapshot` and `FinishSnapshot` are a position read: the clock first, the balances
later; of a snapshot the time is kept. Several transactions may share a tick, and one may land in a tick
after others have read the clock. A page is answered by a node that may be behind (`Views`): it knows
what was `MaxLag` ticks old when the scan began, and the transaction the page is to continue from.
`scan` is the promise in `inFlightByDatabase`, `request` the requests that own or await it,
`coverage` the row of `user_staking_history_scans`. `PageArrives` stores the actions of a page and,
at the end of the scan, the watermark (`Claims`, `Merged`), and releases the waiters, of whom one
that is not covered scans next (`Release`). `IsGrowth` is what `readObservedPositionGrowth` counts.

### ValidatorDirectory

`sync` is a run of `syncValidators` between its awaits: two snapshots of the registry, then a reward
address at a time; `FinishSync` is all that follows, `Prunes` the prune that foreign keys undo,
`Clears` whether the cache is cleared after it. `cache` and `inflight` are the two maps of
`responseCache.ts`; a `Request` that finds no fresh entry computes and stores one, at once or as the
revalidation behind a stale answer, which without an await is the same step. `Bounded` is the
eviction. `Observe`, `Watch` and `Unwatch` are the classifier's and the wallets' rows that refer to a
validator. `outdated` is history: when rows last changed while a failed prune left the cache as it was.

### SignIn

No handler of `auth.ts` awaits anything but the body of its request, so each is one action. A session
is a signed cookie, kept in `cookie[b]` by the browser the answer reached; `Receive` lets any answer
get lost. `signed` is what wallets signed, their own challenge or another's. `UseSession` stands for
`requireAuth`, `optionalAuth` and `GET /api/me` in front of every handler. `lastUse` and `grants` are
history.

### RpcClient

`call[c]` is a logical call with the order of endpoints it took when it began (`Ordered`), the
endpoint it is at, its attempt and the answer on its way to it: `NodeAnswers` is the node, and what the
call does when it learns the outcome is `Retry`, `Failover`, `Succeed` or `FailCall`, by which time the
node may be down.
Answers are classes: what `isRetriable`, `isFailoverEligible` and the typed readers tell apart.
`Change` takes an endpoint down or up. `steady` is history: which endpoints were up since a call began.

### Observations

One validator and one user. `stage` walks through the four writes of a cycle (`Store`,
`ClassifyRuns`, `ScoreAdherence`, `ClassifyCoverage`), between which only `Crash` comes, since they
await nothing. `GroupPayoutRuns` is the grouping, `Score` the grade, `Persisted` the reconciliation of
stored with recomputed rows. `Deploy` is another `CALC_VERSION`, `Declare` another schedule.
`ReadInbox`, `MarkRead` and `MarkAllRead` derive the alerts of a watch behind its cursor
(`EnsureUserAlerts`).

### WalletSession

One tab. `page` is the boot (`BootSession`, `Setup`, `MeAnswers`) or the absence at the Hub; `login`
the chains of awaits that connect starts, by the button, automatically in Nimiq Pay, or as the
continuation of a redirect; `flight`, `deeplink`, `timer`, `skip` the refs that guard them. `Load`
(reload, return) drops all but `sessionStorage` (`stored`, `requests`), the `url` and the `cookie`.
`pair` and `claim` are the QR code of a desktop. `granted` is history.

### StakeFlow

One wallet, one browser, and a phone. The dialog is `phase`, `review`, `lock`, `called`; what awaits
(create, wallet, the three polling loops, the clearing of a stale pending intent) is an element of
`tasks`, marked `dead` when its controller is aborted, and outlives the dialog. `record` is
`localStorage`. The server is an instance of `IntentLifecycle`, so the composition with the write path
is over what `StakingIntents` is proved to implement. `sent` is history: what the wallet sent and for
which intent.

### PublicViews

`inflight` are the shared requests of `withPublicCache`, each with the page whose abort signal it
carries; `cache` the records (memory and `sessionStorage` are written together, and both writes are
taken to succeed: section 7). `directory`,
`profile` and `evidence` are the state of the mounted pages with the request they wait for. Navigation,
sort, retry, later pages, prefetch, reload and ageing are actions; a `Settles` step is the end of one
request as seen by all who wait for it.

`RpcClient`, `WalletSession`, `PublicViews` and `Observations` prefix `vars`, `Init`, `Next`, `Spec` and
`TypeOK` with a name of their own, and `RpcClient` and `Observations` call their missing value `Null`,
so that a module of proofs can extend several of them.

### PaymentFloors

`table` and `memory` are `payment_floors` and its copy with its time; `Refresh` is the scan in one
database transaction, `RefreshFails` the one that leaves all as it was, `Load` a read, `Restart` loses
the copy. `ComputePaymentFloors` is the scan, with the 5th percentile in twentieths of a Luna.

### StakeEntry, PersonalReads, ActivityFeed, DirectoryReads, Canaries, ServerReads

Rules without state of their own: each definition is a function of the source, or the set of answers
it may give where the order of equals is left open (`NewestOf`). They are used by no run; they are the
subject of the proofs in the modules named after them, for every content of the tables.

### MC and proof modules

`MCStakingIntents` gives `StakingIntents` bodies, staker records and transactions; the other modules
need only sets of model values and are their own instances. The theorems are in `StakingIntentsProofs`,
`DirectoryProofs`, `SignInProofs`, `IndexerProofs` (`PayoutIndexer` and `Observations`), `GrowthProofs`,
`StakeFlowProofs`, `ClientProofs` (`RpcClient`, `WalletSession`, `PublicViews`) and `RuleProofs` (the modules of rules and
`PaymentFloors`).

## 3. The runs

| Run | Configuration | Properties | What it shows |
| --- | --- | --- | --- |
| `settle` | `MCSettle.cfg` | `ConfirmedIsOnChain` `ConfirmedInTime` `ImplementsLifecycle` | two wallets fight over two hashes with two creates, two intents and two confirms in flight |
| `position` | `MCPosition.cfg` | `SnapshotSpacing` `PendingOverlayIsBacked` | reads, a create and a confirm that overlap |
| `indexer` | `MCIndexer.cfg` | `TypeOK` `NoGapBelowCursor` `CursorsMoveForward` `ListedCatchUp` | two addresses that share transactions, one failure of any kind at any point; walks that run out of pages |
| `growth` | `MCGrowth.cfg` | `TypeOK` `GrowthHasNoAction` `EveryRequestIsAnswered` | two requests, one scan of several pages, a history that grows, is unreadable in places and is answered by nodes behind one another |
| `directory` | `MCDirectory.cfg` | `CacheFollowsDirectory` `OutdatedRowsExpire` `DirectoryFollowsRegistry` | two validators that come, go and change listing around a sync, whose prune may fail |
| `signin` | `MCSignIn.cfg` | `SessionIsProved` `OneSessionPerGrant` `GrantsInTime` `RegularUseStaysSignedIn` | two wallets, two browsers, two challenges, one pairing, every answer may be lost |
| `rpc` | `MCRpc.cfg` | `RpcTypeOK` `DeadIsDropped` `ReachableIsServed` `EveryCallEnds` | two calls that share the sticky endpoint while endpoints go down and come back and answers arrive late |
| `observations` | `MCObservations.cfg` | `EvidenceIsRepaired` `CycleRepairs` `InboxIsDurable` `NewsIsNew` | payouts that arrive late, in any order, with a crash, another schedule, another version or the end of a watch |
| `wallet` | `MCWallet.cfg` | `WalletTypeOK` `ShownWasGranted` `ButtonComesBack` | a tab inside Pay, on a phone or on a desktop, with logins, redirects, deeplinks, pairs and reloads that overlap |
| `stakeflow` | `MCStakeFlow.cfg` | `TypeOK` `SuccessIsConfirmed` `OneTransactionPerReview` `RecordWasSent` `DialogComesBack` | two intents, two transactions, a dialog that is closed, reloaded and opened again, a phone that approves |
| `publicviews` | `MCPublicViews.cfg` | `ViewsTypeOK` `ProfileShowsItsOwn` `CacheNeverGoesBack` `KeepsLastGood` `PagesSettle` | two profiles, two sort orders, four requests, records that age, data that changes once |
| `stake_close` | `MCStakeClose.cfg` | `CloseAbandonsNothingSent` | the disagreement of [section 7](#7-where-code-and-documents-disagree) about closing the dialog, as a counterexample |

The type invariants of `StakingIntents`, `ValidatorDirectory`, `SignIn` and `Observations` are theorems
([section 6](#6-what-is-proved)), and so are the finality of settled rows, the owner of a settlement
and the references of the directory; no run repeats them.

Every property of the passing runs has a mutant in `PROJECT.json`: a variation of one definition
under which the same run finds the property violated.

## 4. Bounds

Every bound is a constant of its module, marked "bound" where it is declared.

| Run | Bounds | Why that is enough to meet the cases |
| --- | --- | --- |
| `settle` | 2 wallets, 2 intents, 2 creates and 2 confirms in flight, 2 hashes, clock 0..3, lifetime 1 | a conflict needs two confirms or a confirm and a create on one row; the confirms may claim one hash or one each; lifetime 1 has the instants before, at and after an expiry |
| `position` | 1 wallet, 1 intent, a create, a confirm and a read in flight, clock 0..3, lifetime, cache and throttle 1 | two reads may overlap and end in either order, at distances below, at and above the throttle |
| `indexer` | 2 addresses, 3 transactions of the first of them or of both, 3 blocks, pages of 1, 2 pages, 2 attempts, 2 workers, a lag of 1, 1 fault | pages of one transaction give walks of several pages; transactions in one block or in several; a shared transaction is met by two walks; the budget of two pages ends a walk over three transactions early, and `ListedCatchUp` fails without its exception for such walks |
| `growth` | 2 requests, 2 transactions, clock 0..3, pages of 1, 2 pages, a window of 2 snapshots, throttle 0, a lag of 1 | the budget ends a scan of two transactions before the empty page; the window drops the oldest of three snapshots; two transactions, or one and a snapshot, may share a tick; the node misses the last tick |
| `directory` | 2 validators, capacity 2 of 3 keys, clock 0..2, fresh and stale 1, 1 fault or change of the registry (of any number of validators) | a full cache evicts; an entry is met fresh, stale and gone; a change lands between any two awaits |
| `signin` | lifetimes 1 and 2, clock 0..3 | the instants before, at and after every expiry, and exactly half a session |
| `rpc` | 2 endpoints (all there are), 2 calls, 2 attempts | a slow call overlaps one that moves the sticky endpoint, and its answer may arrive after the endpoint went down; an attempt fails before the last and at the last |
| `observations` | payouts at 3 ticks, window 1, interval 1, 2 versions, clock 0..2, 1 upset | the payouts make one run or two, and a late one joins two into one; the upset is a crash, a deployment, another schedule or an unwatch at any point |
| `wallet` | 3 wallets, 3 devices, 8 loads and pairs | boot, the trip to the Hub and back, a reload in between, and the same again for two more wallets |
| `stakeflow` | 2 intents, 2 transactions, 1 cancel on its way, 2 openings inside Pay and 1 in a browser | a second intent follows an abandoned one, a second transaction is possible for either, a dialog is reopened on the record of the one before |
| `publicviews` | 2 addresses, 2 orders, 2 versions of the data, 4 requests | two requests overlap for one key and for two, an answer comes after the page it was for, and one more request follows |

## 5. Fairness

Safety is checked without fairness, and proved from the same formulas. The liveness properties assume:

- `PayoutIndexer!FairSpec`: the interval timer fires, workers take addresses, cycles end, and a page
  is answered by a node that is up to date, each weakly fair. The timer is a `setInterval`, RPC calls
  time out, and the failures, late nodes and restarts there are count against `MaxFaults`, so in the
  end there are none: the property says what happens once the failures are over.
- `GrowthEvidence!FairSpec`: a page of a scan is answered or refused in the end (`PageAnswered`), since
  RPC calls time out. Which of the two is left open, and how far behind the node is, so the property
  holds for a node that refuses every page.
- `ValidatorDirectory!FairSpec`: the timer fires, the registry's two answers arrive, some reward
  address that is asked for gets answered, and a sync ends; failures are bounded by `MaxFaults`.
  `DirectoryFollowsRegistry` further supposes that what is referred to stays in the registry, since
  the prune of anything else fails (section 7).

- `RpcClient!RpcFairSpec`: every request is answered or runs into its timeout, and the call learns which;
  which of the two, is left open. That endpoints stay down and calls go on is a premise of
  `DeadIsDropped`, not an assumption.
- `Observations!ObservationsFairSpec`: the scheduler starts cycles and a cycle goes on unless the process ends;
  upsets are counted against `MaxUpsets`, so `EvidenceIsRepaired` speaks of the cycles after the last.
- `WalletSession!WalletFairSpec`: the server answers, the wallet's dialogs are answered or dismissed, timers
  fire. Nobody has to come back from the Hub or scan a code.
- `StakeFlow!FairSpec`: the tasks of each dialog go on, since the server answers, the wallet answers
  and each polling loop has a budget of time. Nobody has to press a button.
- `PublicViews!ViewsSpec`: each request ends sooner or later; the browser reports failures too.

No fairness is assumed of users, of the clock, of the chain or of restarts. `CHECK_DEADLOCK FALSE`
stands where the bounds on ticks, loads, mounts or requests let the system come to rest.

## 6. What is proved

The theorems hold for all values of the constants that satisfy the assumption of the module
(`IntentsAssumption`, `DirectoryAssumption`, `SignInAssumption`, `IndexerAssumption`,
`ObservationsAssumption`, `GrowthAssumption`, `FlowAssumption`, `RpcAssumption`, `WalletAssumption`, `ViewAssumption`;
`RuleProofs` rests on `NoneAssumption`): that `None` is none of the values it stands in for, that
lifetimes, page sizes and attempts are naturals (positive where the code's constant is and the proof
needs it), that the uuids of challenges and pairings differ, that the registry and the versions of the calculation are finite, that devices
are among those the code knows. No assumption bounds the number of wallets, intents, calls, addresses,
transactions, browsers or validators, and where a constant bounds a run (ticks, faults, loads,
requests) the theorems hold for every value of it.

**StakingIntentsProofs.**
`TypeCorrect` rests on `TypeInv`, which adds to `TypeOK` the shape of a call (`CallShape`): a handler
that resumes uses fields its request has filled in, and `TypeOK` alone does not say which.
Everything about the table follows from one lemma, `RowSteps`: a step leaves a row alone, inserts it,
expires it when pending, or settles it by a confirm in flight (`RowStep`).
`TerminalRowsAreFinal` and `SettledByOwner` follow at once, the latter with `CallsInOrder`: a confirm
that awaits its transaction was sent by the owner of its row and within the row's time. That this
still holds when the answer comes rests on `RowKept` (owner, parameters and expiry of a row never
change) and is why a check before an await may be relied on after it.
`SettledSafety` is the trust rule: `SettledInv` (each settled row is sound) is inductive on top of
`OrderInv`, and needs that transactions in blocks stay (`ChainKept`). `ConfirmationsAreInTime` is the
part of it about time.
`SnapshotsAreSpaced` is inductive by itself.
`Implementation` maps each step to one of the abstract module or to a stutter: an insertion to
`Open`, a settlement to `Settle`, an UPDATE to expired to `Lapse` of the rows it touches, a block to
`Record`.
`OverlaysAreBacked`, of the position read: the cache entry alone says too little, so the invariant also
speaks of reads in flight (`ReadsBacked`): the overlay a read captured is backed by an intent of that
address that was in time at the clock it captured, whatever happens to the intent before the read ends.

**SignInProofs.**
`TypeCorrect` needs `OpenPairings`: an approved pairing has an address and an approval that has
passed, and what is still open was never claimed.
`SessionsAreProved`: identity is handed from challenges to cookies to pairings to cookies, so the
invariant covers the addresses in pairings as well (`CookiesKnown`, `PairingsKnown`).
`GrantsAreSingle`: what was handed out left a mark on its row (`GrantsMarked`) and a marked row is
refused, a claimed pairing also after its status was overwritten.
`RenewalKeepsSignedIn`: every answered request leaves more than half of the lifetime (`HalfLeft`).
`GrantsAreInTime` is inductive over `TypeInv`, a row at a time.

**DirectoryProofs.**
`TypeCorrect` includes the bound of the cache: one more entry than the capacity is cut back by the
expired ones or by half, rounded up (`BoundedFacts`).
`CacheIsCurrent` needs that a directory whose prune failed is not empty: a sync with nothing to store
and nothing to prune leaves the cache alone and counts as a successful prune.
`OldRowsExpire` rests on the same invariant (`CacheInv`): an entry that does not show the rows was stored
before they last changed under a failed prune (`LeftBehind`), and no entry is kept longer than the two
lifetimes from when it was stored (`Aged`).
`ReferencesAreKept` rests on `RowStays`, what a sync leaves of one row.

**IndexerProofs.**
`NoGaps`: below the cursor of an address every transaction is stored, whatever failed, restarted or
was truncated before. The cursor alone says too little, since a walk goes from the newest transaction
down and stores nothing until it ends. `IndexInv` adds what a walk holds in memory (`WalkInOrder`): it
has kept everything from the last transaction it saw up to the watermark it will store, and that lies
no lower than the cursor it started from. A page that reaches the cursor closes the gap
(`WalkIsComplete`, from `KeptIs` and `PageIs`: a page is a contiguous piece of the address's
transactions). `NewestIs` and `OldestIs` need that a nonempty set of transactions has a greatest and a
least element (`GreatestExists`, `LeastExists`, by the well-foundedness of the naturals).
`CursorsForward` is an action property of the same invariant. Walks that ran out of pages are left out
by the property (`truncated`, section 7).
Of `Observations`: `RunsPartition` says what the grouping of payouts makes of any set of them.
`CyclesRepair` is the safety behind `EvidenceIsRepaired`: when the last write of a cycle is done, the
evidence agrees with the payouts, whatever was left by crashes, late payouts, other schedules and other
versions. `ObservationsInv` says which tables the writes of the cycle so far have put right
(`CycleGoes`), that a version not deployed yet has no rows (`NothingLater`), so that readers see those
of the running one, and that all rows are drawn from stored payouts (`RowsAreDrawn`), so that the rows of
older versions do not show when there is nothing to show. `InboxStays` and `OnlyNewsIsTold` rest on
what one derivation of the inbox does (`EnsureIs`).

**GrowthProofs.**
`GrowthsHaveNoAction`: an interval shown as growth has no action of the wallet in it, though snapshots,
stored actions and the watermark are written by different requests. `GrowthInv` says that from the
first snapshot that is shown up to the lag of the nodes before where the coverage reaches everything is told (`CoverageHolds`), and
of a scan that goes on that it has stored every action from the last transaction it saw up to the clock
at its start (`ScanHolds`). That old watermarks may be kept rests on `ShownMovesForward`: the first
snapshot that is shown only moves to later ones. What is at the edges of what a scan can see
(`AtTheEdge`: younger than the lag of the nodes when it began, or in the tick of the oldest snapshot
shown) is left out by the property (section 7).

**StakeFlowProofs.**
`SuccessesAreConfirmed`, `ReviewsAreSentOnce` and `RecordsWereSent` rest on one invariant, `FlowInv`,
about everything that outlives the dialog: whatever a task, the record or the dialog holds on to is an
intent the server knows (`RowsExist`); what is under review was neither sent nor given to the wallet
(`ReviewIsNew`); the wallet is asked once for an intent, before it is sent (`WalletAskedOnce`); what
came back from it was sent (`ReturnedWasSent`); a polling loop that is told "confirmed" is told so of a
row in a block (`ConfirmedInBlock`). The server enters by `ServerKeeps`: rows and blocks stay and a
confirmed row is final, which is proved of each operation of `IntentLifecycle`, the module that
`Implementation` shows the server to implement.

**ClientProofs.**
`RpcClient`: `ReachableAreServed` rests on `SteadyAreAhead`, an endpoint that was up
throughout a call is still before it in its order; the call that fails has none before it.
`WalletSession`: `ShownWalletsWereGranted` covers every place an identity passes through on its way to
the screen: the logins under way, the trip to the Hub, the pairing of a desktop, the stored session
(`LoginsKnowWallets`, `HubIsAsked`, `PairIsApproved`, `StoredWasGranted`), and needs that after boot
what is shown and what is stored agree (`InStep`).
`PublicViews`: `ProfilesShowTheirOwn` needs that what a page waits for is the request for what it
shows; `CachesNeverGoBack` needs `AnswersAreNew`, an answer on its way is as new as what is kept for its key,
which holds since there is one request per key and an aborted one is followed by its successor
(`OwnersAbort`). `LastGoodIsKept` needs `WaitersAreBlank`: a page that waits and shows no data has nothing
kept that it could show, since no answer but the one it waits for can be kept for its key; so the error
it shows when that fails hides nothing, on every way there, through a skeleton too.

**RuleProofs.**
`HeadroomStays`: what the form lets through leaves one NIM behind. `PresetsAreAccepted`: no button
offers what Continue refuses. `RequestsAreValid` and `EnabledIsAdmitted` relate the form to the
server's rules of `PositionRules`: the body is well formed, and on the same position it is admitted,
except that stake may be added to a position that is retiring, withdrawable or pending, which the
button allows and the server refuses. `WalletsSendTheRequest`: what the wallet on the desktop and the
one on the phone are asked to send is the stored request, whatever the server's summary leaves out.
`StreakBounds` and `ContinuityClaims` (continuity never says more than the rows do),
`TimelineShowsTheNewest` (cutting each source before the merge loses nothing of what the reads of the
sources returned that belongs on the page; the argument counts the items of a source that are newer), `DerivingAgainChangesNothing` (reading the
inbox twice is reading it once, and read marks stay), `CanaryClaims`, `CoverageAddsUp`,
`OneSnapshotPerCycle`, `RetryAfterIsEnough`, `ConnectsAddUp`.
`OrderIsStrict`: the comparators of the seven orders are strict and total. All sort keys of an order
have one width and end with the address; a comparison of keys is then lexicographic, which
`KeysBefore` lemmas take field by field. `PlacesAreDistinct`, `PagesMeet` and `BucketsPartition` follow
for the list, the evidence pages and the network summary.
`PercentileIsBetween` and `RewardCountsOnce` are about the scan; `FloorsAreOneScan` and
`FloorAnswersAreStored` about the state machine, for every registry and every ledger, by the invariant
`FloorsInv`.

**Only model-checked**: all liveness properties (`ListedCatchUp`, `EveryRequestIsAnswered`,
`DirectoryFollowsRegistry`, `EveryCallEnds`, `DeadIsDropped`, `EvidenceIsRepaired`, `ButtonComesBack`, `DialogComesBack`, `PagesSettle`), since liveness under fairness
is out of reach of the provers used. Every safety property of every passing run is a theorem.
`PaymentFloors` and the modules of rules are proved about and have no run.

## 7. Where code and documents disagree

The run `stake_close` ends in a counterexample to what the code says of itself:
`client/src/staking/StakeFlow.tsx:704` frees the pending lock only "without a chain tx", but after
CONFIRM_TIMEOUT the flag that says whether the wallet was called has been reset (`:678`), so closing
the error view abandons an intent whose transaction is out: the record is removed and cancel-pending
expires the intent.

Met while modelling. The modules do what the code does; the properties are stated so as to leave these
cases out, or there is none.

| Where | The repository says | The code does |
| --- | --- | --- |
| `stakingIntents.ts:851` | an intent that recorded a hash is not cancelled (`docs/API.md:395`) | no pending row ever gets a hash: the one told in a confirm that answers 202 is dropped |
| `stakingIntents.ts:688` | a limit on pending intents rejects duplicates (`tests/manual/failure-matrix.md:24`) | two creates check before their awaits and insert after them |
| `stakingIntents.ts:887` | a confirm compares operation, amount and delegation (`docs/API.md:400`) | sender and amount only |
| `stakingIntents.ts:687` | | a create expires the abandoned intents of the wallet although it may itself be refused later |
| `stakingState.ts:501` | a confirm clears the cached position (`stakingIntents.ts:921`) | a read that began before the confirm stores its entry after it, and the position stays Pending until the entry ages out |
| `payoutIndexer.ts:349` | never advance the cursor on partial data (`docs/DATA-MODEL.md:216`) | a walk with a cursor that runs out of pages stores its watermark, and what it left below is not fetched again (`truncated`) |
| `stakerHistory.ts:226` | an interval counts only when a scan covers its complete time range (`docs/API.md:334`, `docs/METHODOLOGY.md:69`) | a scan claims coverage up to the clock of the server at its start, whatever the node that answered had seen: an action the node did not know yet lies in the covered interval unseen, and the interval is told as growth (without the first half of `AtTheEdge`, TLC finds this within the bounds of `growth`) |
| `stakerHistory.ts:198` | an interval is excluded when there is an action in it | a scan stops at the first transaction as old as the oldest snapshot: of two in that tick, cut apart by the end of a page, the older is not fetched |
| `stakingState.ts:494` | staking activity is never growth (`alerts.ts:226`) | a snapshot has the clock of before its awaits and the balance of after them |
| `validatorSync.ts:495` | rows of another network cannot be left behind (`validatorSync.ts:446`) | a row with observations or watchers undoes the whole prune, and the cache is not cleared (`outdated`) |
| `responseCache.ts:230` | after a failed revalidation the next request may try again (`:225`) | loaders are synchronous, so the key is taken out of the map before it is put in, and stays |
| `nimiq-rpc.ts:542` | an endpoint is preferred until it fails transport (`:144`) | an error of the method gives it up as well |
| `nimiq-rpc.ts:525` | an endpoint is preferred until it fails transport (`:144`) | the answer of a slow call makes an endpoint sticky again that has failed another call since, until a call finds it down once more |
| `rate-limit.ts:2` | sliding window | fixed window |
| `docs/DATA-MODEL.md:247`, `docs/SECURITY.md:49` | daily cleanup of challenges and pairings | there is none |
| `PhoneApproveIntent.tsx:145` | an approval is single-use (`docs/SECURITY.md:22`) | after a timeout of the polling the page offers to approve again, which sends a second transaction |
| `StakeFlow.tsx:673` | the record is kept so that a reload can resume (`:672`) | a network error during polling clears it |
| `StakeFlow.tsx:1216` | | a confirm whose answer is lost ends in "No on-chain change was confirmed" |
| `StakeFlow.tsx:696` | | the cancel of a dropped review is not waited for and may expire the intent of the next one |
| `StakeFlow.tsx:1344` | | the button allows adding stake to a position the server will refuse (`stakingIntents.ts:419`) |
| `Directory.tsx:190` | the list is marked while a refetch is in flight (`:44`) | a refresh while one is under way joins the request it has just aborted, and the list says it is updating for ever |
| `Directory.tsx:194` | | a fetch that fails after a change of order leaves the list of the other order without a word |
| `Profile.tsx:394` | a cached profile is kept if its refresh fails (`:413`) | Retry in the banner of a profile that is shown (`:694`) after its record has passed its hour puts the skeleton in its place, and an error if the request fails |
| `publicDataCache.ts:46`, `session.ts:17` | | writes to `sessionStorage` may fail (full, or private mode), which the models leave out: a cache record that `sessionStorage` refuses stays in memory only; after a reload an older one it still holds may be painted and kept |
| `Evidence.tsx:279` | | a later page asked for before a retry or a change of address is put under the runs shown now |
| `observationsApi.ts:145` | | cursors are offsets: runs that appear or regroup between two pages are repeated or skipped |
| `alerts.ts:345` | | the alert of a run is known by its first transaction: a run that a late payout regroups is announced again under its new one; the properties of the inbox are about keys |
| `activity.ts:157` | among duplicates the listed validator is preferred | the first row of the table wins (`:179`) |
| `Activity.tsx:248` | | answers of a load and of a mark-read are applied in the order they arrive |
| `paymentFloor.ts:161` | | of two validators with one reward address the last in the table has the floor, the other none; an empty table is due again every hour |
| `index.ts` (`warmPublicValidatorsCache`) | | warming uses the default interval of payment floors whatever is configured |
| `probeRoster.ts:590` | `unavailable` means that roster or registry cannot support the check (`:541`) | also a probe of unknown payout type without evidence, which the snapshot job does read |
| `stakerHistory.ts:218` | | a watermark is joined with that of an older scan it need not meet; without effect, since a scan reaches back to the oldest snapshot shown and that window only moves forward |

## 8. What is not modelled

- **Inside modelled parts.** Titles, messages and labels, HTTP status codes and logs; the breakdown of a
  wallet balance in the position read (`ServerReads` has the balance endpoint); delays of retries (a
  retry may come at any time); signature bytes, HMAC and cookie syntax (`SignIn` takes a signature to
  be of the wallet that made it); amounts, payloads and confidence inside an observation row; the
  illustrative range of a growth estimate; the summary above the directory and the timeline panel of
  a profile, which read cache keys of their own as the pages do.
- **Client views of position and activity.** `useStakingPosition.ts`, `Home.tsx`, `StakedHome.tsx` and
  `Activity.tsx` load an answer per effect and draw it; what the answers may be is in
  `StakingIntents`, `PersonalReads` and `ActivityFeed`.
- **Left out for good.** `app.ts` beyond its cached reads, `http-headers.ts`, `profileMeta.ts`,
  `favicon.ts`: routing and markup. `addresses.ts`, `txHashFromSerialized.ts`: encodings of identifiers
  that are model values here. The additive migration in `db.ts` runs once before anything else. React
  views, styles, demo, spikes and scripts.

## 9. Plan

Done, in this order: `PositionRules`, `StakingIntents` with `IntentLifecycle` and their proofs,
`PayoutIndexer`, `GrowthEvidence`, `ValidatorDirectory` and `SignIn` with proofs, `RpcClient`,
`Observations`, `WalletSession`, `StakeFlow`, `PublicViews`, `StakeEntry`, `PersonalReads`,
`ActivityFeed`, `DirectoryReads`, `PaymentFloors`, `Canaries` and `ServerReads` with proofs, and the
proofs of `PayoutIndexer`, `GrowthEvidence`, `StakeFlow`, `Observations`,
`RpcClient`, `WalletSession` and `PublicViews`.

Next, in this order:

1. **Proofs**: that the steps `StakeFlow` takes with the server are steps of `IntentLifecycle`, so that
   the chain from dialog to tables is proved from end to end; abstract specifications of what sign-in
   and the payout index promise, with `SignIn` and `PayoutIndexer` shown to implement them.
2. **Compositions**: `WalletSession` over an abstract `SignIn`, so that its `granted` is the server's;
   `Observations` over the transactions `PayoutIndexer` stores.
3. **Client views**: the polling of `useStakingPosition.ts`, where each refresh drops the answer of the
   one before, and the inbox of `Activity.tsx`.

## 10. Running it

```
tlc -config MCSettle.cfg MCStakingIntents     # runs of StakingIntents: the module MCStakingIntents
tlc -config MCIndexer.cfg PayoutIndexer       # the others: the module itself
tlapm StakingIntentsProofs.tla                # proofs
```

The modules use the TLA+ standard modules and the community modules `SequencesExt`, `FiniteSetsExt` and
`Functions`; the proofs use TLAPS and its theorems on
finite sets, sequences and the well-foundedness of the naturals.
The largest runs (`observations`, `directory`, `stakeflow`, `publicviews`) take one to two minutes each.
