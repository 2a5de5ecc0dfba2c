----------------------------- MODULE ServerReads -----------------------------
(***************************************************************************)
(* What the server does around the other components: it limits how often   *)
(* a client may call (rate-limit.ts), counts what happens (metrics.ts),    *)
(* reads the balance of a wallet with its open contracts                   *)
(* (walletBalance.ts), looks up declared minimum payouts                   *)
(* (minPayoutDeclarations.ts) and tells its operators which validators     *)
(* lack data (diagnostics.ts), all of server/src.                          *)
(***************************************************************************)
EXTENDS PersonalReads

LOCAL INSTANCE Functions

-----------------------------------------------------------------------------
(* The rate limit: one bucket per key, opened by the first request after   *)
(* the last one ended; None is no bucket.                                  *)

RetryAfterSeconds(bucket, now) ==
  LET seconds == (bucket.resetAt - now + 999) \div 1000
  IN  IF seconds < 1 THEN 1 ELSE seconds

WindowOpen(bucket, now) == bucket # None /\ now < bucket.resetAt

Admitted(bucket, now, max) == ~WindowOpen(bucket, now) \/ bucket.count < max

RateLimit(bucket, now, max, window) ==
  IF ~WindowOpen(bucket, now) THEN [count |-> 1, resetAt |-> now + window]
  ELSE IF Admitted(bucket, now, max) THEN [bucket EXCEPT !.count = @ + 1]
  ELSE bucket

-----------------------------------------------------------------------------
(* The counters.                                                           *)

MetricKeys == {"auth_connects", "repeat_sessions", "validator_profile_views", "public_profile_shares"}

GetMetric(metrics, key) == IF key \in DOMAIN metrics THEN metrics[key] ELSE 0

(* A counter without a row starts at what is added; adding 0 writes none.  *)
IncrementMetric(metrics, key, by) ==
  IF by = 0 THEN metrics
  ELSE [k \in DOMAIN metrics \cup {key} |->
          IF k = key THEN GetMetric(metrics, key) + by ELSE metrics[k]]

(* The users and the counters after a sign-in was verified. *)
CountSignIn(users, metrics, address) ==
  LET connected == IncrementMetric(metrics, "auth_connects", 1)
  IN  [ users   |-> users \cup {address},
        metrics |-> IF address \in users
                    THEN IncrementMetric(connected, "repeat_sessions", 1) ELSE connected ]

(* The transactions tell how far the index goes back, and only without any *)
(* the runs do.                                                            *)
EarliestIndexed(txs, runs) ==
  LET times == IF txs = {} THEN {r.observedAt : r \in runs} ELSE {tx.at : tx \in txs}
  IN  IF times = {} THEN None ELSE CHOOSE t \in times : \A u \in times : t <= u

Day == 24 * 60 * Minute

IndexerHistoryDays(txs, runs, now) ==
  LET earliest == EarliestIndexed(txs, runs)
  IN  IF earliest = None \/ earliest > now THEN 0 ELSE (now - earliest) \div Day

PublicMetrics(users, metrics, intents, txs, runs, now) ==
  [ wallets   |-> Cardinality(users),
    counters  |-> [k \in MetricKeys |-> GetMetric(metrics, k)],
    intents   |-> Cardinality(intents),
    confirmed |-> Cardinality({i \in intents : i.status = "confirmed"}),
    days      |-> IndexerHistoryDays(txs, runs, now) ]

-----------------------------------------------------------------------------
(* The balance of a wallet.  What cannot be read is None.                  *)

HtlcScanTxMax == 40

(* How many transactions the scan asks for. *)
HtlcScanDepth(max) ==
  IF max = None THEN HtlcScanTxMax ELSE IF max < 1 THEN 1 ELSE IF max > 100 THEN 100 ELSE max

(* Where the wallet sent to, by the newest transactions.                   *)
HtlcCandidates(user, txs) ==
  IF txs = None THEN {}
  ELSE {tx.to : tx \in {t \in txs : t.ok /\ t.from = user}} \ {user, None}

(* The contracts the wallet has funds in: only those it is the sender of.  *)
OpenHtlcs(user, txs, accounts) ==
  {a \in HtlcCandidates(user, txs) :
     /\ accounts[a] # None
     /\ accounts[a].type = "htlc" /\ accounts[a].sender = user
     /\ accounts[a].balance > 0}

NonNegative(n) == IF n < 0 THEN 0 ELSE n

WalletBalance(user, free, txs, accounts) ==
  LET open == OpenHtlcs(user, txs, accounts)
      htlc == SumFunction([a \in open |-> accounts[a].balance])
  IN  [ account |-> IF free = None THEN None ELSE NonNegative(free),
        htlc    |-> htlc,
        wallet  |-> IF free = None THEN None ELSE NonNegative(free) + htlc,
        count   |-> Cardinality(open) ]

-----------------------------------------------------------------------------
(* Declared minimum payouts.                                               *)

MinPayoutKinds == {"fixed", "none", "stake-based", "not_applicable", "unknown"}

UnknownMinPayout == [nim |-> None, kind |-> "unknown", confidence |-> None]

(* Only a fixed threshold has an amount, and no negative one. *)
RowToDeclared(raw) ==
  LET kind == IF raw.kind \in MinPayoutKinds THEN raw.kind ELSE "unknown"
  IN  [ nim        |-> IF kind = "fixed" /\ raw.nim # None
                       THEN IF raw.nim >= 0 THEN raw.nim ELSE None
                       ELSE None,
        kind       |-> kind,
        confidence |-> IF raw.confidence \in {"high", "medium", "low"}
                       THEN raw.confidence ELSE None ]

(* The last row of a validator counts; a file that is missing or corrupt   *)
(* has no rows.                                                            *)
DeclaredMinPayout(file, validator) ==
  LET of == IF file = None THEN {} ELSE {i \in DOMAIN file : file[i].address = validator}
  IN  IF of = {} THEN UnknownMinPayout
      ELSE RowToDeclared(file[CHOOSE i \in of : \A j \in of : j <= i])

-----------------------------------------------------------------------------
(* Diagnostics.                                                            *)

(* The bearer token of the header, or else the one of the query. *)
ProvidedToken(header, query) == IF header # None THEN header ELSE query

DiagnosticsStatus(expected, header, query) ==
  IF expected = None THEN "not-configured"
  ELSE IF ProvidedToken(header, query) # expected THEN "unauthorized" ELSE "ok"

GapSamples == 12

Outbound(txs, row) ==
  IF row.reward = None THEN {} ELSE {tx \in txs : tx.from = row.reward}

(* summarizeRewardAddressGaps; place is the order by name and address.     *)
RewardAddressGaps(rows, txs, cursors) ==
  LET listed  == {r \in rows : r.listed = 1}
      missing == {r \in listed : r.reward = None}
      silent  == {r \in listed \ missing : Outbound(txs, r) = {}}
      gaps    == missing \cup silent
  IN  [ listedTotal |-> Cardinality(listed),
        missing     |-> Cardinality(missing),
        zeroIndexed |-> Cardinality(silent),
        samples     |-> {[ id        |-> r.address,
                           missing   |-> r \in missing,
                           outbound  |-> Cardinality(Outbound(txs, r)),
                           hasCursor |-> \E c \in cursors : c.address = r.reward ] :
                          r \in {g \in gaps :
                                   Cardinality({q \in gaps : q.place < g.place}) < GapSamples}} ]
=============================================================================
