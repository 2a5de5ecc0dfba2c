---------------------------- MODULE ActivityFeed ----------------------------
(***************************************************************************)
(* The personal timeline and the network feed (server/src/activity.ts) and *)
(* the alerts derived from the same rows (server/src/alerts.ts).  A list   *)
(* is the set of its items; what is shown of it is chosen by NewestOf,     *)
(* which leaves open how items of the same time are ordered.               *)
(***************************************************************************)
EXTENDS PersonalReads

DefaultActivityLimit == 50

DefaultNetworkActivityLimit == 25

MaxActivityLimit == 100

ClampLimit(raw, fallback) ==
  IF raw = None \/ raw < 1 THEN fallback
  ELSE IF raw > MaxActivityLimit THEN MaxActivityLimit ELSE raw

-----------------------------------------------------------------------------
(* ORDER BY at DESC LIMIT n: n items, or all there are, none of them older *)
(* than an item that is left out.                                          *)
NewestOf(items, n) ==
  { shown \in SUBSET items :
      /\ Cardinality(shown) = IF Cardinality(items) <= n THEN Cardinality(items) ELSE n
      /\ \A x \in items \ shown, y \in shown : x.at <= y.at }

(* The validator a payment is taken to come from: the first row of the     *)
(* table whose reward address, or own address without one, is the payer.   *)
PaysFrom(row) == IF row.reward = None THEN row.address ELSE row.reward

Payer(table, from) ==
  LET rows == {i \in DOMAIN table : PaysFrom(table[i]) = from}
  IN  IF rows = {} THEN None ELSE table[CHOOSE i \in rows : \A j \in rows : i <= j].address

(* `id` is the row or the interval an item stands for. *)
Item(id, type, at, hash, amount, validator, status) ==
  [ id |-> id, type |-> type, at |-> at, hash |-> hash, amount |-> amount,
    validator |-> validator, status |-> status ]

DirectPayoutItems(table, txs, user) ==
  { Item(tx.hash, "direct-payout", tx.at, tx.hash, tx.value, Payer(table, tx.from), "observed") :
      tx \in {t \in txs : t.to = user /\ t.ok /\ Payer(table, t.from) # None} }

(* Each interval between two snapshots that changed the balance.  Only one *)
(* that nothing confounds is called growth.                                *)
SnapshotChangeItems(intervals) ==
  { Item(i,
         IF i.confoundedBy = None /\ i.delta > 0 THEN "observed-position-growth"
                                                 ELSE "position-change",
         i.to.at, None, i.delta, i.to.validator, "observed") :
      i \in {j \in intervals : j.delta # 0} }

IntentAt(row) == IF row.confirmedAt = None THEN row.createdAt ELSE row.confirmedAt

IntentAmount(p) ==
  IF p.valueLuna # None THEN p.valueLuna
  ELSE IF p.retireStakeLuna # None THEN p.retireStakeLuna ELSE p.newActiveBalanceLuna

IntentValidator(p) == IF p.delegation # None THEN p.delegation ELSE p.newDelegation

StakingIntentItems(intents, user) ==
  { Item(row.id, "staking-intent", IntentAt(row), row.hash, IntentAmount(row.params),
         IntentValidator(row.params), row.status) :
      row \in {r \in intents : r.user = user} }

(* readPersonalActivity: each source gives its newest, the newest of all   *)
(* of them are shown.                                                      *)
PerSource(limit) == IF limit > DefaultActivityLimit THEN limit ELSE DefaultActivityLimit

PersonalTimelines(payouts, changes, intents, limit) ==
  UNION { NewestOf(a \cup b \cup c, limit) :
            a \in NewestOf(payouts, PerSource(limit)),
            b \in NewestOf(changes, PerSource(limit)),
            c \in NewestOf(intents, PerSource(limit)) }

(* How old the newest item shown is, and how far back the oldest lies.     *)
NewestAt(items) ==
  IF items = {} THEN None
  ELSE CHOOSE t \in {x.at : x \in items} : \A x \in items : x.at <= t

FeedAge(items, now) == AgeSeconds(NewestAt(items), now)

FeedDepth(items, now) ==
  IF items = {} THEN None
  ELSE LET oldest == CHOOSE t \in {x.at : x \in items} : \A x \in items : t <= x.at
       IN  IF oldest > now THEN 0 ELSE now - oldest

(* readNetworkActivity: the runs of the newest calculation, by the time    *)
(* they were observed at, dated by the end of their window.                *)
RunItem(run) ==
  Item(run.id, "payout-run", IF run.windowEnd = None THEN run.observedAt ELSE run.windowEnd,
       run.hash, run.total, run.validator, run.status)

NetworkFeeds(runs, limit) ==
  LET current == {r \in runs : \A s \in runs : r.version >= s.version}
  IN  { {RunItem(r.run) : r \in shown} :
          shown \in NewestOf({[at |-> r.observedAt, run |-> r] : r \in current}, limit) }

NetworkStatus(feed) == IF feed = {} THEN "unavailable" ELSE "ok"

-----------------------------------------------------------------------------
(* Alerts about the wallet itself.  An event is an alert's key and body;   *)
(* the events of one derivation come in order, and a later one with the    *)
(* key of an earlier one takes its place.                                  *)

Event(key, type, at, validator, hash, amount) ==
  [ key  |-> key,
    body |-> [type |-> type, at |-> at, validator |-> validator,
              hash |-> hash, amount |-> amount] ]

PayoutEvent(item) ==
  Event(<<"direct-payout", item.hash>>, "direct-payout", item.at, item.validator,
        item.hash, item.amount)

(* The status is part of the key: an intent alerts once for each it had.   *)
IntentEvent(item) ==
  Event(<<"staking-intent", item.id, item.status>>, "staking-intent", item.at,
        item.validator, item.hash, item.amount)

WithdrawableSnapshot(s) == s.retired > 0 /\ s.active = 0 /\ s.inactive = 0

(* A snapshot that is withdrawable after one that was not. *)
BecomesWithdrawable(snapshots, i) ==
  /\ WithdrawableSnapshot(snapshots[i])
  /\ i = 1 \/ ~WithdrawableSnapshot(snapshots[i - 1])

WithdrawableEvent(s) ==
  Event(<<"withdrawable", s.id>>, "withdrawable", s.at, s.validator, None, None)

(* The first stored snapshot an interval ends at. *)
TargetSnapshot(snapshots, i) ==
  LET ends == {k \in DOMAIN snapshots : /\ snapshots[k].at = i.to.at
                                        /\ snapshots[k].total = i.to.total
                                        /\ snapshots[k].block = i.to.block}
  IN  IF ends = {} THEN None ELSE snapshots[CHOOSE k \in ends : \A l \in ends : k <= l].id

AlertsFor(snapshots, i) ==
  /\ i.delta # 0 \/ i.confoundedBy = "delegation-change"
  /\ TargetSnapshot(snapshots, i) # None

IntervalEvent(snapshots, i) ==
  Event(<<"position-change", TargetSnapshot(snapshots, i)>>, "position-change", i.to.at,
        i.to.validator, None, IF i.delta = 0 THEN None ELSE i.delta)

(* insertAlert for every event of a sequence: a row that is there keeps    *)
(* its read mark and takes the new body.                                   *)
KeysOf(events) == {events[i].key : i \in DOMAIN events}

BodyOf(events, key) ==
  events[CHOOSE i \in DOMAIN events :
           /\ events[i].key = key
           /\ \A j \in DOMAIN events : events[j].key = key => j <= i].body

DeriveAlerts(alerts, events) ==
  [ key \in DOMAIN alerts \cup KeysOf(events) |->
      [ body   |-> IF key \in KeysOf(events) THEN BodyOf(events, key) ELSE alerts[key].body,
        readAt |-> IF key \in DOMAIN alerts THEN alerts[key].readAt ELSE None ] ]

(* listUserAlerts: what the inbox shows and how many it counts as unread,  *)
(* those beyond the limit included.                                        *)
DefaultAlertLimit == 50

MaxAlertLimit == 100

ClampAlertLimit(raw) ==
  IF raw = None THEN DefaultAlertLimit
  ELSE IF raw < 1 THEN 1 ELSE IF raw > MaxAlertLimit THEN MaxAlertLimit ELSE raw

Inboxes(alerts, limit) ==
  NewestOf({[key |-> k, at |-> alerts[k].body.at] : k \in DOMAIN alerts},
           ClampAlertLimit(limit))

Unread(alerts) == {k \in DOMAIN alerts : alerts[k].readAt = None}
=============================================================================
