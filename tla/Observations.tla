---------------------------- MODULE Observations ----------------------------
(***************************************************************************)
(* From the stored payouts of a validator to what is said about it: the    *)
(* payout runs (server/src/payoutClassifier.ts), the grade of the schedule *)
(* and the coverage of recipients (observationScoring.ts), the evidence    *)
(* page (observationsApi.ts), and the watchlist and inbox of a user        *)
(* (alerts.ts).                                                            *)
(*                                                                         *)
(* One validator, one user who may watch it.  The four writes of a cycle,  *)
(* the transactions and the three kinds of observations, are database      *)
(* transactions of their own, run without an await: nothing comes between  *)
(* them but the end of the process.  A payout is the tick it was made at.  *)
(***************************************************************************)
EXTENDS Integers, FiniteSets, FiniteSetsExt

CONSTANTS
  Null,
  Payouts,     \* bound: the outbound transactions there are, as ticks
  Failed,      \* those whose execution failed
  Window,      \* DEFAULT_RUN_WINDOW_MINUTES, in ticks
  Hours,       \* intervals a declared schedule can mean
  MinHistory,  \* MIN_HISTORY_DAYS_FOR_GRADE
  Versions,    \* bound: values of CALC_VERSION, 1 .. n
  MaxTime,     \* bound: the last tick
  MaxUpsets    \* bound: restarts in a cycle, new schedules, deployments, ends of a watch

Times == 0 .. MaxTime

Statuses == {"on-schedule", "mostly-on-schedule", "irregular",
             "insufficient-data", "unavailable"}

AdherenceRows == [status : Statuses, at : Times]

Watches == [created : Times, status : Statuses \cup {Null}, id : Versions \cup {0}]

ASSUME ObservationsAssumption ==
  /\ Payouts \subseteq 0 .. MaxTime /\ Failed \subseteq Payouts
  /\ Hours \subseteq Nat \ {0}
  /\ Null \notin Hours \cup Versions \cup AdherenceRows \cup Watches
  /\ Window \in Nat /\ MinHistory \in Nat \ {0}
  /\ MaxTime \in Nat /\ MaxUpsets \in Nat
  /\ IsFiniteSet(Versions) /\ 1 \in Versions /\ Versions = 1 .. Cardinality(Versions)

VARIABLES
  now,
  stored,     \* table transactions: the payouts of the reward address
  schedule,   \* validators.schedule_every_hours, or Null
  version,    \* CALC_VERSION of the running code
  stage,      \* what the cycle does next, "idle" between cycles
  runs,       \* payout-run rows: version -> runs
  adherence,  \* schedule-adherence row: version -> [status, at], or Null
  coverage,   \* recipient-coverage rows: version -> runs
  watch,      \* validator_watchlist row: [created, status, id], or Null
  inbox,      \* user_alerts: event key -> "unread" or "read"
  upsets

observationsVars ==
  <<now, stored, schedule, version, stage, runs, adherence, coverage, watch, inbox, upsets>>

-----------------------------------------------------------------------------
(* Payout runs: a run is the set of its payouts, its key the first of them *)
(* (source_tx_hash).                                                       *)

(* loadOutboundTransactions, and the filter of groupPayoutRuns.            *)
Executed(ps) == ps \ Failed

(* groupPayoutRuns: a payout farther than the window from the one before   *)
(* begins a run, which lasts until the next payout that does.              *)
Begins(ps) == {p \in ps : \A q \in ps : q < p => p - q > Window}

RunFrom(ps, s) == {p \in ps : p >= s /\ \A t \in Begins(ps) : t <= p => t <= s}

GroupPayoutRuns(ps) == {RunFrom(ps, s) : s \in Begins(ps)}

Key(r) == Min(r)

(* Mutant: the rows of runs that are no longer there stay.                 *)
PersistedWithOrphans(rows, rs) ==
  {r \in rows : \A s \in rs : Key(s) # Key(r)} \cup rs

(* persistPayoutRuns and persistRecipientCoverage: a row is updated or     *)
(* inserted by its key, the others of the version are removed.             *)
Persisted(rows, rs) == rs

-----------------------------------------------------------------------------
(* Schedule adherence.                                                     *)

(* computeScheduleAdherence: the windows that have elapsed since the first *)
(* run, and those in which a run started.                                  *)
Expected(anchor, end, hours) == (end - anchor) \div hours

Observed(starts, anchor, end, hours) ==
  Cardinality({(s - anchor) \div hours : s \in starts}
                \cap 0 .. Expected(anchor, end, hours) - 1)

(* mapAdherenceStatus for a validator with runs and a schedule; a history  *)
(* of less than MIN_HISTORY_DAYS is one of less than MinHistory.           *)
Grade(depth, expected, observed) ==
  CASE expected = 0 \/ depth < MinHistory -> "insufficient-data"
    [] 100 * observed >= 95 * expected    -> "on-schedule"
    [] 100 * observed >= 80 * expected    -> "mostly-on-schedule"
    [] OTHER                              -> "irregular"

Score(rs, end, hours) ==
  LET starts == {Key(r) : r \in rs}
      anchor == Min(starts)
  IN  CASE rs = {} /\ hours = Null -> "unavailable"
        [] rs = {} \/ hours = Null -> "insufficient-data"
        [] OTHER -> Grade(end - anchor, Expected(anchor, end, hours),
                          Observed(starts, anchor, end, hours))

(* lastOutboundTimestamp, failed payouts included, or else the clock.      *)
AnalysisEnd == IF stored = {} THEN now ELSE Max(stored)

-----------------------------------------------------------------------------
(* What readers are shown: the rows of the latest version that has any     *)
(* (listPayoutRunObservations, listScheduleAdherenceObservation,           *)
(* loadRecipientCoverageByRunKey).                                         *)
Latest(vs) == IF vs = {} THEN Null ELSE Max(vs)

ShownRuns ==
  LET v == Latest({w \in Versions : runs[w] # {}})
  IN  IF v = Null THEN {} ELSE runs[v]

ShownCoverage ==
  LET v == Latest({w \in Versions : coverage[w] # {}})
  IN  IF v = Null THEN {} ELSE {r \in coverage[v] : \E s \in ShownRuns : Key(r) = Key(s)}

(* buildObservationsForValidator *)
ShownStatus ==
  LET v == Latest({w \in Versions : adherence[w] # Null})
  IN  CASE v # Null -> adherence[v].status
        [] v = Null /\ (ShownRuns # {} \/ schedule # Null) -> "insufficient-data"
        [] OTHER -> "unavailable"

-----------------------------------------------------------------------------
(* The inbox.                                                              *)

Keys ==
  [kind : {"run"}, key : Payouts]
    \cup [kind : {"status"}, id : Versions, status : Statuses]
    \cup [kind : {"changed"}, id : Versions, at : Times, status : Statuses]

(* Mutant: the row is replaced.                                            *)
DeliveredAnew(box, keys) ==
  [k \in DOMAIN box \cup keys |-> IF k \in keys THEN "unread" ELSE box[k]]

(* insertAlert, on conflict do update; read_at is left alone.              *)
Delivered(box, keys) ==
  [k \in DOMAIN box \cup keys |-> IF k \in DOMAIN box THEN box[k] ELSE "unread"]

(* The adherence rows a watch has not passed: a row of a later version has *)
(* the higher id, which the version stands for.                            *)
Unpassed(w) ==
  {v \in Versions : /\ adherence[v] # Null
                    /\ adherence[v].at >= w.created
                    /\ v > w.id}

(* The rows whose status differs from the one before.                      *)
StatusAlerts(w) ==
  LET Prior(v) == LET before == {u \in Unpassed(w) : u < v}
                  IN  IF before = {} THEN w.status ELSE adherence[Max(before)].status
  IN  { [kind |-> "status", id |-> v, status |-> adherence[v].status] :
          v \in {u \in Unpassed(w) : Prior(u) # Null /\ Prior(u) # adherence[u].status} }

(* Mutant: runs from before the watch are announced.                       *)
RunAlertsEver(w) ==
  { [kind |-> "run", key |-> Key(r)] : r \in UNION {runs[v] : v \in Versions} }

(* The runs of any version that ended since the watch was set.             *)
RunAlerts(w) ==
  { [kind |-> "run", key |-> Key(r)] :
      r \in {s \in UNION {runs[v] : v \in Versions} : Max(s) >= w.created} }

Passed(w) ==
  IF Unpassed(w) = {} THEN w
  ELSE [w EXCEPT !.id = Max(Unpassed(w)), !.status = adherence[Max(Unpassed(w))].status]

(* ensureUserAlerts, the part of it for the watched validator.             *)
EnsureUserAlerts(box) ==
  IF watch = Null
    THEN inbox' = box /\ UNCHANGED watch
    ELSE /\ inbox' = Delivered(box, StatusAlerts(watch) \cup RunAlerts(watch))
         /\ watch' = Passed(watch)

-----------------------------------------------------------------------------
ObservationsInit ==
  /\ now = 0
  /\ stored = {}
  /\ schedule \in Hours \cup {Null}
  /\ version = 1
  /\ stage = "idle"
  /\ runs = [v \in Versions |-> {}]
  /\ adherence = [v \in Versions |-> Null]
  /\ coverage = [v \in Versions |-> {}]
  /\ watch = Null
  /\ inbox = [k \in {} |-> "unread"]
  /\ upsets = 0

(* Mutant: a cycle that brought nothing new is over.                       *)
StoreNews(ps) ==
  /\ stage = "idle"
  /\ ps \subseteq {p \in Payouts : p <= now}
  /\ stored' = stored \cup ps
  /\ stage' = IF ps \subseteq stored THEN "idle" ELSE "runs"
  /\ UNCHANGED <<now, schedule, version, runs, adherence, coverage, watch, inbox, upsets>>

(* The transaction of runAddress in payoutIndexer.ts; pages that were      *)
(* missed bring older payouts later.                                       *)
Store(ps) ==
  /\ stage = "idle"
  /\ ps \subseteq {p \in Payouts : p <= now}
  /\ stored' = stored \cup ps
  /\ stage' = "runs"
  /\ UNCHANGED <<now, schedule, version, runs, adherence, coverage, watch, inbox, upsets>>

(* classifyPayoutRunsForRewardAddress                                      *)
ClassifyRuns ==
  /\ stage = "runs"
  /\ runs' = [runs EXCEPT ![version] = Persisted(@, GroupPayoutRuns(Executed(stored)))]
  /\ stage' = "adherence"
  /\ UNCHANGED <<now, stored, schedule, version, adherence, coverage, watch, inbox, upsets>>

(* classifyScheduleAdherenceForValidator: the row is inserted, or changed  *)
(* in place, which tells who watches since before the analysis ends.       *)
ScoreAdherence ==
  /\ stage = "adherence"
  /\ LET old    == adherence[version]
         row    == [status |-> Score(runs[version], AnalysisEnd, schedule), at |-> AnalysisEnd]
         alerts == { [kind |-> "changed", id |-> version, at |-> row.at, status |-> row.status] }
     IN
     /\ adherence' = [adherence EXCEPT ![version] = row]
     /\ inbox' = IF /\ old # Null /\ old.status # row.status
                    /\ watch # Null /\ watch.created <= row.at
                 THEN Delivered(inbox, alerts)
                 ELSE inbox
  /\ stage' = "coverage"
  /\ UNCHANGED <<now, stored, schedule, version, runs, coverage, watch, upsets>>

(* classifyRecipientCoverageForValidator                                   *)
ClassifyCoverage ==
  /\ stage = "coverage"
  /\ coverage' = [coverage EXCEPT ![version] = Persisted(@, runs[version])]
  /\ stage' = "idle"
  /\ UNCHANGED <<now, stored, schedule, version, runs, adherence, watch, inbox, upsets>>

Crash ==
  /\ stage # "idle" /\ upsets < MaxUpsets
  /\ upsets' = upsets + 1
  /\ stage' = "idle"
  /\ UNCHANGED <<now, stored, schedule, version, runs, adherence, coverage, watch, inbox>>

(* New code is deployed, with rules of its own.                            *)
Deploy ==
  /\ stage = "idle" /\ version + 1 \in Versions
  /\ upsets < MaxUpsets /\ upsets' = upsets + 1
  /\ version' = version + 1
  /\ UNCHANGED <<now, stored, schedule, stage, runs, adherence, coverage, watch, inbox>>

(* The registry sync stores another declared schedule (normalizeSchedule). *)
Declare ==
  /\ stage = "idle"
  /\ upsets < MaxUpsets /\ upsets' = upsets + 1
  /\ schedule' \in (Hours \cup {Null}) \ {schedule}
  /\ UNCHANGED <<now, stored, version, stage, runs, adherence, coverage, watch, inbox>>

(* POST /api/me/watchlist: insert or ignore, from the latest row.          *)
Watch ==
  /\ stage = "idle" /\ watch = Null
  /\ LET v == Latest({w \in Versions : adherence[w] # Null})
     IN  watch' = IF v = Null
                    THEN [created |-> now, status |-> Null, id |-> 0]
                    ELSE [created |-> now, status |-> adherence[v].status, id |-> v]
  /\ UNCHANGED <<now, stored, schedule, version, stage, runs, adherence, coverage, inbox, upsets>>

(* DELETE /api/me/watchlist/:address                                       *)
Unwatch ==
  /\ stage = "idle" /\ watch # Null
  /\ watch' = Null
  /\ upsets < MaxUpsets /\ upsets' = upsets + 1
  /\ UNCHANGED <<now, stored, schedule, version, stage, runs, adherence, coverage, inbox>>

(* GET /api/me/alerts                                                      *)
ReadInbox ==
  /\ stage = "idle"
  /\ EnsureUserAlerts(inbox)
  /\ UNCHANGED <<now, stored, schedule, version, stage, runs, adherence, coverage, upsets>>

(* POST /api/me/alerts/:id/read                                            *)
MarkRead ==
  /\ stage = "idle"
  /\ \E k \in DOMAIN inbox : EnsureUserAlerts([inbox EXCEPT ![k] = "read"])
  /\ UNCHANGED <<now, stored, schedule, version, stage, runs, adherence, coverage, upsets>>

(* POST /api/me/alerts/read-all                                            *)
MarkAllRead ==
  /\ stage = "idle"
  /\ inbox' = [k \in DOMAIN inbox |-> "read"]
  /\ UNCHANGED <<now, stored, schedule, version, stage, runs, adherence, coverage, watch, upsets>>

Tick ==
  /\ stage = "idle" /\ now < MaxTime
  /\ now' = now + 1
  /\ UNCHANGED <<stored, schedule, version, stage, runs, adherence, coverage, watch, inbox, upsets>>

ObservationsNext ==
  \/ \E ps \in SUBSET Payouts : Store(ps)
  \/ ClassifyRuns \/ ScoreAdherence \/ ClassifyCoverage
  \/ Crash \/ Deploy \/ Declare
  \/ Watch \/ Unwatch \/ ReadInbox \/ MarkRead \/ MarkAllRead
  \/ Tick

ObservationsSpec == ObservationsInit /\ [][ObservationsNext]_observationsVars

(* The scheduler goes on to start cycles, and a cycle that began goes on   *)
(* unless the process ends.                                                *)
ObservationsFairSpec ==
  /\ ObservationsSpec
  /\ WF_observationsVars(\E ps \in SUBSET Payouts : Store(ps))
  /\ WF_observationsVars(ClassifyRuns \/ ScoreAdherence \/ ClassifyCoverage)

-----------------------------------------------------------------------------
(* The rows, the watch and the inbox as the tables declare them            *)
(* (migrateValidatorObservations, migrateUserData): a run is never empty,  *)
(* and no two rows of a version have the same key.                         *)
ObservationsTypeOK ==
  /\ now \in Times /\ stored \subseteq Payouts /\ upsets \in 0 .. MaxUpsets
  /\ schedule \in Hours \cup {Null} /\ version \in Versions
  /\ stage \in {"idle", "runs", "adherence", "coverage"}
  /\ \A v \in Versions :
       /\ runs[v] \subseteq (SUBSET Payouts) \ {{}} /\ coverage[v] \subseteq (SUBSET Payouts) \ {{}}
       /\ \A r, s \in runs[v] : Key(r) = Key(s) => r = s
       /\ \A r, s \in coverage[v] : Key(r) = Key(s) => r = s
  /\ adherence \in [Versions -> AdherenceRows \cup {Null}]
  /\ watch \in Watches \cup {Null}
  /\ DOMAIN inbox \subseteq Keys /\ \A k \in DOMAIN inbox : inbox[k] \in {"unread", "read"}

(* The evidence says what the stored payouts say: every executed payout is *)
(* in one run, two that follow each other share it when they are within    *)
(* the window of each other, every run has its coverage, and the grade is  *)
(* that of these runs under the declared schedule.                         *)
EvidenceAgrees ==
  LET paid == stored \ Failed
      Next2(p, q) == p < q /\ ~ \E x \in paid : p < x /\ x < q
  IN  /\ UNION ShownRuns = paid
      /\ \A r, s \in ShownRuns : r = s \/ r \cap s = {}
      /\ \A p, q \in paid :
           Next2(p, q) => ((\E r \in ShownRuns : {p, q} \subseteq r) <=> q - p <= Window)
      /\ ShownCoverage = ShownRuns
      /\ ShownStatus = Score(ShownRuns, AnalysisEnd, schedule)

(* Evidence that a crash left half-written, a late payout that joins or    *)
(* splits runs, another schedule and another version are all put right by  *)
(* the cycles that follow (classifyObservationsForValidator runs them all  *)
(* again whatever the cycle brought).                                      *)
EvidenceIsRepaired == []<>EvidenceAgrees

(* One whole cycle is enough: when its last write is done the evidence     *)
(* agrees, whatever was left by the cycles before                          *)
(* (classifyObservationsForRewardAddress).                                 *)
CycleRepairs == [][ClassifyCoverage => EvidenceAgrees']_observationsVars

(* No alert is ever taken back, and one that was read does not come back   *)
(* as unread, however often its run is regrouped or its grade recomputed   *)
(* (insertAlert, on conflict do update).                                   *)
InboxIsDurable ==
  [][\A k \in DOMAIN inbox :
       k \in DOMAIN inbox' /\ (inbox[k] = "read" => inbox'[k] = "read")]_observationsVars

(* Only a watcher is told, and only of what happened since: some payout of *)
(* an announced run was made no earlier than the watch.                    *)
NewsIsNew ==
  [][\A k \in DOMAIN inbox' \ DOMAIN inbox :
       /\ watch # Null
       /\ k.kind = "run" =>
            \E p \in stored \ Failed : p >= k.key /\ p >= watch.created]_observationsVars
=============================================================================
