--------------------------- MODULE DirectoryReads ---------------------------
(***************************************************************************)
(* What the directory shows of its rows: what a registry record becomes    *)
(* (server/src/validators-api.ts), the seven orders, the list and the      *)
(* profile (server/src/validatorSync.ts), the evidence pages and the       *)
(* network summary (server/src/observationsApi.ts).                        *)
(*                                                                         *)
(* An address is its place in the order of all addresses, a share of the   *)
(* stake is in hundredths of a percent.                                    *)
(***************************************************************************)
EXTENDS PersonalReads

LOCAL INSTANCE Functions

LOCAL Latest(S) == CHOOSE t \in S : \A u \in S : u <= t

-----------------------------------------------------------------------------
(* The registry.                                                           *)

(* An address that is set for the other network gives way to the official. *)
ApiUrl(testnet, explicit) ==
  IF explicit = None
     \/ (testnet /\ explicit.looksMain /\ ~explicit.looksTest)
     \/ (~testnet /\ explicit.looksTest /\ ~explicit.looksMain)
  THEN IF testnet THEN "test" ELSE "main"
  ELSE explicit.url

NormalizePayoutType(t) == IF t \in {"direct", "restake"} THEN t ELSE "unknown"

(* -1 is the registry's way to say that it does not know. *)
NullableNumber(n) == IF n = -1 THEN None ELSE n

NormalizeValidator(record, everyHours, reward) ==
  [ address    |-> record.address,
    name       |-> record.name,
    logo       |-> IF record.hasDefaultLogo THEN None ELSE record.logo,
    fee        |-> NullableNumber(record.fee),
    payoutType |-> NormalizePayoutType(record.payoutType),
    hours      |-> everyHours,
    score      |-> NullableNumber(record.score),
    dominance  |-> NullableNumber(record.dominance),
    stake      |-> NullableNumber(record.balance),
    reward     |-> reward,
    listed     |-> record.isListed ]

-----------------------------------------------------------------------------
(* The orders.                                                             *)

ValidatorSorts ==
  {"recommended", "score", "dominance", "stake", "direct-payout", "restake", "new"}

ParseSort(raw) ==
  IF raw = None THEN "recommended" ELSE IF raw \in ValidatorSorts THEN raw ELSE "invalid"

Falling(n) == IF n = None THEN None ELSE -n

Known(n) == IF n = None THEN 0 ELSE 1

Unknown(n) == 1 - Known(n)

TypeRank(type, first, second) == IF type = first THEN 0 ELSE IF type = second THEN 1 ELSE 2

(* Grades before a lack of data, and that before a schedule that cannot be *)
(* observed.                                                               *)
ObservationTransparencyRank(status) ==
  CASE status = "on-schedule"        -> 0
    [] status = "mostly-on-schedule" -> 1
    [] status = "irregular"          -> 2
    [] status = "unavailable"        -> 4
    [] OTHER                         -> 3

(* What a sort compares, one after the other, before the address.          *)
SortKeys(row, status, sort) ==
  CASE sort = "score"         -> << Falling(row.score) >>
    [] sort = "dominance"     -> << row.dominance >>
    [] sort = "stake"         -> << Falling(row.stake) >>
    [] sort = "direct-payout" -> << TypeRank(row.payoutType, "direct", "restake"),
                                    Falling(row.stake) >>
    [] sort = "restake"       -> << TypeRank(row.payoutType, "restake", "direct"),
                                    Falling(row.stake) >>
    [] sort = "new"           -> << Known(row.score), Known(row.hours),
                                    IF row.updatedAt = None THEN 0 ELSE -row.updatedAt >>
    [] OTHER                  -> << 1 - row.listed, Unknown(row.hours),
                                    TypeRank(row.payoutType, "direct", "restake"),
                                    ObservationTransparencyRank(status),
                                    row.dominance, Falling(row.score) >>

(* nullsLastCompare *)
KeyBefore(a, b) == a # None /\ (b = None \/ a < b)

KeysBefore(k, l) ==
  \E i \in DOMAIN k : KeyBefore(k[i], l[i]) /\ \A j \in DOMAIN k : j < i => k[j] = l[j]

(* compareValidators(a, b) < 0 *)
Precedes(a, b, status, sort) ==
  LET k == SortKeys(a, status[a.address], sort)
      l == SortKeys(b, status[b.address], sort)
  IN  KeysBefore(k, l) \/ (k = l /\ a.address < b.address)

-----------------------------------------------------------------------------
(* The list and the profile.                                               *)

Stub == [ status |-> "insufficient-data", lastObservedAt |-> None, depth |-> 0,
          observed |-> None, expected |-> None ]

(* loadObservationSummaries for one validator, from its runs and its       *)
(* adherence rows: the newest version's grade, and a depth that is the     *)
(* runs' where these have one.                                             *)
ObservationSummary(runs, adherence, now) ==
  LET graded == {r \in adherence : \A s \in adherence : s.version <= r.version}
      row    == CHOOSE r \in graded : TRUE
      depth  == IF EarliestRun(runs) = None THEN None
                ELSE IF EarliestRun(runs) > now THEN 0 ELSE now - EarliestRun(runs)
      last   == IF runs = {} THEN None ELSE Latest({r.observedAt : r \in runs})
  IN  IF graded = {}
      THEN [Stub EXCEPT !.lastObservedAt = last, !.depth = IF depth = None THEN 0 ELSE depth]
      ELSE [ status |-> row.status, lastObservedAt |-> last,
             depth |-> IF depth = None THEN row.depth ELSE depth,
             observed |-> row.observed, expected |-> row.expected ]

NoFloor == [ min |-> None, p5 |-> None, samples |-> 0, recipients |-> 0,
             depth |-> None, status |-> "unavailable" ]

(* observationForRow and toListItem: what is missing is shown as missing.  *)
ListItem(row, summaries, floors, declared) ==
  [ address     |-> row.address,
    isListed    |-> row.listed = 1,
    score       |-> row.score,
    stake       |-> row.stake,
    dominance   |-> row.dominance,
    payoutType  |-> NormalizePayoutType(row.payoutType),
    schedule    |-> row.hours,
    minPayout   |-> declared,
    observation |-> IF row.address \in DOMAIN summaries THEN summaries[row.address] ELSE Stub,
    floor       |-> IF row.address \in DOMAIN floors THEN floors[row.address] ELSE NoFloor,
    updatedAt   |-> row.updatedAt ]

(* toProfile *)
Profile(row, item, probe) ==
  [ item |-> item, reward |-> row.reward, probe |-> probe, scoreComponents |-> None ]

(* listValidators: the rows it shows and the place it gives each of them.  *)
Shown(rows, listedOnly) == {r \in rows : listedOnly => r.listed = 1}

Place(row, rows, status, sort) ==
  1 + Cardinality({r \in rows : Precedes(r, row, status, sort)})

MaxRegistryUpdatedAt(rows) ==
  LET times == {r.updatedAt : r \in rows} \ {None}
  IN  IF times = {} THEN None ELSE Latest(times)

(* No validator with a history: no depth at all. *)
MaxHistoryDepth(items) ==
  LET depths == {x.observation.depth : x \in {y \in items : y.observation.depth > 0}}
  IN  IF depths = {} THEN None ELSE Latest(depths)

(* buildValidatorsListEnvelope *)
ListEnvelope(rows, items, cursors, cadence, now) ==
  LET watermark == IndexerWatermark(cursors)
  IN  [ source |-> "registry",
        status |-> ApplyIndexerStaleStatus(IF rows = {} THEN "unavailable" ELSE "ok",
                                           watermark, now, cadence),
        age    |-> AgeSeconds(IF watermark = None THEN MaxRegistryUpdatedAt(rows)
                                                  ELSE watermark, now),
        depth  |-> MaxHistoryDepth(items),
        data   |-> items ]

-----------------------------------------------------------------------------
(* The evidence of one validator.                                          *)

DefaultRunsPageSize == 25

MaxRunsPageSize == 100

(* An absent limit is the default, one that is no positive integer is      *)
(* refused.                                                                *)
ParseLimit(raw) ==
  IF raw = None THEN DefaultRunsPageSize
  ELSE IF raw < 1 THEN "invalid" ELSE IF raw > MaxRunsPageSize THEN MaxRunsPageSize ELSE raw

(* A cursor is the number of runs to skip. *)
DecodeCursor(raw) ==
  IF raw = None THEN 0 ELSE IF raw >= 0 THEN raw ELSE "invalid"

(* The runs, newest first, that a page shows, and the cursor of the next.  *)
PageOf(runs, offset, limit) == {i \in DOMAIN runs : offset < i /\ i <= offset + limit}

NextCursor(runs, offset, limit) == IF offset + limit < Len(runs) THEN offset + limit ELSE None

(* loadRecipientCoverageByRunKey and runToItem *)
CoverageByRunKey(rows) ==
  LET newest == {r \in rows : r.key # None /\ \A s \in rows : s.version <= r.version}
  IN  [ key \in {r.key : r \in newest} |-> CHOOSE r \in newest : r.key = key ]

RunToItem(run, coverage) ==
  LET covered == IF run.key \in DOMAIN coverage THEN coverage[run.key] ELSE None
  IN  [ start |-> run.windowStart, end |-> run.windowEnd,
        covered |-> IF covered = None THEN None ELSE covered.covered,
        total   |-> IF covered = None THEN None ELSE covered.total ]

(* buildLimitations; Week is seven days in the unit of a depth.            *)
Week == 7 * 24 * 60 * Minute

Limitations(normalizable, depth, runs) ==
  (IF normalizable THEN {} ELSE {"schedule-cannot-be-normalized"})
    \cup (IF depth < Week \/ runs = <<>> THEN {"insufficient-history"} ELSE {})

Normalizable(row) == row.hours # None /\ row.hours > 0

(* buildObservationsForValidator: the depth of the history, what the       *)
(* evidence says, and where it says it from; runs without a grade are      *)
(* partial evidence, and no evidence is still an answer.                   *)
EvidenceDepth(adherence, depth, now) ==
  IF adherence = None \/ depth > 0 THEN depth
  ELSE IF adherence.from # None /\ adherence.from < now THEN now - adherence.from
  ELSE adherence.depth

EvidenceBase(row, adherence, runs) ==
  CASE adherence # None ->
         [ observationStatus |-> adherence.status, source |-> "indexer", status |-> "ok",
           window |-> [ from |-> adherence.from, to |-> adherence.to,
                        expected |-> adherence.expected, observed |-> adherence.observed ],
           updatedAt |-> adherence.observedAt ]
    [] adherence = None /\ runs # <<>> ->
         [ observationStatus |-> "insufficient-data", source |-> "indexer", status |-> "partial",
           window |-> [ from |-> runs[Len(runs)].windowStart, to |-> runs[1].windowEnd,
                        expected |-> 0, observed |-> Len(runs) ],
           updatedAt |-> runs[1].observedAt ]
    [] adherence = None /\ runs = <<>> ->
         [ observationStatus |-> IF Normalizable(row) THEN "insufficient-data" ELSE "unavailable",
           source |-> IF row.updatedAt = None THEN "indexer" ELSE "registry", status |-> "ok",
           window |-> [ from |-> None, to |-> None, expected |-> 0, observed |-> 0 ],
           updatedAt |-> row.updatedAt ]

Evidence(row, adherence, runs, coverage, offset, limit, history, cursors, cadence, now) ==
  LET base      == EvidenceBase(row, adherence, runs)
      depth     == EvidenceDepth(adherence, history, now)
      watermark == IF base.source = "indexer" THEN IndexerWatermark(cursors) ELSE None
  IN  [ source     |-> base.source,
        status     |-> ApplyIndexerStaleStatus(base.status, watermark, now, cadence),
        age        |-> AgeSeconds(IF watermark = None THEN base.updatedAt ELSE watermark, now),
        depth      |-> depth,
        grade      |-> base.observationStatus,
        window     |-> base.window,
        runs       |-> {RunToItem(runs[i], CoverageByRunKey(coverage)) :
                          i \in PageOf(runs, offset, limit)},
        next       |-> NextCursor(runs, offset, limit),
        limitations |-> Limitations(Normalizable(row), depth, runs) ]

-----------------------------------------------------------------------------
(* The network.                                                            *)

DominanceBuckets ==
  { [label |-> "0-1%",  above |-> -10000, upTo |-> 100],
    [label |-> "1-5%",  above |-> 100,    upTo |-> 500],
    [label |-> "5-10%", above |-> 500,    upTo |-> 1000],
    [label |-> "10%+",  above |-> 1000,   upTo |-> None] }

InBucket(bucket, dominance) ==
  dominance > bucket.above /\ (bucket.upTo = None \/ dominance <= bucket.upTo)

StakeOf(row) == IF row.stake = None \/ row.stake < 0 THEN 0 ELSE row.stake

TotalStake(rows) == SumFunction([r \in rows |-> StakeOf(r)])

NetworkSummary(rows, cursors) ==
  [ total    |-> TotalStake(rows),
    listed   |-> Cardinality({r \in rows : r.listed = 1}),
    observable |-> Cardinality(rows),
    buckets  |-> [ b \in DominanceBuckets |->
                     LET inside == {r \in rows : r.dominance # None /\ InBucket(b, r.dominance)}
                     IN  [count |-> Cardinality(inside), stake |-> TotalStake(inside)] ],
    withSchedule |-> TotalStake({r \in rows : r.hours # None}),
    cursors  |-> Cardinality(cursors),
    newest   |-> IndexerWatermark(cursors),
    oldest   |-> IF cursors = {} THEN None
                 ELSE CHOOSE t \in {c.updatedAt : c \in cursors} :
                        \A c \in cursors : t <= c.updatedAt ]

SummaryEnvelope(rows, cursors, cadence, now) ==
  LET summary == NetworkSummary(rows, cursors)
      at      == MaxRegistryUpdatedAt(rows)
  IN  [ source |-> IF at = None THEN "indexer" ELSE "registry",
        status |-> ApplyIndexerStaleStatus(IF rows = {} THEN "unavailable" ELSE "ok",
                                           summary.newest, now, cadence),
        age    |-> AgeSeconds(IF summary.newest = None THEN at ELSE summary.newest, now),
        depth  |-> IF summary.oldest = None THEN None
                   ELSE IF summary.oldest > now THEN 0 ELSE now - summary.oldest,
        data   |-> summary ]
=============================================================================
