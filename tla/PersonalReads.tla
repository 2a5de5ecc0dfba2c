---------------------------- MODULE PersonalReads ----------------------------
(***************************************************************************)
(* What a wallet is told about its own position, as rules over the stored  *)
(* rows: the age and the status of an answer (server/src/freshness.ts) and *)
(* continuity (server/src/personalContinuity.ts).  They only read.         *)
(*                                                                         *)
(* Times are milliseconds; an unreadable time is None.                     *)
(***************************************************************************)
EXTENDS PositionRules, Sequences, FiniteSets

LOCAL Least(S) == CHOOSE t \in S : \A u \in S : t <= u

-----------------------------------------------------------------------------
(* Freshness.                                                              *)

Minute == 60000

(* The configured cadence, kept between 30 and 180 minutes; None is a      *)
(* setting that is no number.                                              *)
PollCadence(minutes) ==
  Minute * ( IF minutes = None THEN 45
             ELSE IF minutes < 30 THEN 30 ELSE IF minutes > 180 THEN 180 ELSE minutes )

(* A watermark that is missing has no age. *)
WatermarkStale(watermark, now, cadence) ==
  watermark # None /\ now - watermark > 2 * cadence

ApplyIndexerStaleStatus(base, watermark, now, cadence) ==
  IF base # "unavailable" /\ WatermarkStale(watermark, now, cadence) THEN "stale" ELSE base

AgeSeconds(at, now) == IF at = None \/ at > now THEN 0 ELSE (now - at) \div 1000

(* Newest of the cursors' times: all of them, or those of one address. *)
IndexerWatermark(cursors) ==
  IF cursors = {} THEN None
  ELSE CHOOSE t \in {c.updatedAt : c \in cursors} : \A c \in cursors : c.updatedAt <= t

AddressWatermark(cursors, address) == IndexerWatermark({c \in cursors : c.address = address})

(* The start of a run, or the time it was observed at. *)
RunStart(run) == IF run.windowStart = None THEN run.observedAt ELSE run.windowStart

EarliestRun(runs) ==
  LET starts == {RunStart(r) : r \in runs} \ {None}
  IN  IF starts = {} THEN None ELSE Least(starts)

EarliestOutbound(txs, reward) ==
  LET times == {tx.at : tx \in {t \in txs : t.from = reward}}
  IN  IF times = {} THEN None ELSE Least(times)

(* How far the history of a validator goes back, in milliseconds. *)
HistoryDepth(runs, txs, reward, now) ==
  LET known == { EarliestRun(runs),
                 IF reward = None THEN None ELSE EarliestOutbound(txs, reward) } \ {None}
  IN  IF known = {} \/ Least(known) > now THEN 0 ELSE now - Least(known)

(* The same from the runs alone, for every validator that has a readable   *)
(* one.                                                                    *)
HistoryDepths(runs, now) ==
  LET of(v) == {r \in runs : r.validator = v}
  IN  [ v \in {r.validator : r \in {q \in runs : RunStart(q) # None}} |->
          IF EarliestRun(of(v)) > now THEN 0 ELSE now - EarliestRun(of(v)) ]

-----------------------------------------------------------------------------
(* Continuity.                                                             *)

ContinuityModes == {"not-staked", "direct-payout", "restake", "unknown-payout"}

EmptyContinuity(mode, state, validator) ==
  [ mode |-> mode, positionState |-> state, validator |-> validator,
    lastPaymentAt |-> None, consecutive |-> None, windows |-> None,
    sinceLastPayment |-> None, inKnownSet |-> None, growth |-> None ]

(* Answers age with the indexer only when they come from it. *)
Envelope(source, base, data, depth, db, now) ==
  LET watermark == IF source = "indexer" THEN IndexerWatermark(db.cursors) ELSE None
  IN  [ source  |-> source,
        status  |-> ApplyIndexerStaleStatus(base, watermark, now, db.cadence),
        age     |-> AgeSeconds(IF watermark = None THEN now ELSE watermark, now),
        depth   |-> depth,
        data    |-> data ]

(* Payments to the user that count, and the time of the newest. *)
Payments(txs, user, from) == {tx \in txs : tx.to = user /\ tx.from = from /\ tx.ok}

LastPaymentAt(txs, user, from) ==
  LET times == {tx.at : tx \in Payments(txs, user, from)}
  IN  IF times = {} THEN None ELSE CHOOSE t \in times : \A u \in times : u <= t

(* computeWindowInclusion over the runs, oldest first: the runs that paid  *)
(* the user, and the trailing ones that did without a gap.                 *)
Including(runs, user) == {i \in DOMAIN runs : user \in runs[i].recipients}

Trailing(runs, user) ==
  {i \in DOMAIN runs : \A j \in DOMAIN runs : j >= i => j \in Including(runs, user)}

WindowsObserved(runs, user) ==
  IF runs = <<>> THEN None ELSE Cardinality(Including(runs, user))

ConsecutiveWindows(runs, user) ==
  IF runs = <<>> THEN None ELSE Cardinality(Trailing(runs, user))

(* The addresses the newest coverage row of the newest calculation lists;  *)
(* a set that is absent or empty is unknown.                               *)
KnownStakerSet(rows) ==
  LET newest == {r \in rows : \A s \in rows :
                   \/ r.version > s.version
                   \/ r.version = s.version /\ r.order >= s.order}
      row    == CHOOSE r \in newest : TRUE
  IN  IF newest = {} \/ row.addresses = None \/ row.addresses = {} THEN None
      ELSE row.addresses

MembershipInKnownStakerSet(user, known) == IF known = None THEN None ELSE user \in known

(* The validator's row by its address, None when the directory has none. *)
ValidatorContext(directory, delegation) ==
  IF delegation = None \/ ~\E v \in directory : v.address = delegation THEN None
  ELSE CHOOSE v \in directory : v.address = delegation

(* The address payments are expected from. *)
RewardAddress(context, delegation) ==
  IF context = None THEN delegation
  ELSE IF context.reward # None THEN context.reward ELSE context.address

(* How far back the runs of a validator go; unreadable starts do not count. *)
RunsDepth(runs, now) ==
  LET starts == {runs[i].windowStart : i \in DOMAIN runs} \ {None}
  IN  IF starts = {} THEN None
      ELSE IF Least(starts) > now THEN 0 ELSE now - Least(starts)

(* A restaked position: growth between snapshots and never a payout.       *)
RestakeContinuity(user, state, validator, growth, db, now) ==
  Envelope( IF growth.latest = None THEN "rpc" ELSE "indexer",
            IF growth.status = "observed" THEN "ok" ELSE "partial",
            [EmptyContinuity("restake", state, validator) EXCEPT !.growth = growth],
            growth.depth, db, now )

(* A direct or an unknown payout: each field stands or is None by itself.  *)
PaymentData(user, state, context, delegation, db, now) ==
  LET runs  == IF context = None THEN <<>> ELSE db.runs[context.address]
      from  == RewardAddress(context, delegation)
      last  == IF from = None THEN None ELSE LastPaymentAt(db.txs, user, from)
      known == IF context = None THEN None ELSE KnownStakerSet(db.coverage[context.address])
      mode  == IF context # None /\ context.payoutType = "direct"
               THEN "direct-payout" ELSE "unknown-payout"
  IN  [ EmptyContinuity(mode, state, delegation) EXCEPT
          !.lastPaymentAt    = last,
          !.consecutive      = ConsecutiveWindows(runs, user),
          !.windows          = WindowsObserved(runs, user),
          !.sinceLastPayment = IF last = None THEN None ELSE AgeSeconds(last, now),
          !.inKnownSet       = MembershipInKnownStakerSet(user, known) ]

Determined(data) ==
  \/ data.lastPaymentAt # None \/ data.inKnownSet # None
  \/ data.consecutive # None \/ data.windows # None

PaymentContinuity(user, state, context, delegation, db, now) ==
  LET data == PaymentData(user, state, context, delegation, db, now)
  IN  Envelope( IF Determined(data) THEN "indexer" ELSE "rpc",
                IF Determined(data) \/ data.mode = "direct-payout" THEN "ok" ELSE "partial",
                data,
                IF context = None THEN None ELSE RunsDepth(db.runs[context.address], now),
                db, now )

(* readPersonalContinuity, given what the RPC said of the staker: balances *)
(* that cannot be read are an answer, and so is a wallet without stake.    *)
ReadPersonalContinuity(user, readable, staker, growth, db, now) ==
  LET state   == NormalizePositionState(staker, FALSE)
      context == ValidatorContext(db.directory, staker.delegation)
      nothing == EmptyContinuity("not-staked", "NotStaked", None)
  IN  IF ~readable THEN Envelope("rpc", "unavailable", nothing, None, db, now)
      ELSE IF state = "NotStaked" THEN Envelope("rpc", "ok", nothing, None, db, now)
      ELSE IF context # None /\ context.payoutType = "restake"
      THEN RestakeContinuity(user, state, staker.delegation, growth, db, now)
      ELSE PaymentContinuity(user, state, context, staker.delegation, db, now)
=============================================================================
