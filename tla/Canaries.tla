------------------------------ MODULE Canaries ------------------------------
(***************************************************************************)
(* The project's own small stakes: the roster of probes and what is said   *)
(* of them (server/src/probeRoster.ts), and the hourly cycle that stores   *)
(* what each of them holds (server/src/probeSnapshots.ts).                 *)
(*                                                                         *)
(* A probe has an address, a validator and a payout type; db holds the     *)
(* transactions and the staker snapshots.                                  *)
(***************************************************************************)
EXTENDS PersonalReads

ProbePayoutTypes == {"direct", "restake", "unknown"}

AsProbePayoutType(t) == IF t \in ProbePayoutTypes THEN t ELSE "unknown"

NormalizeEntry(raw) == [raw EXCEPT !.type = AsProbePayoutType(@)]

(* A file that is missing or cannot be read gives a roster without probes. *)
LoadProbeRoster(file) ==
  IF file = None \/ ~file.readable THEN [network |-> "main", probes |-> << >>]
  ELSE LET kept == SelectSeq(file.rows, LAMBDA raw : raw.address # None /\ raw.validator # None)
       IN  [ network |-> IF file.network = None THEN "main" ELSE file.network,
             probes  |-> [i \in DOMAIN kept |-> NormalizeEntry(kept[i])] ]

(* The last entry of a validator is the one its profile shows. *)
ProbeForValidator(probes, validator) ==
  LET of == {i \in DOMAIN probes : probes[i].validator = validator}
  IN  IF of = {} THEN None ELSE probes[CHOOSE i \in of : \A j \in of : j <= i]

-----------------------------------------------------------------------------
(* The evidence of one probe.                                              *)

LOCAL First(times) == IF times = {} THEN None ELSE CHOOSE t \in times : \A u \in times : t <= u

LOCAL Last(times) == IF times = {} THEN None ELSE CHOOSE t \in times : \A u \in times : u <= t

ProbePayments(db, probe, reward) ==
  IF reward = None THEN {} ELSE Payments(db.txs, probe.address, reward)

ProbeSnapshots(db, probe) == {s \in db.snapshots : s.user = probe.address}

LastProbePaymentAt(db, probe, reward) == Last({tx.at : tx \in ProbePayments(db, probe, reward)})

LastProbeSnapshotAt(db, probe) == Last({s.at : s \in ProbeSnapshots(db, probe)})

(* What counts as evidence depends on how the validator says that it pays. *)
ProbeObservationHistory(db, probe, reward) ==
  LET paid == IF probe.type = "restake" THEN {} ELSE ProbePayments(db, probe, reward)
      seen == IF probe.type = "direct" THEN {} ELSE ProbeSnapshots(db, probe)
      at   == {tx.at : tx \in paid} \cup {s.at : s \in seen}
  IN  [count |-> Cardinality(paid) + Cardinality(seen), first |-> First(at), last |-> Last(at)]

HasObservation(db, probe, reward) ==
  \/ probe.type # "restake" /\ ProbePayments(db, probe, reward) # {}
  \/ probe.type # "direct" /\ ProbeSnapshots(db, probe) # {}

CanaryProbeSummary(db, probe, reward, now) ==
  LET history == ProbeObservationHistory(db, probe, reward)
  IN  IF probe = None THEN [configured |-> FALSE, status |-> "not-configured"]
      ELSE [ configured    |-> TRUE,
             status        |-> IF HasObservation(db, probe, reward) THEN "active" ELSE "pending",
             dataStatus    |-> IF HasObservation(db, probe, reward)
                               THEN "verified" ELSE "insufficient",
             lastPaymentAt |-> LastProbePaymentAt(db, probe, reward),
             lastBalanceAt |-> LastProbeSnapshotAt(db, probe),
             count         |-> history.count,
             firstAt       |-> history.first,
             lastAt        |-> history.last,
             depth         |-> IF history.first = None \/ history.first > now THEN 0
                               ELSE now - history.first ]

-----------------------------------------------------------------------------
(* All probes together.                                                    *)

CoverageStatuses == {"observed", "pending", "unavailable"}

(* buildCanaryCoverageSummary for one probe.  Without evidence only the    *)
(* restake probes, and the direct ones whose reward address is known, can  *)
(* be checked; rewards has no entry for a validator that is not stored.    *)
CoverageStatus(db, probe, rewards) ==
  LET reward == IF probe.validator \in DOMAIN rewards THEN rewards[probe.validator] ELSE None
  IN  IF HasObservation(db, probe, reward) THEN "observed"
      ELSE IF probe.type = "restake" \/ (probe.type = "direct" /\ reward # None)
      THEN "pending" ELSE "unavailable"

CanaryCoverage(db, probes, rewards) ==
  [ configured |-> Len(probes),
    types      |-> [t \in ProbePayoutTypes |->
                      Cardinality({i \in DOMAIN probes : probes[i].type = t})],
    statuses   |-> [s \in CoverageStatuses |->
                      Cardinality({i \in DOMAIN probes :
                                     CoverageStatus(db, probes[i], rewards) = s})] ]

-----------------------------------------------------------------------------
(* The snapshot cycle.                                                     *)

ExplorerNetwork(name) == IF name \in {"test", "testnet"} THEN "testnet" ELSE "mainnet"

RosterMatchesProcessNetwork(roster, process) ==
  ExplorerNetwork(roster.network) = ExplorerNetwork(IF process = None THEN "main" ELSE process)

SnapshotEligible(probes) == SelectSeq(probes, LAMBDA p : p.type \in {"restake", "unknown"})

(* The cadence in milliseconds, kept between 15 and 180 minutes. *)
CanaryInterval(minutes) ==
  Minute * ( IF minutes = None THEN 60
             ELSE IF minutes < 15 THEN 15 ELSE IF minutes > 180 THEN 180 ELSE minutes )

SnapshotThrottle == 60 * Minute

(* The addresses a snapshot written at that time would be too early for. *)
Throttled(snapshots, now) == {s.user : s \in {r \in snapshots : r.at >= now - SnapshotThrottle}}

Readings == {"staker", "unreadable", "absent", "error"}

Outcomes == {"written", "skippedThrottle", "skippedNoStaker", "skippedUnreadable", "errors"}

(* One probe of the cycle: readings is what the node, or the write, did    *)
(* for each.  The probes are read in turn, so one that was written before  *)
(* holds back a later one of the same address.                             *)
SnapshotOutcome(probes, readings, throttled, i) ==
  CASE readings[i] = "absent"     -> "skippedNoStaker"
    [] readings[i] = "unreadable" -> "skippedUnreadable"
    [] readings[i] = "error"      -> "errors"
    [] OTHER ->
         IF \/ probes[i].address \in throttled
            \/ \E j \in DOMAIN probes : /\ j < i /\ probes[j].address = probes[i].address
                                        /\ readings[j] = "staker"
         THEN "skippedThrottle" ELSE "written"

(* block is None where the head could not be read.                         *)
CanarySnapshotCycle(roster, process, block, readings, snapshots, now) ==
  LET probes     == SnapshotEligible(roster.probes)
      outcome(i) == IF block = None THEN "errors"
                    ELSE SnapshotOutcome(probes, readings, Throttled(snapshots, now), i)
      run        == RosterMatchesProcessNetwork(roster, process)
      some(o)    == IF run THEN {i \in DOMAIN probes : outcome(i) = o} ELSE {}
  IN  [ skippedNetwork |-> ~run,
        considered     |-> IF run THEN Len(probes) ELSE 0,
        counts         |-> [o \in Outcomes |-> Cardinality(some(o))],
        snapshots      |-> snapshots \cup
                             {[user |-> probes[i].address, at |-> now, block |-> block] :
                                i \in some("written")} ]
=============================================================================
