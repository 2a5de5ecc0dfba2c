---------------------------- MODULE PaymentFloors ----------------------------
(***************************************************************************)
(* The smallest payments seen of each validator (server/src/               *)
(* paymentFloor.ts): once a week a scan of the indexed transactions        *)
(* replaces the table payment_floors, and requests read the table through  *)
(* a copy in memory.                                                       *)
(*                                                                         *)
(* An address is known by its compact form, amounts are Luna (a 5th        *)
(* percentile is in twentieths of one), times are milliseconds.            *)
(***************************************************************************)
EXTENDS PositionRules, Sequences, FiniteSets

LOCAL INSTANCE SequencesExt

CONSTANTS Registries,   \* what the table validators may hold: sets of records
                        \* with an address, a reward address and a place
          Ledgers       \* what the table transactions may hold

VARIABLES registry,   \* the table validators
          ledger,     \* the table transactions
          now,        \* the clock
          table,      \* the table payment_floors: validator -> floor
          memory,     \* the copy of it in the process, or None
          answer      \* what the last request was told

vars == << registry, ledger, now, table, memory, answer >>

PaymentFloorMinSamples == 50

PaymentFloorMinRecipients == 3

PaymentFloorRefresh == 7 * 24 * 60 * 60000

MemoryReadTtl == 60000

-----------------------------------------------------------------------------
(* What one scan computes.                                                 *)

EmptyFloor(at) ==
  [ min |-> None, p5 |-> None, samples |-> 0, recipients |-> 0, depth |-> None,
    status |-> "unavailable", at |-> at ]

(* percentile(sorted, 0.05): between two neighbours, by what is left over. *)
Percentile5(sorted) ==
  LET i    == (Len(sorted) - 1) \div 20
      rest == (Len(sorted) - 1) % 20
  IN  IF sorted = <<>> THEN None
      ELSE IF rest = 0 THEN 20 * sorted[i + 1]
      ELSE (20 - rest) * sorted[i + 1] + rest * sorted[i + 2]

HistorySpan(payments) ==
  LET dated == {p \in payments : p.at # None}
  IN  IF Cardinality(dated) < 2 THEN None
      ELSE (CHOOSE t \in {p.at : p \in dated} : \A p \in dated : p.at <= t)
           - (CHOOSE t \in {p.at : p \in dated} : \A p \in dated : t <= p.at)

Rewarded(rows) == {row \in rows : row.reward # None}

(* rewardToValidator: of the validators that share a reward address the    *)
(* last one read keeps it.                                                 *)
Owner(rows, reward) ==
  (CHOOSE row \in rows :
     row.reward = reward /\ \A other \in rows : other.reward = reward => other.place <= row.place).address

(* The payments of a reward address to anyone but itself and its owner.    *)
Samples(rows, txs, reward) ==
  {tx \in txs : /\ tx.ok /\ tx.value > 0 /\ tx.from = reward
                /\ tx.to \notin {reward, Owner(rows, reward)}}

FloorOf(payments, at) ==
  LET sorted     == SetToSortSeq(payments, LAMBDA p, q : p.value < q.value)
      amounts    == [i \in DOMAIN sorted |-> sorted[i].value]
      recipients == Cardinality({p.to : p \in payments} \ {None})
  IN  IF payments = {} THEN EmptyFloor(at)
      ELSE [ min        |-> amounts[1],
             p5         |-> Percentile5(amounts),
             samples    |-> Cardinality(payments),
             recipients |-> recipients,
             depth      |-> HistorySpan(payments),
             status     |-> IF Cardinality(payments) < PaymentFloorMinSamples
                               \/ recipients < PaymentFloorMinRecipients
                            THEN "insufficient" ELSE "inferred",
             at         |-> at ]

(* The payments that count for one row of the registry. *)
Counted(rows, txs, row) ==
  IF Owner(rows, row.reward) = row.address THEN Samples(rows, txs, row.reward) ELSE {}

ComputePaymentFloors(rows, txs, at) ==
  [v \in {row.address : row \in Rewarded(rows)} |->
     FloorOf(Counted(rows, txs, CHOOSE row \in Rewarded(rows) : row.address = v), at)]

-----------------------------------------------------------------------------
(* The table and its copy.                                                 *)

(* No row is younger than the cadence: the table is empty or a week old. *)
RefreshDue(floors, at) == \A v \in DOMAIN floors : at - floors[v].at >= PaymentFloorRefresh

Copy(floors) == [expires |-> now + MemoryReadTtl, floors |-> floors]

Init ==
  /\ registry \in Registries /\ ledger \in Ledgers
  /\ now = 0
  /\ table = << >>
  /\ memory = None
  /\ answer = None

(* The registry sync and the indexer, which never touch the floors. *)
WorldChanges ==
  /\ registry' \in Registries /\ ledger' \in Ledgers
  /\ UNCHANGED << now, table, memory, answer >>

(* The scheduler finds the refresh due: one transaction deletes the rows   *)
(* that are not in the map and writes the others, then the copy is the map. *)
Refresh ==
  /\ RefreshDue(table, now)
  /\ table' = ComputePaymentFloors(registry, ledger, now)
  /\ memory' = Copy(table')
  /\ UNCHANGED << registry, ledger, now, answer >>

(* A scan or a transaction that throws is rolled back, and the copy stays. *)
RefreshFails ==
  /\ RefreshDue(table, now)
  /\ UNCHANGED vars

(* loadPaymentFloors, for the list or for a profile. *)
Load ==
  /\ IF memory # None /\ memory.expires > now
     THEN answer' = memory.floors /\ UNCHANGED memory
     ELSE answer' = table /\ memory' = Copy(table)
  /\ UNCHANGED << registry, ledger, now, table >>

(* getObservedPaymentFloor *)
ObservedFloor(floors, validator, at) ==
  IF validator \in DOMAIN floors THEN floors[validator] ELSE EmptyFloor(at)

Restart ==
  /\ memory' = None
  /\ UNCHANGED << registry, ledger, now, table, answer >>

Tick ==
  /\ now' \in Nat /\ now' > now
  /\ UNCHANGED << registry, ledger, table, memory, answer >>

Next == WorldChanges \/ Refresh \/ RefreshFails \/ Load \/ Restart \/ Tick

Spec == Init /\ [][Next]_vars

-----------------------------------------------------------------------------

(* The copy in memory is the table, whatever restarts, failed refreshes    *)
(* and expiries came between.                                              *)
MemoryIsTheTable == memory # None => memory.floors = table

(* No reader sees the floors of two scans mixed. *)
OneScan == \A v, w \in DOMAIN table : table[v].at = table[w].at /\ table[v].at <= now

(* An answer is what the table holds at that time. *)
AnswersAreStored == [][Load => answer' = table]_vars
=============================================================================
