-------------------------- MODULE IntentLifecycle --------------------------
(***************************************************************************)
(* What the staking write path promises, without handlers, clock, caches   *)
(* or position reads: an intent is opened by its owner with recorded       *)
(* parameters, and then, once and for all, is confirmed or failed by a     *)
(* transaction of the ledger or lapses.  StakingIntents implements it.     *)
(***************************************************************************)
EXTENDS PositionRules

CONSTANTS Owners, Ids, Hashes,
          OpenRequests,  \* the (operation, parameters) an owner may ask for
          Entries        \* the transactions the ledger may hold

VARIABLES ledger,   \* hash -> transaction, or None
          book      \* id -> [owner, params, status, txHash], or None

lifecycleVars == <<ledger, book>>

LInit ==
  /\ ledger = [h \in Hashes |-> None]
  /\ book = [i \in Ids |-> None]

Unsettled(i) == book[i] # None /\ book[i].status = "pending"

Record(tx, h) ==
  /\ ledger[h] = None
  /\ ledger' = [ledger EXCEPT ![h] = tx]
  /\ UNCHANGED book

Open(i, o, r) ==
  /\ book[i] = None
  /\ book' = [book EXCEPT ![i] = [owner |-> o, params |-> r.params,
                                  status |-> "pending", txHash |-> None]]
  /\ UNCHANGED ledger

Outcome(e, status, h) ==
  [owner |-> e.owner, params |-> e.params, status |-> status, txHash |-> h]

(* A ledger entry settles an intent: it fails on an unsuccessful one, and  *)
(* is confirmed by a successful one of its owner with its amount.          *)
Settle(i, h) ==
  /\ Unsettled(i)
  /\ ledger[h] # None
  /\ \/ /\ ~ledger[h].executionResult
        /\ book' = [book EXCEPT ![i] = Outcome(book[i], "failed", h)]
     \/ /\ ledger[h].executionResult
        /\ ledger[h].from = book[i].owner
        /\ MatchAmount(book[i].params, ledger[h].value)
        /\ book' = [book EXCEPT ![i] = Outcome(book[i], "confirmed", h)]
  /\ UNCHANGED ledger

(* Pending intents of one owner lapse together.                            *)
Lapse(S, o) ==
  /\ \A i \in S : Unsettled(i) /\ book[i].owner = o
  /\ book' = [i \in Ids |-> IF i \in S THEN [book[i] EXCEPT !.status = "expired"]
                                       ELSE book[i]]
  /\ UNCHANGED ledger

LNext ==
  \/ \E h \in Hashes, tx \in Entries : Record(tx, h)
  \/ \E i \in Ids, o \in Owners, r \in OpenRequests : Open(i, o, r)
  \/ \E i \in Ids, h \in Hashes : Settle(i, h)
  \/ \E S \in SUBSET Ids, o \in Owners : Lapse(S, o)

LSpec == LInit /\ [][LNext]_lifecycleVars
=============================================================================
