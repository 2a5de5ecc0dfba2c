--------------------------- MODULE PayoutIndexer ---------------------------
(***************************************************************************)
(* The payout indexer (server/src/payoutIndexer.ts): every cycle of the    *)
(* scheduler walks the transactions of each listed reward address, newest  *)
(* first and page by page, down to the address's cursor or to a floor,     *)
(* then stores what the walk kept and the new cursor in one database       *)
(* transaction and classifies the address.                                 *)
(*                                                                         *)
(* A transaction is its position in the chain, so newer is greater and the *)
(* block number, which is also the clock, is a function of it.  A page is  *)
(* answered by an RPC node that may be behind.  The pages of a walk are    *)
(* awaited, the walks of several addresses and new blocks interleave with  *)
(* them; what follows the last page runs without an await.                 *)
(***************************************************************************)
EXTENDS Integers, Sequences, FiniteSets

CONSTANTS
  Addresses,     \* reward addresses
  None,
  PageSize,      \* pageSize
  MaxPages,      \* maxPages, the page budget of a walk
  MaxAttempts,   \* attempts of one page (retry)
  Concurrency,   \* addressConcurrency
  BackfillDepth, \* backfillDays, in blocks
  FloorBlock,    \* backfillFloorBlock
  MaxLag,        \* how many blocks a node may be behind
  Parties,       \* bound: the addresses a transaction may be between
  MaxHead,       \* bound: the last block
  MaxTxs,        \* bound: transactions in the chain
  MaxFaults      \* bound: RPC, database and classifier failures, late
                 \* nodes and restarts, counted together

Txs == 1 .. MaxTxs

Blocks == 0 .. MaxHead

Cursors == [lastBlock : Blocks, lastTx : Txs]

ASSUME IndexerAssumption ==
  /\ None \notin Addresses /\ None \notin Int /\ None \notin Cursors
  /\ PageSize \in Nat \ {0} /\ MaxPages \in Nat \ {0}
  /\ MaxAttempts \in Nat \ {0} /\ Concurrency \in Nat \ {0}
  /\ BackfillDepth \in Nat /\ FloorBlock \in Nat /\ MaxLag \in Nat
  /\ Parties \subseteq SUBSET Addresses
  /\ MaxHead \in Nat /\ MaxTxs \in Nat /\ MaxFaults \in Nat

VARIABLES
  chain,        \* the transactions of the chain: [block, parties]
  head,         \* the last block
  listed,       \* configuredRewardAddresses
  transactions, \* table transactions
  cursors,      \* table index_cursors: address -> [lastBlock, lastTx], or None
  classified,   \* address -> the transactions its observations are drawn from
  cycle,        \* the scheduler's cycle
  walk,         \* runAddress of each address
  faults,
  base,         \* history: address -> the floor of its last walk without cursor
  truncated     \* history: address -> that walk, or a later one, ran out of pages
                \* and left something behind

vars == <<chain, head, listed, transactions, cursors, classified, cycle, walk,
          faults, base, truncated>>

(* running covers runCycle up to the answer of getCurrentBlock; todo holds *)
(* the addresses no worker has taken yet.                                  *)
Cycles == [running : BOOLEAN, todo : SUBSET Addresses]

(* cursor is what readCursor answered, floor is timeFloorIso, startAt the  *)
(* last transaction of the page before.                                    *)
Walks == [ active   : BOOLEAN,
           cursor   : Cursors \cup {None},
           floor    : Int,
           startAt  : Txs \cup {None},
           pages    : 0 .. MaxPages,
           attempts : 0 .. MaxAttempts - 1,
           kept     : SUBSET Txs,
           next     : Cursors \cup {None} ]

NoWalk == [ active |-> FALSE, cursor |-> None, floor |-> 0, startAt |-> None,
            pages |-> 0, attempts |-> 0, kept |-> {}, next |-> None ]

NoCycle == [running |-> FALSE, todo |-> {}]

Block(n) == chain[n].block

(* The transactions of an address on a node whose last block is b.         *)
Of(a, b) == {n \in DOMAIN chain : a \in chain[n].parties /\ Block(n) <= b}

Init ==
  /\ chain = <<>>
  /\ head = 0
  /\ listed \in SUBSET Addresses
  /\ transactions = {}
  /\ cursors = [a \in Addresses |-> None]
  /\ classified = [a \in Addresses |-> {}]
  /\ cycle = NoCycle
  /\ walk = [a \in Addresses |-> NoWalk]
  /\ faults = 0
  /\ base = [a \in Addresses |-> 0]
  /\ truncated = [a \in Addresses |-> FALSE]

-----------------------------------------------------------------------------

(* startPayoutIndexerScheduler: the timer starts a cycle unless one runs.  *)
StartCycle ==
  /\ ~cycle.running
  /\ cycle' = [running |-> TRUE, todo |-> listed]
  /\ UNCHANGED <<chain, head, listed, transactions, cursors, classified, walk,
                 faults, base, truncated>>

Active == {a \in Addresses : walk[a].active}

(* A worker of mapWithConcurrency takes an address and runAddress begins.  *)
TakeAddress(a) ==
  /\ a \in cycle.todo
  /\ Cardinality(Active) < Concurrency
  /\ cycle' = [cycle EXCEPT !.todo = @ \ {a}]
  /\ walk' = [walk EXCEPT ![a] = [NoWalk EXCEPT !.active = TRUE,
                                               !.cursor = cursors[a],
                                               !.floor  = head - BackfillDepth]]
  /\ UNCHANGED <<chain, head, listed, transactions, cursors, classified, faults,
                 base, truncated>>

(* All walks have ended: calculateLagBlocks answers and the cycle is over. *)
EndCycle ==
  /\ cycle.running /\ cycle.todo = {} /\ Active = {}
  /\ cycle' = NoCycle
  /\ UNCHANGED <<chain, head, listed, transactions, cursors, classified, walk,
                 faults, base, truncated>>

-----------------------------------------------------------------------------
(* One page: the newest PageSize transactions older than startAt.          *)
Page(a, view, startAt) ==
  LET older == {n \in Of(a, view) : startAt = None \/ n < startAt}
  IN  {n \in older : Cardinality({m \in older : m > n}) < PageSize}

(* cursorReached: down to the cursor's own block, where only the           *)
(* transaction it names counts.                                            *)
CursorReached(cursor, n) ==
  Block(n) < cursor.lastBlock \/ (Block(n) = cursor.lastBlock /\ n = cursor.lastTx)

BelowFloor(w, n) == Block(n) < FloorBlock \/ (w.cursor = None /\ Block(n) < w.floor)

(* The cursor is looked for on the first page only.                        *)
AtBoundary(w, n) == w.cursor # None /\ w.startAt = None /\ CursorReached(w.cursor, n)

Stops(w, n) == BelowFloor(w, n) \/ AtBoundary(w, n)

Kept(w, page) == {n \in page : \A m \in page : m >= n => ~Stops(w, m)}

Newest(S) == CHOOSE n \in S : \A m \in S : m <= n

Oldest(S) == CHOOSE n \in S : \A m \in S : m >= n

(* Mutant: the watermark names the block only.                             *)
NextCursorBlockOnly(w, kept) ==
  IF kept # {} /\ w.startAt = None
  THEN [lastBlock |-> Block(Newest(kept)), lastTx |-> None]
  ELSE w.next

NextCursor(w, kept) ==
  IF kept # {} /\ w.startAt = None
  THEN [lastBlock |-> Block(Newest(kept)), lastTx |-> Newest(kept)]
  ELSE w.next

(* Mutant: the watermark is the newest of the page, new or not.            *)
AfterPageNewestOfAll(w, page) ==
  [w EXCEPT !.pages    = @ + 1,
            !.attempts = 0,
            !.kept     = @ \cup Kept(w, page),
            !.next     = NextCursor(w, page),
            !.startAt  = IF page = {} THEN @ ELSE Oldest(page)]

(* The walk after a page.                                                  *)
AfterPage(w, page) ==
  [w EXCEPT !.pages    = @ + 1,
            !.attempts = 0,
            !.kept     = @ \cup Kept(w, page),
            !.next     = NextCursor(w, Kept(w, page)),
            !.startAt  = IF page = {} THEN @ ELSE Oldest(page)]

Bottom(w, page) == page = {} \/ \E n \in page : Stops(w, n)

(* Mutant: the cursor is stored as soon as a walk knows its watermark.     *)
ContinueStoringCursor(a, w) ==
  /\ walk' = [walk EXCEPT ![a] = w]
  /\ cursors' = IF w.next = None THEN cursors ELSE [cursors EXCEPT ![a] = w.next]
  /\ UNCHANGED <<transactions, classified, base, truncated>>

Continue(a, w) ==
  /\ walk' = [walk EXCEPT ![a] = w]
  /\ UNCHANGED <<transactions, cursors, classified, base, truncated>>

(* What a walk that ran out of pages leaves below its last page: what is   *)
(* neither below a floor nor below the cursor.                             *)
Left(a, w) == {n \in Of(a, head) : /\ w.startAt # None /\ n < w.startAt
                                   /\ ~BelowFloor(w, n)
                                   /\ w.cursor # None => n > w.cursor.lastTx}

(* Mutant: a walk that kept nothing does not classify.                     *)
CommitNews(a, w, classifies) ==
  /\ transactions' = transactions \cup w.kept
  /\ cursors' = IF w.next = None THEN cursors ELSE [cursors EXCEPT ![a] = w.next]
  /\ classified' = IF classifies /\ w.kept # {}
                   THEN [classified EXCEPT ![a] =
                           {n \in transactions' : a \in chain[n].parties}]
                   ELSE classified
  /\ walk' = [walk EXCEPT ![a] = NoWalk]
  /\ IF w.cursor = None
     THEN /\ base' = [base EXCEPT ![a] = w.floor]
          /\ truncated' = [truncated EXCEPT ![a] = Left(a, w) # {}]
     ELSE /\ UNCHANGED base
          /\ truncated' = [truncated EXCEPT ![a] = @ \/ Left(a, w) # {}]

(* The database transaction at the end of a walk, and the classification   *)
(* of the address, which may throw (classifies) and then changes nothing.  *)
Commit(a, w, classifies) ==
  /\ transactions' = transactions \cup w.kept
  /\ cursors' = IF w.next = None THEN cursors ELSE [cursors EXCEPT ![a] = w.next]
  /\ classified' = IF classifies
                   THEN [classified EXCEPT ![a] =
                           {n \in transactions' : a \in chain[n].parties}]
                   ELSE classified
  /\ walk' = [walk EXCEPT ![a] = NoWalk]
  /\ IF w.cursor = None
     THEN /\ base' = [base EXCEPT ![a] = w.floor]
          /\ truncated' = [truncated EXCEPT ![a] = Left(a, w) # {}]
     ELSE /\ UNCHANGED base
          /\ truncated' = [truncated EXCEPT ![a] = @ \/ Left(a, w) # {}]

(* A node at block view answers the page.  It knows startAt: a node that   *)
(* does not answers with an error.                                         *)
PageArrives(a, view, classifies) ==
  LET page == Page(a, view, walk[a].startAt)
      w    == AfterPage(walk[a], page)
      ends == Bottom(walk[a], page) \/ w.pages = MaxPages
  IN
  /\ walk[a].active
  /\ walk[a].startAt # None => Block(walk[a].startAt) <= view
  /\ classifies \/ ends
  /\ IF ends THEN Commit(a, w, classifies) ELSE Continue(a, w)
  /\ LET late == IF view < head \/ ~classifies THEN 1 ELSE 0
     IN  faults + late <= MaxFaults /\ faults' = faults + late
  /\ UNCHANGED <<chain, head, listed, cycle>>

(* The page is refused or times out.  It is asked for again, and after the *)
(* last attempt the walk ends with nothing stored.                         *)
FetchFails(a) ==
  /\ walk[a].active
  /\ faults < MaxFaults
  /\ faults' = faults + 1
  /\ LET w == walk[a]
     IN  walk' = [walk EXCEPT ![a] = IF w.attempts + 1 < MaxAttempts
                                     THEN [w EXCEPT !.attempts = @ + 1]
                                     ELSE NoWalk]
  /\ UNCHANGED <<chain, head, listed, transactions, cursors, classified, cycle,
                 base, truncated>>

(* A row of the page is malformed, or the database transaction throws: the *)
(* walk ends at once and nothing is stored.                                *)
WalkFails(a) ==
  /\ walk[a].active
  /\ faults < MaxFaults
  /\ faults' = faults + 1
  /\ walk' = [walk EXCEPT ![a] = NoWalk]
  /\ UNCHANGED <<chain, head, listed, transactions, cursors, classified, cycle,
                 base, truncated>>

-----------------------------------------------------------------------------
(* A block, with the parties of its transactions.                          *)
NewBlock(parties) ==
  /\ head < MaxHead
  /\ Len(chain) + Len(parties) <= MaxTxs
  /\ head' = head + 1
  /\ chain' = chain \o [k \in DOMAIN parties |-> [block |-> head + 1, parties |-> parties[k]]]
  /\ UNCHANGED <<listed, transactions, cursors, classified, cycle, walk, faults,
                 base, truncated>>

(* The registry sync lists other addresses.                                *)
Relist(S) ==
  /\ listed # S
  /\ faults < MaxFaults
  /\ faults' = faults + 1
  /\ listed' = S
  /\ UNCHANGED <<chain, head, transactions, cursors, classified, cycle, walk,
                 base, truncated>>

(* The process restarts; with INDEXER_REBACKFILL it clears the cursors.    *)
Restart(rebackfill) ==
  /\ faults < MaxFaults
  /\ faults' = faults + 1
  /\ cycle' = NoCycle
  /\ walk' = [a \in Addresses |-> NoWalk]
  /\ cursors' = IF rebackfill THEN [a \in Addresses |-> None] ELSE cursors
  /\ UNCHANGED <<chain, head, listed, transactions, classified, base, truncated>>

BlockContents == {<<>>} \cup {<<S>> : S \in Parties} \cup {<<S, T>> : S, T \in Parties}

Indexer ==
  \/ StartCycle \/ EndCycle
  \/ \E a \in Addresses :
       \/ TakeAddress(a) \/ FetchFails(a) \/ WalkFails(a)
       \/ \E view \in head - MaxLag .. head, classifies \in BOOLEAN :
            PageArrives(a, view, classifies)

Surroundings ==
  \/ \E parties \in BlockContents : NewBlock(parties)
  \/ \E S \in SUBSET Addresses : Relist(S)
  \/ \E rebackfill \in BOOLEAN : Restart(rebackfill)

Next == Indexer \/ Surroundings

Spec == Init /\ [][Next]_vars

(* The timer and the workers keep running, and every page is answered in   *)
(* the end: what can go wrong is bounded by MaxFaults.                     *)
Fairness ==
  /\ WF_vars(StartCycle) /\ WF_vars(EndCycle)
  /\ \A a \in Addresses : /\ WF_vars(TakeAddress(a))
                          /\ WF_vars(PageArrives(a, head, TRUE))

FairSpec == Spec /\ Fairness

-----------------------------------------------------------------------------
TypeOK ==
  /\ chain \in Seq([block : Blocks, parties : SUBSET Addresses])
  /\ Len(chain) <= MaxTxs
  /\ head \in Blocks
  /\ listed \in SUBSET Addresses
  /\ transactions \in SUBSET (DOMAIN chain)
  /\ cursors \in [Addresses -> Cursors \cup {None}]
  /\ classified \in [Addresses -> SUBSET (DOMAIN chain)]
  /\ cycle \in Cycles
  /\ walk \in [Addresses -> Walks]
  /\ faults \in 0 .. MaxFaults
  /\ base \in [Addresses -> Int]
  /\ truncated \in [Addresses -> BOOLEAN]

(* The transactions of an address from its floor up to its cursor.         *)
Due(a) == {n \in Of(a, head) : /\ n <= cursors[a].lastTx
                               /\ Block(n) >= base[a]
                               /\ Block(n) >= FloorBlock}

(* The cursor never runs ahead of the table: from the floor of the walk    *)
(* that created it up to the cursor every transaction of the address is    *)
(* stored, whatever failed, lagged or restarted, unless a walk ran out of  *)
(* pages.                                                                  *)
NoGapBelowCursor ==
  \A a \in Addresses : cursors[a] # None /\ ~truncated[a] => Due(a) \subseteq transactions

(* A cursor moves forward only, also when the node that answers is behind  *)
(* the one that answered the cycle before.                                 *)
CursorsMoveForward ==
  [][\A a \in Addresses :
       cursors[a] # None /\ cursors'[a] # None => cursors'[a].lastTx >= cursors[a].lastTx]_vars

(* Once the failures are over and an address stays listed, everything from *)
(* its floor on is stored, and its observations are drawn from all of it,  *)
(* unless a walk ran out of pages.                                         *)
CaughtUp(a) ==
  {n \in Of(a, head) : Block(n) >= base[a] /\ Block(n) >= FloorBlock} \subseteq classified[a]

ListedCatchUp ==
  \A a \in Addresses : <>[](a \in listed) => <>[](truncated[a] \/ CaughtUp(a))

=============================================================================
