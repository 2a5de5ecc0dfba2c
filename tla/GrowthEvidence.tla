--------------------------- MODULE GrowthEvidence --------------------------
(***************************************************************************)
(* How a change of a restaking position becomes "observed growth"          *)
(* (readObservedPositionGrowth in server/src/personalContinuity.ts): the   *)
(* total of the position is snapshotted from time to time, and an interval *)
(* between two snapshots counts as growth only when the stored history of  *)
(* the wallet's staking actions (server/src/stakerHistory.ts) covers it    *)
(* and has no action in it.                                                *)
(*                                                                         *)
(* One wallet.  A transaction is its position in the wallet's history on   *)
(* chain, which is in the order of the clock; several may share a tick,    *)
(* and one may land in a tick after others have read the clock.  The node  *)
(* that answers may be behind the chain.  Of a snapshot its time is kept.  *)
(* Intents and changes of delegation only take further intervals out of    *)
(* the growth and are left out.                                            *)
(***************************************************************************)
EXTENDS Integers, Sequences, FiniteSets

CONSTANTS
  None,
  Requests,   \* bound: continuity requests in flight together
  PageSize,   \* PAGE_SIZE
  MaxPages,   \* MAX_PAGES
  Window,     \* LIMIT of the snapshots that are read
  Throttle,   \* SNAPSHOT_THROTTLE_MS, in ticks
  MaxLag,     \* ticks after which every node knows a transaction
  MaxTime,    \* bound: the last tick
  MaxTxs      \* bound: transactions in the history

ASSUME GrowthAssumption ==
  /\ None \notin Int /\ None \notin Requests
  /\ PageSize \in Nat \ {0} /\ MaxPages \in Nat \ {0}
  /\ Window \in Nat \ {0, 1} /\ Throttle \in Nat /\ MaxLag \in Nat \ {0}
  /\ MaxTime \in Nat /\ MaxTxs \in Nat

VARIABLES
  now,
  chain,      \* the wallet's transactions: [time, kind], oldest first
  reading,    \* the position read in flight: the clock it captured, or None
  snapshots,  \* table staker_snapshots: their observed_at
  actions,    \* table user_staking_actions: positions in chain
  coverage,   \* table user_staking_history_scans: [from, through, complete],
              \* or None
  request,    \* the continuity requests
  scan        \* the scan in flight (inFlightByDatabase), or None

vars == <<now, chain, reading, snapshots, actions, coverage, request, scan>>

Times == 0 .. MaxTime

Positions == 1 .. MaxTxs

(* A malformed transaction may hide an action.                             *)
Kinds == {"action", "other", "malformed"}

Coverages == [from : Times, through : Times, complete : BOOLEAN]

RequestStates == [pc : {"idle", "waiting", "scanning"}, from : Times, through : Times]

(* performSync: owner is the request that runs it, from its requiredFrom,  *)
(* startAt the last transaction of the page before.                        *)
Scans == [ owner     : Requests,
           from      : Times,
           startedAt : Times,
           startAt   : Positions \cup {None},
           pages     : 0 .. MaxPages,
           oldest    : Times \cup {None},
           readable  : BOOLEAN ]

Idle == [pc |-> "idle", from |-> 0, through |-> 0]

Init ==
  /\ now = 0
  /\ chain = <<>>
  /\ reading = None
  /\ snapshots = {}
  /\ actions = {}
  /\ coverage = None
  /\ request = [r \in Requests |-> Idle]
  /\ scan = None

-----------------------------------------------------------------------------
(* readObservedPositionGrowth                                              *)

(* The newest snapshots, at most Window of them.                           *)
Shown == {s \in snapshots : Cardinality({t \in snapshots : t > s}) < Window}

(* Neighbours among the shown snapshots.                                   *)
Intervals ==
  {p \in Shown \X Shown : /\ p[1] < p[2]
                          /\ \A s \in Shown : ~(p[1] < s /\ s < p[2])}

Time(n) == chain[n].time

Covers(c, from, through) == c # None /\ c.from <= from /\ c.through >= through

(* chainEvidenceFor answers null.                                          *)
IsGrowth(p) ==
  /\ Covers(coverage, p[1], p[2])
  /\ \A n \in actions : ~(p[1] <= Time(n) /\ Time(n) <= p[2])

-----------------------------------------------------------------------------
(* A position read captures the clock, reads the balances later, and       *)
(* stores them under the clock it captured unless a snapshot is recent.    *)
BeginSnapshot ==
  /\ reading = None
  /\ reading' = now
  /\ UNCHANGED <<now, chain, snapshots, actions, coverage, request, scan>>

FinishSnapshot ==
  /\ reading # None
  /\ snapshots' = IF \E s \in snapshots : s >= reading - Throttle
                  THEN snapshots
                  ELSE snapshots \cup {reading}
  /\ reading' = None
  /\ UNCHANGED <<now, chain, actions, coverage, request, scan>>

-----------------------------------------------------------------------------
(* The scan a request starts.                                              *)
NewScan(r, from) ==
  [ owner |-> r, from |-> from, startedAt |-> now, startAt |-> None,
    pages |-> 0, oldest |-> None, readable |-> TRUE ]

(* A continuity request that shows an interval and is not covered: it      *)
(* starts a scan, or waits for the one in flight.                          *)
BeginRequest(r) ==
  /\ request[r].pc = "idle"
  /\ Cardinality(Shown) >= 2
  /\ LET earliest == CHOOSE t \in Shown : \A s \in Shown : s >= t
         latest   == CHOOSE t \in Shown : \A s \in Shown : s <= t
     IN
     /\ ~Covers(coverage, earliest, latest)
     /\ request' = [request EXCEPT ![r] =
                      [ pc      |-> IF scan = None THEN "scanning" ELSE "waiting",
                        from    |-> earliest,
                        through |-> latest ]]
     /\ scan' = IF scan = None THEN NewScan(r, earliest) ELSE scan
  /\ UNCHANGED <<now, chain, reading, snapshots, actions, coverage>>

(* The newest PageSize transactions older than startAt on a node that      *)
(* knows the history up to view.                                           *)
Page(view, startAt) ==
  LET older == {n \in 1 .. view : startAt = None \/ n < startAt}
  IN  {n \in older : Cardinality({m \in older : m > n}) < PageSize}

Readable(page) == {n \in page : chain[n].kind # "malformed"}

Oldest(page) == CHOOSE n \in page : \A m \in page : m >= n

Earliest(t, ts) ==
  IF ts = {} THEN t
  ELSE CHOOSE x \in ts \cup ({t} \ {None}) : \A y \in ts \cup ({t} \ {None}) : x <= y

(* The scan after a page.                                                  *)
AfterPage(s, page) ==
  [s EXCEPT !.pages    = @ + 1,
            !.oldest   = Earliest(@, {Time(n) : n \in Readable(page)}),
            !.readable = @ /\ Readable(page) = page,
            !.startAt  = IF page = {} THEN @ ELSE Oldest(page)]

ReachedBoundary(s, page) == page = {} \/ (s.oldest # None /\ s.oldest <= s.from)

(* Mutant: a scan that met an unreadable transaction claims coverage.      *)
ClaimsAnyway(s, page) == ReachedBoundary(s, page)

Claims(s, page) == s.readable /\ ReachedBoundary(s, page)

(* Mutant: an empty history is covered from the oldest transaction read.   *)
MergedFromOldest(s, complete) ==
  [from |-> s.oldest, through |-> s.startedAt, complete |-> complete]

(* The watermark after a scan: it keeps the earlier start of the two.      *)
Merged(s, complete) ==
  LET from == IF complete THEN 0 ELSE s.oldest IN
  [ from     |-> IF coverage # None /\ coverage.from <= from THEN coverage.from ELSE from,
    through  |-> s.startedAt,
    complete |-> complete \/ (coverage # None /\ coverage.complete) ]

(* The end of a scan: its owner is answered, and so is every waiter that   *)
(* is now covered; one of the others starts a scan of its own.             *)
Release(c) ==
  LET waiters == {r \in Requests : request[r].pc = "waiting"}
      left    == {r \in waiters : ~Covers(c, request[r].from, request[r].through)}
  IN
  IF left = {}
  THEN /\ scan' = None
       /\ request' = [r \in Requests |-> Idle]
  ELSE \E next \in left :
         /\ scan' = NewScan(next, request[next].from)
         /\ request' = [r \in Requests |->
                          IF r = next THEN [request[r] EXCEPT !.pc = "scanning"]
                          ELSE IF r \in left THEN request[r] ELSE Idle]

(* What the node that answers a page knows of the history.  It was asked   *)
(* after the scan began, so nothing is missing that was then MaxLag old;   *)
(* and it knows startAt, or it answers with an error.                      *)
Views ==
  {view \in 0 .. Len(chain) :
     /\ \A n \in DOMAIN chain : Time(n) <= scan.startedAt - MaxLag => n <= view
     /\ scan.startAt # None => scan.startAt <= view}

(* A page arrives: its actions are stored one by one, whether or not the   *)
(* scan will claim coverage.                                               *)
PageArrives(view) ==
  /\ scan # None /\ view \in Views
  /\ LET page == Page(view, scan.startAt)
         s    == AfterPage(scan, page)
     IN
     /\ actions' = actions \cup {n \in page : chain[n].kind = "action"}
     /\ IF ReachedBoundary(s, page) \/ s.pages = MaxPages
        THEN /\ coverage' = IF Claims(s, page) THEN Merged(s, page = {}) ELSE coverage
             /\ Release(coverage')
        ELSE /\ scan' = s
             /\ UNCHANGED <<coverage, request>>
  /\ UNCHANGED <<now, chain, reading, snapshots>>

(* Mutant: the scan is left in the map when it fails.                      *)
PageFailsLeavingScan ==
  /\ scan # None
  /\ request' = [request EXCEPT ![scan.owner] = Idle]
  /\ UNCHANGED <<now, chain, reading, snapshots, actions, coverage, scan>>

(* The page is refused: the promise rejects, and the owner and everyone    *)
(* who waits for it answer with what is stored.                            *)
PageFails ==
  /\ scan # None
  /\ scan' = None
  /\ request' = [r \in Requests |-> Idle]
  /\ UNCHANGED <<now, chain, reading, snapshots, actions, coverage>>

PageAnswered == (\E view \in 0 .. Len(chain) : PageArrives(view)) \/ PageFails

-----------------------------------------------------------------------------
Mine(kind) ==
  /\ Len(chain) < MaxTxs
  /\ chain' = Append(chain, [time |-> now, kind |-> kind])
  /\ UNCHANGED <<now, reading, snapshots, actions, coverage, request, scan>>

Tick ==
  /\ now < MaxTime
  /\ now' = now + 1
  /\ UNCHANGED <<chain, reading, snapshots, actions, coverage, request, scan>>

(* A restart keeps the database only.                                      *)
Restart ==
  /\ reading' = None
  /\ request' = [r \in Requests |-> Idle]
  /\ scan' = None
  /\ UNCHANGED <<now, chain, snapshots, actions, coverage>>

Next ==
  \/ BeginSnapshot \/ FinishSnapshot
  \/ \E r \in Requests : BeginRequest(r)
  \/ PageAnswered
  \/ \E kind \in Kinds : Mine(kind)
  \/ Tick
  \/ Restart

Spec == Init /\ [][Next]_vars

(* Every page is answered or refused in the end (RPC calls time out).      *)
FairSpec == Spec /\ WF_vars(PageAnswered)

-----------------------------------------------------------------------------
TypeOK ==
  /\ now \in Times
  /\ chain \in Seq([time : Times, kind : Kinds]) /\ Len(chain) <= MaxTxs
  /\ reading \in Times \cup {None}
  /\ snapshots \in SUBSET Times
  /\ actions \in SUBSET (DOMAIN chain)
  /\ coverage \in Coverages \cup {None}
  /\ request \in [Requests -> RequestStates]
  /\ scan \in Scans \cup {None}

(* What the node may have missed when the coverage was claimed, since the  *)
(* watermark is the clock of the server at the start of the scan, whatever *)
(* the node that answered had seen (stakerHistory.ts:226); and what shares *)
(* the tick of the oldest snapshot that is shown, where a scan stops and a *)
(* page may have ended between two transactions.                           *)
AtTheEdge(n) == \/ Time(n) > coverage.through - MaxLag
                \/ \A s \in Shown : s >= Time(n)

(* An interval is called growth only when no transaction of the wallet in  *)
(* it is, or may hide, a staking action, those at the edges of what the    *)
(* scan could see excepted: pages that end early, nodes behind one another,*)
(* merged watermarks, scans shared by requests and a window of snapshots   *)
(* that moves on let no other slip through.                                *)
GrowthHasNoAction ==
  \A p \in Intervals :
    IsGrowth(p) =>
      ~\E n \in DOMAIN chain :
          /\ chain[n].kind # "other" /\ ~AtTheEdge(n)
          /\ p[1] <= Time(n) /\ Time(n) <= p[2]

(* Every continuity request is answered, whatever the scans come to.       *)
EveryRequestIsAnswered ==
  \A r \in Requests : request[r].pc # "idle" ~> request[r].pc = "idle"

=============================================================================
