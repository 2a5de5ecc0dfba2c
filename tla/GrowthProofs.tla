----------------------------- MODULE GrowthProofs ---------------------------
(***************************************************************************)
(* Proofs about GrowthEvidence, for every value of its constants.          *)
(***************************************************************************)
EXTENDS GrowthEvidence, FiniteSetTheorems, NaturalsInduction, SequenceTheorems, TLAPS

-----------------------------------------------------------------------------
(* Sets of naturals have a least member, bounded ones a greatest.          *)

LEMMA LeastExists ==
  ASSUME NEW S \in SUBSET Nat, S # {}
  PROVE  \E n \in S : \A m \in S : n <= m
<1>1. PICK n \in S : \A m \in S : <<m, n>> \notin OpToRel(<, Nat)
  BY WFMin, NatLessThanWellFounded
<1>2. \A m \in S : ~(m < n)
  BY <1>1 DEF OpToRel
<1> QED  BY <1>2

LEMMA GreatestExists ==
  ASSUME NEW k \in Nat, NEW S \in SUBSET (0 .. k), S # {}
  PROVE  \E n \in S : \A m \in S : m <= n
<1> DEFINE T == {j \in Nat : \A m \in S : m <= j}
<1>1. k \in T /\ T \in SUBSET Nat
  OBVIOUS
<1> HIDE DEF T
<1>2. PICK j \in T : \A i \in T : j <= i
  BY <1>1, LeastExists
<1>3. j \in Nat /\ \A m \in S : m <= j
  BY DEF T
<1>4. j \in S
  <2>1. SUFFICES ASSUME j \notin S PROVE FALSE
    OBVIOUS
  <2>2. \A m \in S : m \in 0 .. k /\ m <= j /\ m # j
    BY <1>3, <2>1
  <2>3. \A m \in S : m <= j - 1 /\ j - 1 \in Nat
    BY <1>3, <2>2
  <2>4. j - 1 \in Nat /\ \A m \in S : m <= j - 1
    BY <2>3
  <2>5. j - 1 \in T
    BY <2>4 DEF T
  <2> QED  BY <1>2, <1>3, <2>5
<1> QED  BY <1>3, <1>4

-----------------------------------------------------------------------------
(* The inductive invariant.                                                *)

(* The chain is in the order of its clock, and none of it in the future.   *)
ClockInOrder ==
  /\ \A n \in DOMAIN chain : Time(n) <= now
  /\ \A m, n \in DOMAIN chain : m < n => Time(m) <= Time(n)

(* The stored history tells what the transaction is.                       *)
Told(n) == chain[n].kind # "malformed" /\ (chain[n].kind = "action" => n \in actions)

(* The watermark: after the first snapshot that is shown, and up to what    *)
(* every node knew when the coverage was claimed, everything is told.  It  *)
(* is enough that it begins there, since the snapshots that are shown only *)
(* move forward.                                                           *)
CoverageHolds ==
  coverage # None =>
    /\ coverage.through <= now
    /\ \A n \in DOMAIN chain, s \in Shown :
         s < Time(n) /\ Time(n) <= coverage.through - MaxLag => Told(n)

(* Nothing was asked of the history from later than the first snapshot     *)
(* that is shown.                                                          *)
AskedFromTheFirst ==
  /\ coverage # None \/ scan # None \/ (\E r \in Requests : request[r].pc # "idle")
       => snapshots # {}
  /\ \A r \in Requests, s \in Shown : request[r].pc # "idle" => request[r].from <= s
  /\ \A s \in Shown : scan # None => scan.from <= s

(* A scan that goes on has stored every action from the last transaction   *)
(* it saw up to what every node knew at its start, and its oldest time is  *)
(* that of a transaction it saw.                                           *)
SeenBy(s, n) == n >= s.startAt /\ Time(n) <= s.startedAt - MaxLag

ScanHolds ==
  scan # None =>
    /\ scan.pages < MaxPages /\ scan.startedAt <= now
    /\ scan.startAt = None => scan.oldest = None
    /\ scan.startAt # None =>
         /\ scan.startAt \in DOMAIN chain
         /\ \A n \in DOMAIN chain :
              SeenBy(scan, n) => /\ chain[n].kind = "action" => n \in actions
                                 /\ scan.readable => chain[n].kind # "malformed"
         /\ scan.oldest # None =>
              \E m \in DOMAIN chain : m >= scan.startAt /\ Time(m) = scan.oldest

GrowthInv ==
  /\ TypeOK /\ IsFiniteSet(snapshots)
  /\ ClockInOrder /\ CoverageHolds /\ AskedFromTheFirst /\ ScanHolds

-----------------------------------------------------------------------------
(* The chain and the pages of it.                                          *)

LEMMA Constants ==
  /\ MaxTime \in Nat /\ MaxTxs \in Nat /\ MaxPages \in Nat /\ MaxPages > 0
  /\ Window \in Nat /\ Window > 0 /\ PageSize \in Nat /\ PageSize > 0 /\ Throttle \in Nat
  /\ MaxLag \in Nat /\ MaxLag > 0
  /\ None \notin Int /\ None \notin Times /\ None \notin Positions /\ Times \subseteq Nat
BY GrowthAssumption DEF Times, Positions

LEMMA ChainDomain ==
  ASSUME TypeOK
  PROVE  /\ Len(chain) \in Nat /\ Len(chain) <= MaxTxs /\ DOMAIN chain = 1 .. Len(chain)
         /\ DOMAIN chain \subseteq Positions /\ DOMAIN chain \subseteq Nat
         /\ \A n \in DOMAIN chain : Time(n) \in Times /\ Time(n) \in Nat
<1>1. Len(chain) \in Nat /\ DOMAIN chain = 1 .. Len(chain) /\ Len(chain) <= MaxTxs
  BY DEF TypeOK
<1>2. \A n \in 1 .. Len(chain) : chain[n] \in [time : Times, kind : Kinds]
  <2> DEFINE Entries == [time : Times, kind : Kinds]
  <2>1. chain \in Seq(Entries)
    BY DEF TypeOK
  <2> HIDE DEF Entries
  <2>2. \A n \in 1 .. Len(chain) : chain[n] \in Entries
    BY <2>1, ElementOfSeq
  <2> QED  BY <2>2 DEF Entries
<1>3. 1 .. Len(chain) \subseteq Positions
  BY <1>1, Constants DEF Positions
<1>4. \A n \in 1 .. Len(chain) : Time(n) \in Times
  BY <1>2 DEF Time
<1>5. \A n \in 1 .. Len(chain) : Time(n) \in Nat
  BY <1>4, Constants
<1>6. 1 .. Len(chain) \subseteq Nat
  BY <1>1
<1> QED  BY <1>1, <1>3, <1>4, <1>5, <1>6

(* A page is the newest part of what is older than startAt, and empty only *)
(* when nothing is.                                                        *)
LEMMA PageIs ==
  ASSUME TypeOK, NEW view \in 0 .. Len(chain), NEW startAt
  PROVE  LET page  == Page(view, startAt)
             older == {n \in 1 .. view : startAt = None \/ n < startAt}
         IN  /\ page \subseteq older
             /\ \A n \in page, m \in older : m >= n => m \in page
             /\ older # {} => page # {}
<1> DEFINE page == Page(view, startAt)
           older == {n \in 1 .. view : startAt = None \/ n < startAt}
           newer(n) == {m \in older : m > n}
<1>1. page = {n \in older : Cardinality(newer(n)) < PageSize}
  BY DEF Page
<1>2. older \in SUBSET (1 .. Len(chain)) /\ Len(chain) \in Nat
  BY ChainDomain
<1> HIDE DEF page, older
<1>3. IsFiniteSet(older) /\ \A m \in older : m \in Nat
  <2>1. IsFiniteSet(1 .. Len(chain))
    BY <1>2, FS_Interval
  <2>2. IsFiniteSet(older)
    BY <1>2, <2>1, FS_Subset
  <2> QED  BY <1>2, <2>2
<1>4. \A n : IsFiniteSet(newer(n)) /\ Cardinality(newer(n)) \in Nat
  BY <1>3, FS_Subset, FS_CardinalityType
<1>5. \A n \in page, m \in older : m >= n => m \in page
  <2> SUFFICES ASSUME NEW n \in page, NEW m \in older, m >= n PROVE m \in page
    OBVIOUS
  <2>1. n \in older /\ Cardinality(newer(n)) < PageSize
    BY <1>1
  <2>2. newer(m) \subseteq newer(n)
    BY <1>3, <2>1
  <2>3. Cardinality(newer(m)) <= Cardinality(newer(n))
    <3> HIDE DEF newer
    <3> QED  BY <1>4, <2>2, FS_Subset
  <2>4. Cardinality(newer(m)) < PageSize
    <3>1. Cardinality(newer(m)) \in Nat /\ Cardinality(newer(n)) \in Nat
      BY <1>4
    <3> HIDE DEF newer
    <3> QED  BY <2>1, <2>3, <3>1, Constants
  <2> QED  BY <1>1, <2>4
<1>6. older # {} => page # {}
  <2> SUFFICES ASSUME older # {} PROVE page # {}
    OBVIOUS
  <2>0. older \in SUBSET (0 .. Len(chain))
    BY <1>2
  <2>1. PICK n \in older : \A m \in older : m <= n
    BY <1>2, <2>0, GreatestExists
  <2>2. newer(n) = {}
    BY <1>3, <2>1
  <2>3. Cardinality(newer(n)) = 0
    BY <2>2, FS_EmptySet
  <2> QED  BY <1>1, <2>3, Constants
<1>7. page \subseteq older
  BY <1>1
<1> QED  BY <1>5, <1>6, <1>7 DEF page, older

LEMMA ViewsAre ==
  ASSUME TypeOK, NEW view \in Views
  PROVE  /\ view \in 0 .. Len(chain) /\ 1 .. view \subseteq DOMAIN chain
BY ChainDomain DEF Views

LEMMA OldestIs ==
  ASSUME NEW S \in SUBSET Nat, S # {}
  PROVE  Oldest(S) \in S /\ \A m \in S : m >= Oldest(S)
<1>1. \E n \in S : \A m \in S : m >= n
  BY LeastExists
<1> QED  BY <1>1 DEF Oldest

LEMMA EarliestIs ==
  ASSUME NEW t \in Times \cup {None}, NEW ts \in SUBSET Times
  PROVE  /\ Earliest(t, ts) \in ts \cup {t}
         /\ t # None \/ ts # {} => Earliest(t, ts) \in Times
<1>1. CASE ts = {}
  BY <1>1 DEF Earliest
<1>2. CASE ts # {}
  <2> DEFINE both == ts \cup ({t} \ {None})
  <2>1. both \in SUBSET Nat /\ both # {} /\ both \subseteq Times /\ both \subseteq ts \cup {t}
    BY <1>2, Constants
  <2>2. Earliest(t, ts) = CHOOSE x \in both : \A y \in both : x <= y
    BY <1>2 DEF Earliest
  <2> HIDE DEF both
  <2>3. \E x \in both : \A y \in both : x <= y
    BY <2>1, LeastExists
  <2>4. Earliest(t, ts) \in both
    BY <2>2, <2>3
  <2> QED  BY <2>1, <2>4
<1> QED  BY <1>1, <1>2

-----------------------------------------------------------------------------
(* The snapshots that are shown.                                           *)

LEMMA ShownIsAny ==
  ASSUME TypeOK, snapshots # {}
  PROVE  Shown # {}
<1>1. snapshots \in SUBSET (0 .. MaxTime)
  BY DEF TypeOK, Times
<1>2. PICK s \in snapshots : \A u \in snapshots : u <= s
  BY <1>1, GreatestExists, Constants
<1>3. \A u \in snapshots : u \in Nat /\ ~(u > s)
  BY <1>1, <1>2
<1>4. {u \in snapshots : u > s} = {}
  BY <1>3
<1>5. Cardinality({u \in snapshots : u > s}) < Window
  BY <1>4, FS_EmptySet, Constants
<1> QED  BY <1>5 DEF Shown

LEMMA ShownIsStored == Shown \subseteq snapshots
BY DEF Shown

LEMMA ShownIsTimes ==
  ASSUME TypeOK
  PROVE  \A s \in Shown : s \in Times /\ s \in Nat
BY ShownIsStored, Constants DEF TypeOK

(* A snapshot newer than all others only moves the window forward.         *)
LEMMA ShownMovesForward ==
  ASSUME TypeOK, IsFiniteSet(snapshots), NEW x, x \in Nat,
         \A s \in snapshots : s < x, snapshots' = snapshots \cup {x}
  PROVE  Shown' \subseteq Shown \cup {x}
<1> DEFINE later(S, s) == {u \in S : u > s}
<1> SUFFICES ASSUME NEW s \in Shown', s # x PROVE s \in Shown
  OBVIOUS
<1>1. s \in snapshots /\ Cardinality(later(snapshots', s)) < Window
  BY DEF Shown
<1>2. IsFiniteSet(snapshots')
  BY FS_AddElement
<1>3. later(snapshots, s) \subseteq later(snapshots', s) /\ later(snapshots', s) \subseteq snapshots'
  OBVIOUS
<1>4. IsFiniteSet(later(snapshots', s))
  BY <1>2, <1>3, FS_Subset
<1>5. /\ Cardinality(later(snapshots, s)) <= Cardinality(later(snapshots', s))
      /\ Cardinality(later(snapshots, s)) \in Nat /\ Cardinality(later(snapshots', s)) \in Nat
  <2>1. IsFiniteSet(later(snapshots, s))
    BY <1>3, <1>4, FS_Subset
  <2>2. Cardinality(later(snapshots, s)) <= Cardinality(later(snapshots', s))
    BY <1>3, <1>4, FS_Subset
  <2> QED  BY <1>4, <2>1, <2>2, FS_CardinalityType
<1>6. Cardinality(later(snapshots, s)) < Window
  <2> HIDE DEF later
  <2> QED  BY <1>1, <1>5, Constants
<1> QED  BY <1>1, <1>6 DEF Shown

(* Every snapshot shown after it is no older than one shown before.        *)
LEMMA ShownOnlyLater ==
  ASSUME TypeOK, IsFiniteSet(snapshots), NEW x, x \in Nat, snapshots # {},
         \A s \in snapshots : s < x, snapshots' = snapshots \cup {x}
  PROVE  \A s \in Shown' : \E e \in Shown : e <= s
<1>1. Shown' \subseteq Shown \cup {x}
  BY ShownMovesForward
<1>2. PICK e \in Shown : TRUE
  BY ShownIsAny
<1>3. \A s \in Shown : s \in Nat /\ s \in snapshots
  BY ShownIsStored, ShownIsTimes
<1>4. e < x
  BY <1>2, <1>3
<1> QED  BY <1>1, <1>2, <1>3, <1>4
-----------------------------------------------------------------------------
(* The invariant is inductive: the steps that leave the history alone.     *)

LEMMA GrowthInit == Init => GrowthInv
<1> SUFFICES ASSUME Init PROVE GrowthInv
  OBVIOUS
<1> USE DEF Init
<1>1. DOMAIN chain = {} /\ Len(chain) = 0
  OBVIOUS
<1>2. TypeOK
  <2>1. now \in Times /\ reading \in Times \cup {None} /\ coverage \in Coverages \cup {None}
    BY Constants DEF Times
  <2>2. chain \in Seq([time : Times, kind : Kinds]) /\ Len(chain) <= MaxTxs
    BY <1>1, Constants
  <2>3. request \in [Requests -> RequestStates]
    BY Constants DEF RequestStates, Idle, Times
  <2> QED  BY <2>1, <2>2, <2>3 DEF TypeOK
<1>3. IsFiniteSet(snapshots)
  BY FS_EmptySet
<1>4. ClockInOrder
  BY <1>1 DEF ClockInOrder
<1>5. CoverageHolds /\ ScanHolds
  BY DEF CoverageHolds, ScanHolds
<1>6. AskedFromTheFirst
  BY DEF AskedFromTheFirst, Shown, Idle
<1> QED  BY <1>2, <1>3, <1>4, <1>5, <1>6 DEF GrowthInv

LEMMA ShownStays == ASSUME UNCHANGED snapshots PROVE Shown' = Shown
BY DEF Shown

(* The database and the chain are left alone, and so are the scans and the *)
(* requests, unless they are dropped.                                      *)
LEMMA QuietStep ==
  ASSUME GrowthInv, UNCHANGED <<now, chain, snapshots, actions, coverage>>,
         reading' \in Times \cup {None},
         \/ UNCHANGED <<request, scan>>
         \/ request' = [r \in Requests |-> Idle] /\ scan' = None
  PROVE  GrowthInv'
<1> USE DEF GrowthInv
<1>1. Shown' = Shown /\ (scan' # None => scan' = scan)
      /\ \A r \in Requests : request'[r].pc # "idle" => request'[r] = request[r]
  BY ShownStays DEF Idle
<1>2. TypeOK'
  <2>1. request' \in [Requests -> RequestStates]
    BY Constants DEF TypeOK, RequestStates, Idle, Times
  <2>2. /\ now' \in Times /\ Len(chain') <= MaxTxs /\ chain' \in Seq([time : Times, kind : Kinds])
        /\ snapshots' \in SUBSET Times /\ actions' \in SUBSET (DOMAIN chain')
        /\ coverage' \in Coverages \cup {None} /\ scan' \in Scans \cup {None}
    BY DEF TypeOK
  <2> QED  BY <2>1, <2>2 DEF TypeOK
<1>3. IsFiniteSet(snapshots') /\ ClockInOrder'
  BY DEF ClockInOrder, Time
<1>4. CoverageHolds'
  BY <1>1 DEF CoverageHolds, Time, Told
<1>5. AskedFromTheFirst'
  BY <1>1 DEF AskedFromTheFirst
<1>6. ScanHolds'
  BY <1>1 DEF ScanHolds, SeenBy, Time
<1> QED  BY <1>2, <1>3, <1>4, <1>5, <1>6

LEMMA FinishSnapshotStep ==
  ASSUME GrowthInv, FinishSnapshot
  PROVE  GrowthInv'
<1> DEFINE x == reading
<1> USE DEF GrowthInv
<1>1. CASE snapshots' = snapshots
  BY <1>1, QuietStep DEF FinishSnapshot
<1>2. CASE snapshots' # snapshots
  <2>1. /\ snapshots' = snapshots \cup {x} /\ reading # None /\ reading' = None
        /\ ~\E s \in snapshots : s >= reading - Throttle
        /\ UNCHANGED <<now, chain, actions, coverage, request, scan>>
    BY <1>2 DEF FinishSnapshot
  <2>2. x \in Times /\ x \in Nat
    BY <2>1, ChainDomain, Constants DEF TypeOK
  <2>3. \A s \in snapshots : s < x
    <3>1. \A s \in snapshots : s \in Nat /\ ~(s >= x - Throttle)
      BY <2>1, Constants DEF TypeOK
    <3> QED  BY <3>1, <2>2, Constants
  <2> HIDE DEF x
  <2>4. /\ snapshots # {} => \A s \in Shown' : \E e \in Shown : e <= s
        /\ snapshots' # {}
    BY <2>1, <2>2, <2>3, ShownOnlyLater
  <2>5. TypeOK'
    BY <2>1, <2>2 DEF TypeOK
  <2>6. IsFiniteSet(snapshots')
    BY <2>1, FS_AddElement
  <2>7. \A s \in Shown' : s \in Nat
    <3>1. Shown' \subseteq snapshots'
      BY DEF Shown
    <3> QED  BY <3>1, <2>5, Constants DEF TypeOK
  <2>8. ClockInOrder'
    BY <2>1 DEF ClockInOrder, Time
  <2>9. ScanHolds'
    BY <2>1 DEF ScanHolds, SeenBy, Time
  <2>10. CoverageHolds'
    <3> SUFFICES ASSUME coverage' # None
                 PROVE  /\ coverage'.through <= now'
                        /\ \A n \in DOMAIN chain', s \in Shown' :
                             s < Time(n)' /\ Time(n)' <= coverage'.through - MaxLag => Told(n)'
      BY DEF CoverageHolds
    <3>1. coverage # None /\ snapshots # {} /\ coverage'.through <= now'
      BY <2>1 DEF CoverageHolds, AskedFromTheFirst
    <3>2. ASSUME NEW n \in DOMAIN chain', NEW s \in Shown',
                 s < Time(n)', Time(n)' <= coverage'.through - MaxLag
          PROVE  Told(n)'
      <4>1. n \in DOMAIN chain /\ s < Time(n) /\ Time(n) <= coverage.through - MaxLag
        BY <2>1, <3>2 DEF Time
      <4>2. PICK e \in Shown : e <= s
        BY <2>4, <3>1
      <4>3. e < Time(n)
        BY <2>7, <4>1, <4>2, ShownIsTimes, ChainDomain
      <4>4. Told(n)
        BY <3>1, <4>1, <4>3 DEF CoverageHolds
      <4> QED  BY <2>1, <4>4 DEF Told
    <3> QED  BY <3>1, <3>2
  <2>11. AskedFromTheFirst'
    <3>1. ASSUME NEW r \in Requests, NEW s \in Shown', request'[r].pc # "idle"
          PROVE  request'[r].from <= s
      <4>1. snapshots # {} /\ request[r].pc # "idle" /\ request'[r] = request[r]
        BY <2>1, <3>1 DEF AskedFromTheFirst
      <4>2. PICK e \in Shown : e <= s
        BY <2>4, <4>1
      <4>3. request[r].from <= e
        BY <4>1 DEF AskedFromTheFirst
      <4>4. request[r].from \in Nat
        BY Constants DEF TypeOK, RequestStates
      <4> QED  BY <2>7, <4>1, <4>2, <4>3, <4>4, ShownIsTimes
    <3>2. ASSUME NEW s \in Shown', scan' # None
          PROVE  scan'.from <= s
      <4>1. snapshots # {} /\ scan # None /\ scan' = scan
        BY <2>1, <3>2 DEF AskedFromTheFirst
      <4>2. PICK e \in Shown : e <= s
        BY <2>4, <4>1
      <4>3. scan.from <= e
        BY <4>1 DEF AskedFromTheFirst
      <4>4. scan.from \in Nat
        BY <4>1, Constants DEF TypeOK, Scans
      <4> QED  BY <2>7, <4>1, <4>2, <4>3, <4>4, ShownIsTimes
    <3> QED  BY <2>4, <3>1, <3>2 DEF AskedFromTheFirst
  <2> QED  BY <2>5, <2>6, <2>8, <2>9, <2>10, <2>11
<1> QED  BY <1>1, <1>2

(* A transaction that lands now is too late for everything that was        *)
(* claimed.                                                                *)
LEMMA ClockStep ==
  ASSUME GrowthInv, Tick \/ \E kind \in Kinds : Mine(kind)
  PROVE  GrowthInv'
<1> USE DEF GrowthInv
<1>1. /\ now' \in {now, now + 1} /\ now \in Nat /\ now \in Times /\ now' \in Times
      /\ UNCHANGED <<reading, snapshots, actions, coverage, request, scan>>
      /\ Shown' = Shown
  <2>1. /\ now' = now \/ (now' = now + 1 /\ now < MaxTime)
        /\ UNCHANGED <<reading, snapshots, actions, coverage, request, scan>>
    BY DEF Tick, Mine
  <2>2. now \in 0 .. MaxTime
    BY DEF TypeOK, Times
  <2>3. now \in Nat /\ now \in Times /\ now' \in Times
    BY <2>1, <2>2, Constants DEF Times
  <2> QED  BY <2>1, <2>3, ShownStays
<1>2. /\ DOMAIN chain \subseteq DOMAIN chain'
      /\ \A n \in DOMAIN chain : chain'[n] = chain[n]
      /\ chain' \in Seq([time : Times, kind : Kinds]) /\ Len(chain') <= MaxTxs
      /\ \A n \in DOMAIN chain' \ DOMAIN chain :
           /\ chain'[n].time = now /\ n \in Nat
           /\ \A m \in DOMAIN chain' : m <= n /\ m \in Nat
           /\ \A m \in DOMAIN chain' : m # n => m \in DOMAIN chain
  <2> DEFINE Entries == [time : Times, kind : Kinds]
  <2>1. chain \in Seq(Entries) /\ DOMAIN chain = 1 .. Len(chain) /\ Len(chain) \in Nat
        /\ Len(chain) <= MaxTxs
    BY ChainDomain DEF TypeOK
  <2>2. CASE Tick
    BY <2>1, <2>2 DEF Tick
  <2>3. CASE \E kind \in Kinds : Mine(kind)
    <3>1. PICK kind \in Kinds : Mine(kind)
      BY <2>3
    <3> DEFINE e == [time |-> now, kind |-> kind]
    <3>2. e \in Entries /\ e.time = now /\ chain' = Append(chain, e) /\ Len(chain) < MaxTxs
      BY <1>1, <3>1 DEF Mine
    <3> HIDE DEF e, Entries
    <3>3. /\ chain' \in Seq(Entries) /\ Len(chain') = Len(chain) + 1
          /\ \A n \in 1 .. Len(chain) : chain'[n] = chain[n]
          /\ chain'[Len(chain) + 1] = e
      BY <2>1, <3>2, AppendProperties
    <3>4. DOMAIN chain' = 1 .. (Len(chain) + 1)
      BY <2>1, <3>3
    <3>5. \A n \in DOMAIN chain' \ DOMAIN chain : n = Len(chain) + 1
      BY <2>1, <3>4
    <3>6. Len(chain') <= MaxTxs
      BY <2>1, <3>2, <3>3, Constants
    <3>7. DOMAIN chain \subseteq DOMAIN chain' /\ \A n \in DOMAIN chain : chain'[n] = chain[n]
      BY <2>1, <3>3, <3>4
    <3>8. \A n \in DOMAIN chain' \ DOMAIN chain :
            /\ chain'[n].time = now /\ n \in Nat
            /\ \A m \in DOMAIN chain' : m <= n /\ m \in Nat
            /\ \A m \in DOMAIN chain' : m # n => m \in DOMAIN chain
      BY <2>1, <3>2, <3>3, <3>4, <3>5
    <3> QED  BY <3>3, <3>6, <3>7, <3>8 DEF Entries
  <2> QED  BY <2>2, <2>3
<1>3. \A n \in DOMAIN chain : Time(n) \in Nat /\ n \in Nat /\ Time(n) <= now
  BY ChainDomain DEF ClockInOrder
<1>4. /\ \A n \in DOMAIN chain : Time(n)' = Time(n)
      /\ \A n \in DOMAIN chain' \ DOMAIN chain : Time(n)' = now
  BY <1>2 DEF Time
<1>5. TypeOK'
  BY <1>1, <1>2 DEF TypeOK
<1>6. ClockInOrder'
  <2>1. \A n \in DOMAIN chain' : Time(n)' <= now'
    BY <1>1, <1>3, <1>4
  <2>2. ASSUME NEW m \in DOMAIN chain', NEW n \in DOMAIN chain', m < n
        PROVE  Time(m)' <= Time(n)'
    <3>1. CASE n \in DOMAIN chain
      <4>1. m \in DOMAIN chain
        BY <1>2, <1>3, <2>2, <3>1
      <4> QED  BY <1>4, <2>2, <3>1, <4>1 DEF ClockInOrder
    <3>2. CASE n \notin DOMAIN chain
      <4>1. m \in DOMAIN chain
        BY <1>2, <2>2, <3>2
      <4> QED  BY <1>1, <1>3, <1>4, <3>2, <4>1
    <3> QED  BY <3>1, <3>2
  <2> QED  BY <2>1, <2>2 DEF ClockInOrder
<1>7. CoverageHolds'
  <2> SUFFICES ASSUME coverage # None
               PROVE  /\ coverage.through <= now'
                      /\ \A n \in DOMAIN chain', s \in Shown :
                           s < Time(n)' /\ Time(n)' <= coverage.through - MaxLag => Told(n)'
    BY <1>1 DEF CoverageHolds
  <2>1. coverage.through \in Nat /\ coverage.through <= now
    BY Constants DEF TypeOK, Coverages, CoverageHolds
  <2>2. coverage.through <= now'
    BY <1>1, <2>1
  <2>3. ASSUME NEW n \in DOMAIN chain', NEW s \in Shown,
               s < Time(n)', Time(n)' <= coverage.through - MaxLag
        PROVE  Told(n)'
    <3>1. n \in DOMAIN chain
      BY <1>1, <1>4, <2>1, <2>3, Constants
    <3>2. Told(n)
      BY <1>4, <2>3, <3>1 DEF CoverageHolds
    <3> QED  BY <1>1, <1>2, <3>1, <3>2 DEF Told
  <2> QED  BY <2>2, <2>3
<1>8. AskedFromTheFirst'
  BY <1>1 DEF AskedFromTheFirst
<1>9. ScanHolds'
  <2> SUFFICES ASSUME scan # None
               PROVE  ScanHolds'
    BY <1>1 DEF ScanHolds
  <2>1. scan \in Scans /\ scan.startedAt \in Nat /\ scan.startedAt <= now /\ scan.pages < MaxPages
        /\ (scan.startAt = None => scan.oldest = None)
    BY Constants DEF TypeOK, Scans, ScanHolds
  <2>2. scan.startedAt <= now'
    BY <1>1, <2>1
  <2>3. ASSUME scan.startAt # None
        PROVE  /\ scan.startAt \in DOMAIN chain'
               /\ \A n \in DOMAIN chain' :
                    n >= scan.startAt /\ Time(n)' <= scan.startedAt - MaxLag =>
                      /\ chain'[n].kind = "action" => n \in actions
                      /\ scan.readable => chain'[n].kind # "malformed"
               /\ scan.oldest # None =>
                    \E m \in DOMAIN chain' : m >= scan.startAt /\ Time(m)' = scan.oldest
    <3>1. scan.startAt \in DOMAIN chain'
      BY <1>2, <2>3 DEF ScanHolds
    <3>2. ASSUME NEW n \in DOMAIN chain', n >= scan.startAt, Time(n)' <= scan.startedAt - MaxLag
          PROVE  /\ chain'[n].kind = "action" => n \in actions
                 /\ scan.readable => chain'[n].kind # "malformed"
      <4>1. n \in DOMAIN chain
        BY <1>1, <1>4, <2>1, <3>2, Constants
      <4>2. /\ chain[n].kind = "action" => n \in actions
            /\ scan.readable => chain[n].kind # "malformed"
        BY <1>4, <2>3, <3>2, <4>1 DEF ScanHolds, SeenBy
      <4> QED  BY <1>2, <4>1, <4>2
    <3>3. scan.oldest # None =>
            \E m \in DOMAIN chain' : m >= scan.startAt /\ Time(m)' = scan.oldest
      BY <1>2, <1>4, <2>3 DEF ScanHolds
    <3> QED  BY <3>1, <3>2, <3>3
  <2> QED  BY <1>1, <2>1, <2>2, <2>3 DEF ScanHolds, SeenBy
<1> QED  BY <1>1, <1>5, <1>6, <1>7, <1>8, <1>9
-----------------------------------------------------------------------------
(* The invariant is inductive: requests and their scans.                   *)

LEMMA BeginRequestStep ==
  ASSUME GrowthInv, NEW r \in Requests, BeginRequest(r)
  PROVE  GrowthInv'
<1> DEFINE earliest == CHOOSE t \in Shown : \A s \in Shown : s >= t
           latest   == CHOOSE t \in Shown : \A s \in Shown : s <= t
<1> USE DEF GrowthInv
<1>1. /\ Cardinality(Shown) >= 2
      /\ request' = [request EXCEPT ![r] =
                       [ pc      |-> IF scan = None THEN "scanning" ELSE "waiting",
                         from    |-> earliest,
                         through |-> latest ]]
      /\ scan' = IF scan = None THEN NewScan(r, earliest) ELSE scan
      /\ UNCHANGED <<now, chain, reading, snapshots, actions, coverage>>
  BY DEF BeginRequest
<1>2. Shown # {}
  BY <1>1, FS_EmptySet
<1>3. Shown \in SUBSET (0 .. MaxTime) /\ Shown \in SUBSET Nat
  BY ShownIsTimes DEF Times
<1>4. earliest \in Times /\ \A s \in Shown : earliest <= s
  <2>1. \E t \in Shown : \A s \in Shown : s >= t
    BY <1>2, <1>3, LeastExists
  <2>2. earliest \in Shown /\ \A s \in Shown : s >= earliest
    BY <2>1
  <2> HIDE DEF earliest
  <2> QED  BY <1>3, <2>2 DEF Times
<1>5. latest \in Times
  <2>1. \E t \in Shown : \A s \in Shown : s <= t
    BY <1>2, <1>3, GreatestExists, Constants
  <2>2. latest \in Shown
    BY <2>1
  <2> HIDE DEF latest
  <2> QED  BY <1>3, <2>2 DEF Times
<1>6. snapshots # {}
  BY <1>2, ShownIsStored
<1> HIDE DEF earliest, latest
<1>7. TypeOK'
  <2>1. request' \in [Requests -> RequestStates]
    BY <1>1, <1>4, <1>5 DEF TypeOK, RequestStates
  <2>2. scan' \in Scans \cup {None}
    BY <1>1, <1>4, Constants DEF TypeOK, NewScan, Scans
  <2> QED  BY <1>1, <2>1, <2>2 DEF TypeOK
<1>8. ClockInOrder' /\ IsFiniteSet(snapshots') /\ Shown' = Shown
  BY <1>1, ShownStays DEF ClockInOrder, Time
<1>9. CoverageHolds'
  BY <1>1, <1>8 DEF CoverageHolds, Time, Told
<1>10. AskedFromTheFirst'
  <2>1. ASSUME NEW q \in Requests, NEW s \in Shown, request'[q].pc # "idle"
        PROVE  request'[q].from <= s
    <3>1. CASE q = r
      BY <1>1, <1>4, <3>1 DEF TypeOK
    <3>2. CASE q # r
      <4>1. request'[q] = request[q]
        BY <1>1, <3>2 DEF TypeOK
      <4> QED  BY <2>1, <4>1 DEF AskedFromTheFirst
    <3> QED  BY <3>1, <3>2
  <2>2. ASSUME NEW s \in Shown, scan' # None
        PROVE  scan'.from <= s
    <3>1. CASE scan = None
      BY <1>1, <1>4, <3>1 DEF NewScan
    <3>2. CASE scan # None
      BY <1>1, <3>2 DEF AskedFromTheFirst
    <3> QED  BY <3>1, <3>2
  <2> QED  BY <1>1, <1>6, <1>8, <2>1, <2>2 DEF AskedFromTheFirst
<1>11. ScanHolds'
  <2>1. CASE scan = None
    <3>1. scan' = NewScan(r, earliest) /\ now \in Nat /\ now' = now
      BY <1>1, <2>1, Constants DEF TypeOK
    <3>2. scan'.pages = 0 /\ scan'.startedAt = now /\ scan'.startAt = None /\ scan'.oldest = None
      BY <3>1 DEF NewScan
    <3> QED  BY <3>1, <3>2, Constants DEF ScanHolds
  <2>2. CASE scan # None
    <3>1. scan' = scan
      BY <1>1, <2>2
    <3> QED  BY <1>1, <3>1 DEF ScanHolds, SeenBy, Time
  <2> QED  BY <2>1, <2>2
<1> QED  BY <1>7, <1>8, <1>9, <1>10, <1>11

(* What the end of a scan leaves: those who wait on, and one of them with  *)
(* a scan of its own.                                                      *)
LEMMA ReleaseLeaves ==
  ASSUME GrowthInv, NEW c, Release(c)
  PROVE  /\ request' \in [Requests -> RequestStates] /\ scan' \in Scans \cup {None}
         /\ \A r \in Requests : request'[r].pc # "idle" =>
              request[r].pc # "idle" /\ request'[r].from = request[r].from
         /\ scan' # None =>
              /\ scan'.pages = 0 /\ scan'.startedAt = now
              /\ scan'.startAt = None /\ scan'.oldest = None
              /\ \E r \in Requests : request[r].pc # "idle" /\ scan'.from = request[r].from
<1> DEFINE left == {r \in Requests : /\ request[r].pc = "waiting"
                                     /\ ~Covers(c, request[r].from, request[r].through)}
<1> USE DEF GrowthInv
<1>1. \/ scan' = None /\ request' = [r \in Requests |-> Idle]
      \/ \E next \in left :
           /\ scan' = NewScan(next, request[next].from)
           /\ request' = [r \in Requests |->
                            IF r = next THEN [request[r] EXCEPT !.pc = "scanning"]
                            ELSE IF r \in left THEN request[r] ELSE Idle]
  BY DEF Release
<1>2. Idle \in RequestStates /\ Idle.pc = "idle"
  BY Constants DEF Idle, RequestStates, Times
<1>3. \A r \in left : r \in Requests /\ request[r].pc = "waiting" /\ request[r].pc # "idle"
  OBVIOUS
<1> HIDE DEF left
<1>4. CASE scan' = None /\ request' = [r \in Requests |-> Idle]
  BY <1>2, <1>4
<1>5. ASSUME NEW next \in left,
             scan' = NewScan(next, request[next].from),
             request' = [r \in Requests |->
                           IF r = next THEN [request[r] EXCEPT !.pc = "scanning"]
                           ELSE IF r \in left THEN request[r] ELSE Idle]
      PROVE  /\ request' \in [Requests -> RequestStates] /\ scan' \in Scans \cup {None}
             /\ \A r \in Requests : request'[r].pc # "idle" =>
                  request[r].pc # "idle" /\ request'[r].from = request[r].from
             /\ scan' # None =>
                  /\ scan'.pages = 0 /\ scan'.startedAt = now
                  /\ scan'.startAt = None /\ scan'.oldest = None
                  /\ \E r \in Requests : request[r].pc # "idle" /\ scan'.from = request[r].from
  <2>1. next \in Requests /\ request[next] \in RequestStates /\ request[next].pc # "idle"
    BY <1>3, <1>5 DEF TypeOK
  <2>2. /\ [request[next] EXCEPT !.pc = "scanning"] \in RequestStates
        /\ [request[next] EXCEPT !.pc = "scanning"].from = request[next].from
    BY <2>1 DEF RequestStates
  <2>3. request' \in [Requests -> RequestStates]
    BY <1>2, <1>5, <2>2 DEF TypeOK
  <2>4. \A r \in Requests : request'[r].pc # "idle" =>
          request[r].pc # "idle" /\ request'[r].from = request[r].from
    BY <1>2, <1>3, <1>5, <2>1, <2>2
  <2>5. /\ scan'.pages = 0 /\ scan'.startedAt = now /\ scan'.startAt = None
        /\ scan'.oldest = None /\ scan'.from = request[next].from
    BY <1>5 DEF NewScan
  <2>6. scan' \in Scans
    <3>1. request[next].from \in Times /\ now \in Times
      BY <2>1 DEF RequestStates, TypeOK
    <3> QED  BY <1>5, <2>1, <3>1, Constants DEF NewScan, Scans
  <2> QED  BY <2>1, <2>3, <2>4, <2>5, <2>6
<1> QED  BY <1>1, <1>4, <1>5
-----------------------------------------------------------------------------
(* The invariant is inductive: a page arrives.                             *)

Extended(page) == AfterPage(scan, page)

(* The scan after a page, field by field, and what it has seen.            *)
LEMMA ExtendedIs ==
  ASSUME GrowthInv, scan # None, NEW view \in Views
  PROVE  LET page == Page(view, scan.startAt)
             s    == Extended(page)
         IN  /\ page \subseteq DOMAIN chain
             /\ s.owner = scan.owner /\ s.from = scan.from /\ s.startedAt = scan.startedAt
             /\ s.pages = scan.pages + 1 /\ s.pages \in 1 .. MaxPages
             /\ s.oldest \in Times \cup {None}
             /\ s.readable <=> scan.readable /\ \A n \in page : chain[n].kind # "malformed"
             /\ page = {} => s.startAt = scan.startAt /\ s.oldest = scan.oldest
             /\ page # {} => s.startAt \in page /\ \A n \in page : n >= s.startAt
             /\ s \in Scans
<1> DEFINE page  == Page(view, scan.startAt)
           s     == Extended(page)
           times == {Time(n) : n \in Readable(page)}
<1> USE DEF GrowthInv
<1>1. page \subseteq DOMAIN chain
  BY PageIs, ViewsAre
<1>2. scan \in Scans /\ scan.pages \in Nat /\ scan.pages < MaxPages
  BY Constants DEF TypeOK, Scans, ScanHolds
<1>3. page \in SUBSET Nat /\ page \subseteq Positions
  BY <1>1, ChainDomain
<1>4. page # {} => Oldest(page) \in page /\ \A n \in page : n >= Oldest(page)
  BY <1>3, OldestIs
<1>5. times \in SUBSET Times /\ (page = {} => times = {}) /\ scan.oldest \in Times \cup {None}
  BY <1>1, <1>2, ChainDomain DEF Readable, Time, Scans
<1>6. Readable(page) = page <=> \A n \in page : chain[n].kind # "malformed"
  BY DEF Readable
<1>7. Earliest(scan.oldest, times) \in Times \cup {None}
      /\ (page = {} => Earliest(scan.oldest, times) = scan.oldest)
  <2> HIDE DEF times
  <2>1. Earliest(scan.oldest, times) \in times \cup {scan.oldest}
    BY <1>5, EarliestIs
  <2> QED  BY <1>5, <2>1
<1> HIDE DEF page, times
<1>8. s = [scan EXCEPT !.pages    = @ + 1,
                       !.oldest   = Earliest(scan.oldest, times),
                       !.readable = scan.readable /\ Readable(page) = page,
                       !.startAt  = IF page = {} THEN @ ELSE Oldest(page)]
  BY DEF Extended, AfterPage, times
<1>9. /\ s.owner = scan.owner /\ s.from = scan.from /\ s.startedAt = scan.startedAt
      /\ s.pages = scan.pages + 1 /\ s.oldest = Earliest(scan.oldest, times)
      /\ s.readable = (scan.readable /\ Readable(page) = page)
      /\ s.startAt = IF page = {} THEN scan.startAt ELSE Oldest(page)
  BY <1>2, <1>8 DEF Scans
<1>10. s.pages \in 1 .. MaxPages
  BY <1>2, <1>9, Constants
<1>11. s \in Scans
  <2>1. s.startAt \in Positions \cup {None}
    BY <1>2, <1>3, <1>4, <1>9 DEF Scans
  <2>2. s.pages \in 0 .. MaxPages /\ s.oldest \in Times \cup {None}
    BY <1>7, <1>9, <1>10, Constants
  <2>3. /\ scan.pages + 1 \in 0 .. MaxPages
        /\ (IF page = {} THEN scan.startAt ELSE Oldest(page)) \in Positions \cup {None}
        /\ (scan.readable /\ Readable(page) = page) \in BOOLEAN
    BY <2>1, <2>2, <1>9
  <2> QED  BY <1>2, <1>7, <1>8, <2>3 DEF Scans
<1> QED  BY <1>1, <1>4, <1>6, <1>7, <1>9, <1>10, <1>11 DEF page

LEMMA OldestWasSeen ==
  ASSUME GrowthInv, scan # None, NEW view \in Views
  PROVE  LET page == Page(view, scan.startAt)
             s    == Extended(page)
         IN  s.oldest # None =>
               /\ s.startAt # None /\ s.startAt \in DOMAIN chain
               /\ \E m \in DOMAIN chain : m >= s.startAt /\ Time(m) = s.oldest
<1> DEFINE page  == Page(view, scan.startAt)
           s     == Extended(page)
           times == {Time(n) : n \in Readable(page)}
           older == {n \in 1 .. view : scan.startAt = None \/ n < scan.startAt}
<1> USE DEF GrowthInv
<1>1. /\ page \subseteq DOMAIN chain /\ page \subseteq older
      /\ page = {} => s.startAt = scan.startAt /\ s.oldest = scan.oldest
      /\ page # {} => s.startAt \in page /\ \A n \in page : n >= s.startAt
  BY ExtendedIs, PageIs, ViewsAre
<1>2. scan \in Scans /\ scan.oldest \in Times \cup {None} /\ times \in SUBSET Times
  BY <1>1, ChainDomain DEF TypeOK, Scans, Readable, Time
<1>3. s.oldest \in times \cup {scan.oldest}
  <2>1. s.oldest = Earliest(scan.oldest, times)
    <3> HIDE DEF page
    <3> QED  BY <1>2 DEF Extended, AfterPage, Scans
  <2> HIDE DEF times, s
  <2> QED  BY <1>2, <2>1, EarliestIs
<1>4. \A t \in times : \E m \in page : Time(m) = t
  BY DEF Readable, Time
<1>5. scan.oldest # None =>
        /\ scan.startAt # None /\ scan.startAt \in DOMAIN chain
        /\ \E m \in DOMAIN chain : m >= scan.startAt /\ Time(m) = scan.oldest
  BY DEF ScanHolds
<1>6. \A n \in DOMAIN chain : n \in Nat /\ n # None
  BY ChainDomain, Constants
<1>7. \A n \in older : scan.startAt = None \/ n < scan.startAt
  OBVIOUS
<1> HIDE DEF page, s, times, older
<1>8. ASSUME s.oldest # None
      PROVE  /\ s.startAt # None /\ s.startAt \in DOMAIN chain
             /\ \E m \in DOMAIN chain : m >= s.startAt /\ Time(m) = s.oldest
  <2>1. CASE page = {}
    BY <1>1, <1>5, <1>8, <2>1
  <2>2. CASE page # {}
    <3>1. s.startAt \in page /\ s.startAt \in DOMAIN chain /\ s.startAt # None
      BY <1>1, <1>6, <2>2
    <3>2. CASE s.oldest \in times
      BY <1>1, <1>4, <2>2, <3>1, <3>2
    <3>3. CASE s.oldest = scan.oldest
      <4>1. PICK m \in DOMAIN chain : m >= scan.startAt /\ Time(m) = scan.oldest
        BY <1>5, <1>8, <3>3
      <4>2. s.startAt < scan.startAt /\ scan.startAt \in DOMAIN chain
        BY <1>1, <1>5, <1>7, <1>8, <3>1, <3>3
      <4>3. m >= s.startAt
        BY <1>6, <3>1, <4>1, <4>2
      <4> QED  BY <3>1, <3>3, <4>1, <4>3
    <3> QED  BY <1>3, <3>2, <3>3
  <2> QED  BY <2>1, <2>2
<1> QED  BY <1>8 DEF page, s

(* A scan has stored what it has seen, its last page included; and when    *)
(* that page is empty, it has seen all that every node knew at its start.  *)
LEMMA SeenIsStored ==
  ASSUME GrowthInv, scan # None, NEW view \in Views,
         NEW n \in DOMAIN chain, Time(n) <= scan.startedAt - MaxLag,
         \/ Page(view, scan.startAt) = {}
         \/ n >= Extended(Page(view, scan.startAt)).startAt
  PROVE  LET page == Page(view, scan.startAt)
         IN  /\ chain[n].kind = "action" =>
                  n \in actions \cup {m \in page : chain[m].kind = "action"}
             /\ Extended(page).readable => chain[n].kind # "malformed"
<1> DEFINE page  == Page(view, scan.startAt)
           s     == Extended(page)
           older == {m \in 1 .. view : scan.startAt = None \/ m < scan.startAt}
<1> USE DEF GrowthInv
<1>1. /\ page \subseteq DOMAIN chain /\ page \subseteq older
      /\ \A i \in page, m \in older : m >= i => m \in page
      /\ older # {} => page # {}
      /\ page # {} => s.startAt \in page
      /\ s.readable <=> scan.readable /\ \A m \in page : chain[m].kind # "malformed"
  BY ExtendedIs, PageIs, ViewsAre
<1>2. page = {} \/ n >= s.startAt
  OBVIOUS
<1>3. scan.startAt # None => scan.startAt \in DOMAIN chain
  BY DEF ScanHolds
<1>4. \A m \in DOMAIN chain : m \in Nat
  BY ChainDomain
<1>5. n \notin older => scan.startAt # None /\ n >= scan.startAt
  <2>1. n \in 1 .. view
    BY ViewsAre, ChainDomain DEF Views
  <2> QED  BY <1>3, <1>4, <2>1
<1> HIDE DEF page, s, older
<1>6. /\ chain[n].kind = "action" => n \in actions \cup {m \in page : chain[m].kind = "action"}
      /\ s.readable => chain[n].kind # "malformed"
  <2>1. CASE n \in page
    BY <1>1, <2>1
  <2>2. CASE n \notin page
    <3>1. n \notin older
      BY <1>1, <1>2, <2>2
    <3>2. SeenBy(scan, n) /\ scan.startAt # None
      BY <1>5, <3>1 DEF SeenBy
    <3>3. /\ chain[n].kind = "action" => n \in actions
          /\ scan.readable => chain[n].kind # "malformed"
      BY <3>2 DEF ScanHolds
    <3> QED  BY <1>1, <3>3
  <2> QED  BY <2>1, <2>2
<1> QED  BY <1>6 DEF page, s
(* A claim is true: a scan that reached its boundary has seen everything   *)
(* after the first shown snapshot that every node knew at its start.       *)
LEMMA ClaimIsTrue ==
  ASSUME GrowthInv, scan # None, NEW view \in Views,
         Claims(Extended(Page(view, scan.startAt)), Page(view, scan.startAt)),
         NEW n \in DOMAIN chain, NEW e \in Shown,
         e < Time(n), Time(n) <= scan.startedAt - MaxLag
  PROVE  /\ chain[n].kind # "malformed"
         /\ chain[n].kind = "action" =>
              n \in actions \cup {m \in Page(view, scan.startAt) : chain[m].kind = "action"}
<1> DEFINE page == Page(view, scan.startAt)
           s    == Extended(page)
<1> USE DEF GrowthInv
<1>1. s.readable /\ (page = {} \/ (s.oldest # None /\ s.oldest <= s.from))
  BY DEF Claims, ReachedBoundary
<1>2. page = {} \/ n >= s.startAt
  <2> SUFFICES ASSUME page # {}, ~(n >= s.startAt) PROVE FALSE
    OBVIOUS
  <2>1. s.oldest # None /\ s.oldest <= s.from /\ s.from = scan.from /\ s.oldest \in Times \cup {None}
    BY <1>1, ExtendedIs
  <2>2. /\ s.startAt \in DOMAIN chain
        /\ \E m \in DOMAIN chain : m >= s.startAt /\ Time(m) = s.oldest
    BY <2>1, OldestWasSeen
  <2>3. scan.from <= e /\ scan.from \in Nat
    BY Constants DEF AskedFromTheFirst, TypeOK, Scans
  <2> HIDE DEF page, s
  <2>4. PICK m \in DOMAIN chain : m >= s.startAt /\ Time(m) = s.oldest
    BY <2>2
  <2>5. \A i \in DOMAIN chain : i \in Nat /\ Time(i) \in Nat
    BY ChainDomain
  <2>6. n < m
    BY <2>2, <2>4, <2>5
  <2>7. Time(n) <= Time(m)
    BY <2>6 DEF ClockInOrder
  <2>8. e \in Nat
    BY ShownIsTimes
  <2>9. s.oldest \in Nat /\ s.oldest <= scan.from
    BY <2>1, <2>4, <2>5
  <2>10. Time(n) <= e
    BY <2>3, <2>4, <2>5, <2>7, <2>8, <2>9
  <2> QED  BY <2>5, <2>8, <2>10
<1> QED  BY <1>1, <1>2, SeenIsStored

LEMMA PageArrivesStep ==
  ASSUME GrowthInv, NEW view, PageArrives(view)
  PROVE  GrowthInv'
<1> DEFINE page == Page(view, scan.startAt)
           s    == Extended(page)
           new  == {n \in page : chain[n].kind = "action"}
           ends == ReachedBoundary(s, page) \/ s.pages = MaxPages
<1> USE DEF GrowthInv
<1>1. /\ scan # None /\ view \in Views /\ actions' = actions \cup new
      /\ UNCHANGED <<now, chain, reading, snapshots>>
      /\ ends => /\ coverage' = IF Claims(s, page) THEN Merged(s, page = {}) ELSE coverage
                 /\ Release(coverage')
      /\ ~ends => scan' = s /\ UNCHANGED <<coverage, request>>
  BY DEF PageArrives, Extended
<1>2. /\ page \subseteq DOMAIN chain
      /\ s.owner = scan.owner /\ s.from = scan.from /\ s.startedAt = scan.startedAt
      /\ s.pages = scan.pages + 1 /\ s.pages \in 1 .. MaxPages
      /\ s.oldest \in Times \cup {None}
      /\ page = {} => s.startAt = scan.startAt /\ s.oldest = scan.oldest
      /\ page # {} => s.startAt \in page /\ \A n \in page : n >= s.startAt
      /\ s \in Scans
  BY <1>1, ExtendedIs
<1>3. /\ scan \in Scans /\ scan.startedAt \in Times /\ scan.startedAt \in Nat
      /\ scan.startedAt <= now /\ now \in Nat /\ s.pages \in Nat
  <2>1. scan \in Scans /\ scan.startedAt <= now /\ now \in Times
    BY <1>1 DEF TypeOK, ScanHolds
  <2>2. scan.startedAt \in Times
    BY <2>1 DEF Scans
  <2>3. s.pages \in Nat
    BY <1>2, Constants
  <2> QED  BY <2>1, <2>2, <2>3, Constants
<1>4. /\ Shown' = Shown /\ now' = now /\ chain' = chain
      /\ \A n \in DOMAIN chain : Told(n) => Told(n)'
  BY <1>1, ShownStays DEF Told
<1>5. s.oldest # None =>
        s.startAt # None /\ s.startAt \in DOMAIN chain
        /\ \E m \in DOMAIN chain : m >= s.startAt /\ Time(m) = s.oldest
  BY <1>1, OldestWasSeen
<1>6. ~ends => page # {} /\ s.pages < MaxPages
  <2> HIDE DEF s, page
  <2> QED  BY <1>2, Constants DEF ReachedBoundary
<1>7. Claims(s, page) => \A n \in DOMAIN chain, e \in Shown :
        e < Time(n) /\ Time(n) <= scan.startedAt - MaxLag => Told(n)'
  BY <1>1, ClaimIsTrue DEF Told
<1>8. ASSUME NEW n \in DOMAIN chain, Time(n) <= scan.startedAt - MaxLag, n >= s.startAt
      PROVE  /\ chain[n].kind = "action" => n \in actions'
             /\ s.readable => chain[n].kind # "malformed"
  BY <1>1, <1>8, SeenIsStored
<1>9. /\ coverage' # None => Claims(s, page) \/ coverage' = coverage
      /\ coverage' # None /\ coverage' # coverage => coverage'.through = scan.startedAt
      /\ coverage' \in Coverages \cup {None}
  <2>1. CASE Claims(s, page) /\ ends
    <3>1. coverage' = Merged(s, page = {})
      BY <1>1, <2>1
    <3>2. page = {} \/ s.oldest # None
      <4> HIDE DEF page, s
      <4> QED  BY <2>1 DEF Claims, ReachedBoundary
    <3>3. coverage \in Coverages \cup {None}
      BY DEF TypeOK
    <3> HIDE DEF page, s
    <3> DEFINE from == IF page = {} THEN 0 ELSE s.oldest
    <3>4. from \in Times /\ (coverage # None => coverage.from \in Times)
      BY <1>2, <3>2, <3>3, Constants DEF Times, Coverages
    <3>5. coverage' = [ from     |-> IF coverage # None /\ coverage.from <= from THEN coverage.from ELSE from,
                        through  |-> s.startedAt,
                        complete |-> (page = {}) \/ (coverage # None /\ coverage.complete) ]
      BY <3>1 DEF Merged
    <3> HIDE DEF from
    <3>6. coverage'.through = scan.startedAt
      BY <1>2, <3>5
    <3>7. (IF coverage # None /\ coverage.from <= from THEN coverage.from ELSE from) \in Times
      BY <3>4
    <3>8. (page = {} \/ (coverage # None /\ coverage.complete)) \in BOOLEAN
      OBVIOUS
    <3>9. coverage' \in Coverages
      BY <1>2, <1>3, <3>5, <3>7, <3>8 DEF Coverages
    <3> QED  BY <2>1, <3>6, <3>9
  <2>2. CASE ~(Claims(s, page) /\ ends)
    <3>1. coverage' = coverage
      BY <1>1, <2>2
    <3> QED  BY <3>1 DEF TypeOK
  <2> QED  BY <2>1, <2>2
<1> DEFINE Kept == /\ request' \in [Requests -> RequestStates] /\ scan' \in Scans \cup {None}
                   /\ (scan' # None \/ \E r \in Requests : request'[r].pc # "idle") => snapshots # {}
                   /\ \A r \in Requests, e \in Shown :
                        request'[r].pc # "idle" => request'[r].from <= e
                   /\ \A e \in Shown : scan' # None => scan'.from <= e
                   /\ ScanHolds'
<1>10. ASSUME ~ends PROVE Kept
  <2>1. scan' = s /\ UNCHANGED <<coverage, request>> /\ page # {} /\ s.pages < MaxPages
    BY <1>1, <1>6, <1>10
  <2>2. s.startAt # None /\ s.startAt \in DOMAIN chain
    BY <1>2, <2>1, ChainDomain, Constants
  <2> HIDE DEF s, page, ends
  <2>3. request' \in [Requests -> RequestStates] /\ scan' \in Scans \cup {None}
    BY <1>2, <2>1 DEF TypeOK
  <2>4. /\ (scan' # None \/ \E r \in Requests : request'[r].pc # "idle") => snapshots # {}
        /\ \A r \in Requests, e \in Shown : request'[r].pc # "idle" => request'[r].from <= e
        /\ \A e \in Shown : scan' # None => scan'.from <= e
    BY <1>1, <1>2, <2>1 DEF AskedFromTheFirst
  <2>5. /\ scan'.pages < MaxPages /\ scan'.startedAt <= now'
        /\ scan'.startAt # None /\ scan'.startAt \in DOMAIN chain'
    BY <1>2, <1>3, <1>4, <2>1, <2>2
  <2>6. \A n \in DOMAIN chain' :
          n >= scan'.startAt /\ Time(n)' <= scan'.startedAt - MaxLag =>
            /\ chain'[n].kind = "action" => n \in actions'
            /\ scan'.readable => chain'[n].kind # "malformed"
    <3> SUFFICES ASSUME NEW n \in DOMAIN chain, n >= s.startAt,
                        Time(n) <= s.startedAt - MaxLag
                 PROVE  /\ chain[n].kind = "action" => n \in actions'
                        /\ s.readable => chain[n].kind # "malformed"
      BY <1>4, <2>1 DEF Time
    <3> QED  BY <1>2, <1>8
  <2>7. scan'.oldest # None =>
          \E m \in DOMAIN chain' : m >= scan'.startAt /\ Time(m)' = scan'.oldest
    BY <1>4, <1>5, <2>1 DEF Time
  <2>8. ScanHolds'
    BY <2>5, <2>6, <2>7 DEF ScanHolds, SeenBy
  <2> QED  BY <2>3, <2>4, <2>8
<1>11. ASSUME ends PROVE Kept
  <2>1. Release(coverage')
    BY <1>1, <1>11
  <2> HIDE DEF s, page, ends
  <2>2. /\ request' \in [Requests -> RequestStates] /\ scan' \in Scans \cup {None}
        /\ \A r \in Requests : request'[r].pc # "idle" =>
             request[r].pc # "idle" /\ request'[r].from = request[r].from
        /\ scan' # None =>
             /\ scan'.pages = 0 /\ scan'.startedAt = now
             /\ scan'.startAt = None /\ scan'.oldest = None
             /\ \E r \in Requests : request[r].pc # "idle" /\ scan'.from = request[r].from
    BY <2>1, ReleaseLeaves
  <2>3. /\ (scan' # None \/ \E r \in Requests : request'[r].pc # "idle") => snapshots # {}
        /\ \A r \in Requests, e \in Shown : request'[r].pc # "idle" => request'[r].from <= e
        /\ \A e \in Shown : scan' # None => scan'.from <= e
    BY <2>2 DEF AskedFromTheFirst
  <2>4. ScanHolds'
    BY <1>3, <1>4, <2>2, Constants DEF ScanHolds
  <2> QED  BY <2>2, <2>3, <2>4
<1>12. Kept
  BY <1>10, <1>11
<1> HIDE DEF s, page, ends, Kept
<1>13. TypeOK'
  <2>1. request' \in [Requests -> RequestStates] /\ scan' \in Scans \cup {None}
    BY <1>12 DEF Kept
  <2>2. actions' \in SUBSET (DOMAIN chain')
    BY <1>1, <1>2, <1>4 DEF TypeOK
  <2> QED  BY <1>1, <1>9, <2>1, <2>2 DEF TypeOK
<1>14. IsFiniteSet(snapshots') /\ ClockInOrder'
  BY <1>1 DEF ClockInOrder, Time
<1>15. CoverageHolds'
  <2> SUFFICES ASSUME coverage' # None
               PROVE  /\ coverage'.through <= now'
                      /\ \A n \in DOMAIN chain, e \in Shown :
                           e < Time(n) /\ Time(n) <= coverage'.through - MaxLag => Told(n)'
    BY <1>4 DEF CoverageHolds, Time
  <2>1. CASE coverage' = coverage
    BY <1>4, <2>1 DEF CoverageHolds
  <2>2. CASE coverage' # coverage
    <3>1. Claims(s, page) /\ coverage'.through = scan.startedAt
      BY <1>9, <2>2
    <3> QED  BY <1>3, <1>4, <1>7, <3>1
  <2> QED  BY <2>1, <2>2
<1>16. AskedFromTheFirst'
  <2>1. coverage' # None => snapshots # {}
    BY <1>1 DEF AskedFromTheFirst
  <2> QED  BY <1>1, <1>4, <1>12, <2>1 DEF AskedFromTheFirst, Kept
<1>17. ScanHolds'
  BY <1>12 DEF Kept
<1> QED  BY <1>13, <1>14, <1>15, <1>16, <1>17

-----------------------------------------------------------------------------
(* The inductive invariant holds throughout.                               *)
THEOREM GrowthInvariant == Spec => []GrowthInv
<1>1. GrowthInv /\ [Next]_vars => GrowthInv'
  <2> SUFFICES ASSUME GrowthInv, [Next]_vars PROVE GrowthInv'
    OBVIOUS
  <2>1. CASE BeginSnapshot
    BY <2>1, QuietStep DEF BeginSnapshot, GrowthInv, TypeOK
  <2>2. CASE FinishSnapshot
    BY <2>2, FinishSnapshotStep
  <2>3. CASE \E r \in Requests : BeginRequest(r)
    BY <2>3, BeginRequestStep
  <2>4. CASE \E view \in 0 .. Len(chain) : PageArrives(view)
    BY <2>4, PageArrivesStep
  <2>5. CASE PageFails
    BY <2>5, QuietStep DEF PageFails, GrowthInv, TypeOK
  <2>6. CASE Tick \/ \E kind \in Kinds : Mine(kind)
    BY <2>6, ClockStep
  <2>7. CASE Restart
    BY <2>7, QuietStep DEF Restart, GrowthInv
  <2>8. CASE UNCHANGED vars
    BY <2>8, QuietStep DEF vars, GrowthInv, TypeOK
  <2> QED  BY <2>1, <2>2, <2>3, <2>4, <2>5, <2>6, <2>7, <2>8 DEF Next, PageAnswered
<1> QED  BY GrowthInit, <1>1, PTL DEF Spec

(* Type correctness.                                                       *)
THEOREM TypeCorrect == Spec => []TypeOK
<1>1. GrowthInv => TypeOK
  BY DEF GrowthInv
<1> QED  BY GrowthInvariant, <1>1, PTL

(* No interval is called growth that has a staking action in it, or a      *)
(* transaction that may hide one, the edges of what the scan could see     *)
(* excepted, for every page size, page budget, window of snapshots, lag of *)
(* the nodes and number of requests that share a scan.                     *)
THEOREM GrowthsHaveNoAction == Spec => []GrowthHasNoAction
<1>1. GrowthInv => GrowthHasNoAction
  <2> SUFFICES ASSUME GrowthInv, NEW p \in Intervals, IsGrowth(p), NEW n \in DOMAIN chain,
                      ~AtTheEdge(n), p[1] <= Time(n), Time(n) <= p[2]
               PROVE  chain[n].kind = "other"
    BY DEF GrowthHasNoAction
  <2> USE DEF GrowthInv
  <2>1. coverage # None /\ coverage.through \in Nat
    BY Constants DEF IsGrowth, Covers, TypeOK, Coverages
  <2>2. PICK e \in Shown : ~(e >= Time(n))
    BY DEF AtTheEdge
  <2>3. e < Time(n) /\ Time(n) <= coverage.through - MaxLag
    BY <2>1, <2>2, ShownIsTimes, ChainDomain, Constants DEF AtTheEdge
  <2>4. Told(n)
    BY <2>1, <2>3 DEF CoverageHolds
  <2>5. n \notin actions
    BY DEF IsGrowth
  <2>6. chain[n].kind \in Kinds
    <3> DEFINE Entries == [time : Times, kind : Kinds]
    <3>1. chain \in Seq(Entries) /\ n \in 1 .. Len(chain)
      BY ChainDomain DEF TypeOK
    <3> HIDE DEF Entries
    <3>2. chain[n] \in Entries
      BY <3>1, ElementOfSeq
    <3> QED  BY <3>2 DEF Entries
  <2> QED  BY <2>4, <2>5, <2>6 DEF Told, Kinds
<1> QED  BY GrowthInvariant, <1>1, PTL
=============================================================================
