---------------------------- MODULE IndexerProofs ----------------------------
(***************************************************************************)
(* Proofs about PayoutIndexer, and about the Observations that are drawn   *)
(* from what it stores, for every value of their constants.                *)
(***************************************************************************)
EXTENDS PayoutIndexer, Observations, FiniteSetTheorems, NaturalsInduction, SequenceTheorems, TLAPS

-----------------------------------------------------------------------------
(* Sets of positions have a least and a greatest member.                   *)

LEMMA LeastExists ==
  ASSUME NEW S \in SUBSET Nat, S # {}
  PROVE  \E n \in S : \A m \in S : m >= n
<1>1. PICK n \in S : \A m \in S : <<m, n>> \notin OpToRel(<, Nat)
  BY WFMin, NatLessThanWellFounded
<1>2. \A m \in S : ~(m < n)
  BY <1>1 DEF OpToRel
<1> QED  BY <1>2

LEMMA GreatestExists ==
  ASSUME NEW k \in Nat, NEW S \in SUBSET (0 .. k), S # {}
  PROVE  \E n \in S : \A m \in S : m <= n
<1> DEFINE T == {j \in Nat : \A m \in S : m <= j}
<1>1. k \in T /\ T \in SUBSET Nat
  OBVIOUS
<1> HIDE DEF T
<1>2. PICK j \in T : \A i \in T : i >= j
  BY <1>1, LeastExists
<1>3. j \in Nat /\ \A m \in S : m <= j
  BY DEF T
<1>4. j \in S
  <2>1. SUFFICES ASSUME j \notin S PROVE FALSE
    OBVIOUS
  <2>2. \A m \in S : m \in 0 .. k /\ m <= j /\ m # j
    BY <1>3, <2>1
  <2>3. \A m \in S : m <= j - 1 /\ j - 1 \in Nat
    BY <1>3, <2>2
  <2>4. j - 1 \in Nat /\ \A m \in S : m <= j - 1
    BY <2>3
  <2>5. j - 1 \in T
    BY <2>4 DEF T
  <2> QED  BY <1>2, <1>3, <2>5
<1> QED  BY <1>3, <1>4

LEMMA NewestIs ==
  ASSUME NEW k \in Nat, NEW S \in SUBSET (1 .. k), S # {}
  PROVE  Newest(S) \in S /\ \A m \in S : m <= Newest(S)
<1>1. S \in SUBSET (0 .. k)
  OBVIOUS
<1> QED  BY <1>1, GreatestExists DEF Newest

LEMMA OldestIs ==
  ASSUME NEW k \in Nat, NEW S \in SUBSET (1 .. k), S # {}
  PROVE  Oldest(S) \in S /\ \A m \in S : m >= Oldest(S)
<1>1. S \in SUBSET Nat
  OBVIOUS
<1> QED  BY <1>1, LeastExists DEF Oldest

-----------------------------------------------------------------------------
(* The inductive invariant.                                                *)

(* Blocks come in the order of the transactions, none from the future.     *)
ChainInOrder ==
  /\ \A n \in DOMAIN chain : Block(n) <= head
  /\ \A m, n \in DOMAIN chain : m <= n => Block(m) <= Block(n)

(* A cursor names a transaction of its address, and its block.             *)
Points(a, cursor) ==
  /\ cursor.lastTx \in DOMAIN chain
  /\ a \in chain[cursor.lastTx].parties
  /\ cursor.lastBlock = Block(cursor.lastTx)

CursorsPoint == \A a \in Addresses : cursors[a] # None => Points(a, cursors[a])

(* The transactions of an address between two of them.                     *)
Between(a, first, last) ==
  {n \in DOMAIN chain : a \in chain[n].parties /\ first <= n /\ n <= last}

(* A walk that goes on has not met its end: it has kept everything from    *)
(* the last transaction it saw up to the watermark it will store, which    *)
(* lies no lower than the cursor it started from.                          *)
WalkInOrder(a) ==
  LET w == walk[a] IN
  w.active =>
    /\ w.pages < MaxPages
    /\ w.cursor = cursors[a]
    /\ w.kept \subseteq DOMAIN chain
    /\ w.startAt = None => w.kept = {} /\ w.next = None
    /\ w.startAt # None =>
         /\ w.startAt \in DOMAIN chain
         /\ w.next # None /\ Points(a, w.next)
         /\ w.startAt <= w.next.lastTx
         /\ Between(a, w.startAt, w.next.lastTx) \subseteq w.kept
         /\ w.cursor # None => w.next.lastTx >= w.cursor.lastTx

WalksInOrder == \A a \in Addresses : WalkInOrder(a)

IndexInv == TypeOK /\ ChainInOrder /\ CursorsPoint /\ WalksInOrder /\ NoGapBelowCursor

-----------------------------------------------------------------------------
(* A page and what a walk makes of it.                                     *)

LEMMA ChainDomain ==
  ASSUME TypeOK
  PROVE  /\ Len(chain) \in Nat /\ DOMAIN chain = 1 .. Len(chain) /\ DOMAIN chain \subseteq Txs
         /\ \A n \in DOMAIN chain : Block(n) \in Blocks /\ Block(n) \in Nat /\ n \in Nat
<1>1. Len(chain) \in Nat /\ DOMAIN chain = 1 .. Len(chain) /\ Len(chain) <= MaxTxs
  BY DEF TypeOK
<1>2. \A n \in 1 .. Len(chain) : chain[n] \in [block : Blocks, parties : SUBSET Addresses]
  <2> DEFINE Entries == [block : Blocks, parties : SUBSET Addresses]
  <2>1. chain \in Seq(Entries)
    BY DEF TypeOK
  <2> HIDE DEF Entries
  <2>2. \A n \in 1 .. Len(chain) : chain[n] \in Entries
    BY <2>1, ElementOfSeq
  <2> QED  BY <2>2 DEF Entries
<1>3. 1 .. Len(chain) \subseteq Txs
  BY <1>1, IndexerAssumption DEF Txs, IndexerAssumption
<1>4. \A n \in 1 .. Len(chain) : Block(n) \in Blocks
  BY <1>2 DEF Block
<1> QED  BY <1>1, <1>3, <1>4 DEF Blocks

(* A page is the newest part of what is older than startAt, and empty only *)
(* when nothing is.                                                        *)
LEMMA PageIs ==
  ASSUME TypeOK, NEW a, NEW view, NEW startAt
  PROVE  LET page  == Page(a, view, startAt)
             older == {n \in Of(a, view) : startAt = None \/ n < startAt}
         IN  /\ page \subseteq older /\ older \subseteq DOMAIN chain
             /\ \A n \in page, m \in older : m >= n => m \in page
             /\ older # {} => page # {}
<1> DEFINE page == Page(a, view, startAt)
           older == {n \in Of(a, view) : startAt = None \/ n < startAt}
           newer(n) == {m \in older : m > n}
<1>1. page = {n \in older : Cardinality(newer(n)) < PageSize}
  BY DEF Page
<1>2. /\ older \in SUBSET (1 .. Len(chain)) /\ Len(chain) \in Nat
      /\ older \in SUBSET (0 .. Len(chain))
  BY ChainDomain DEF Of
<1> HIDE DEF page, older
<1>3. IsFiniteSet(older) /\ \A m \in older : m \in Nat
  <2>1. IsFiniteSet(1 .. Len(chain))
    BY <1>2, FS_Interval
  <2>2. IsFiniteSet(older)
    BY <1>2, <2>1, FS_Subset
  <2> QED  BY <1>2, <2>2
<1>4. \A n : IsFiniteSet(newer(n)) /\ Cardinality(newer(n)) \in Nat
  BY <1>3, FS_Subset, FS_CardinalityType
<1>5. \A n \in page, m \in older : m >= n => m \in page
  <2> SUFFICES ASSUME NEW n \in page, NEW m \in older, m >= n PROVE m \in page
    OBVIOUS
  <2>1. n \in older /\ Cardinality(newer(n)) < PageSize
    BY <1>1
  <2>2. newer(m) \subseteq newer(n)
    BY <1>3, <2>1
  <2>3. Cardinality(newer(m)) <= Cardinality(newer(n))
    BY <1>4, <2>2, FS_Subset
  <2>4. Cardinality(newer(m)) < PageSize
    BY <1>4, <2>1, <2>3, IndexerAssumption DEF IndexerAssumption
  <2> QED  BY <1>1, <2>4
<1>6. older # {} => page # {}
  <2> SUFFICES ASSUME older # {} PROVE page # {}
    OBVIOUS
  <2>1. PICK n \in older : \A m \in older : m <= n
    BY <1>2, GreatestExists
  <2>2. newer(n) = {}
    BY <1>3, <2>1
  <2>3. Cardinality(newer(n)) = 0
    BY <2>2, FS_EmptySet
  <2> QED  BY <1>1, <2>3, IndexerAssumption DEF IndexerAssumption
<1>7. page \subseteq older /\ older \subseteq DOMAIN chain
  BY <1>1, ChainDomain, <1>2
<1> QED  BY <1>5, <1>6, <1>7 DEF page, older

(* What is kept of a page is its newest part, down to the first            *)
(* transaction that stops the walk.                                        *)
LEMMA KeptIs ==
  ASSUME NEW w, NEW page
  PROVE  /\ Kept(w, page) \subseteq page
         /\ \A n \in page \ Kept(w, page) : \E m \in page : m >= n /\ Stops(w, m)
         /\ \A n \in Kept(w, page), m \in page : m >= n => ~Stops(w, m)
BY DEF Kept

(* The page of a walk in progress.                                         *)
PageOf(a, view) == Page(a, view, walk[a].startAt)

LEMMA PageOfIs ==
  ASSUME IndexInv, NEW a \in Addresses, NEW view \in Int,
         walk[a].active, walk[a].startAt # None => Block(walk[a].startAt) <= view
  PROVE  LET page == PageOf(a, view)
             v    == walk[a]
         IN  /\ page \subseteq DOMAIN chain
             /\ \A n \in page : a \in chain[n].parties /\ Block(n) <= view
             /\ v.startAt # None => \A n \in page : n < v.startAt
             /\ page # {} => Oldest(page) \in page /\ \A n \in page : n >= Oldest(page)
             /\ \A n \in DOMAIN chain :
                  /\ a \in chain[n].parties /\ n \notin page
                  /\ v.startAt # None => n < v.startAt
                  /\ v.startAt = None => Block(n) <= view
                  => page # {} /\ \A m \in page : n < m
<1> DEFINE page  == PageOf(a, view)
           v     == walk[a]
           older == {n \in Of(a, view) : v.startAt = None \/ n < v.startAt}
<1>1. /\ page \subseteq older /\ older \subseteq DOMAIN chain
      /\ \A n \in page, m \in older : m >= n => m \in page
      /\ older # {} => page # {}
  BY PageIs DEF IndexInv, PageOf
<1>2. \A n : n \in older <=> /\ n \in DOMAIN chain /\ a \in chain[n].parties /\ Block(n) <= view
                            /\ (v.startAt = None \/ n < v.startAt)
  BY DEF Of
<1> HIDE DEF page, older
<1>3. /\ DOMAIN chain = 1 .. Len(chain) /\ Len(chain) \in Nat
      /\ \A n \in DOMAIN chain : Block(n) \in Nat /\ n \in Nat
  BY ChainDomain DEF IndexInv
<1>4. page # {} => Oldest(page) \in page /\ \A n \in page : n >= Oldest(page)
  BY <1>1, <1>3, OldestIs
<1>5. ASSUME NEW n \in DOMAIN chain, a \in chain[n].parties, n \notin page,
             v.startAt # None => n < v.startAt, v.startAt = None => Block(n) <= view
      PROVE  page # {} /\ \A m \in page : n < m
  <2>1. Block(n) <= view
    <3>1. CASE v.startAt = None
      BY <1>5, <3>1
    <3>2. CASE v.startAt # None
      <4>1. v.startAt \in DOMAIN chain
        BY <3>2 DEF IndexInv, WalksInOrder, WalkInOrder
      <4>2. Block(n) <= Block(v.startAt)
        BY <1>3, <1>5, <3>2, <4>1 DEF IndexInv, ChainInOrder
      <4> QED  BY <1>3, <1>5, <3>2, <4>1, <4>2
    <3> QED  BY <3>1, <3>2
  <2>2. n \in older
    BY <1>2, <1>5, <2>1
  <2>3. \A m \in page : m \in Nat
    BY <1>1, <1>3
  <2> QED  BY <1>1, <1>3, <1>5, <2>2, <2>3
<1> QED  BY <1>1, <1>2, <1>4, <1>5 DEF page

(* The walk after a page, field by field.                                  *)
Extended(a, view) == AfterPage(walk[a], PageOf(a, view))

KeptOf(a, view) == Kept(walk[a], PageOf(a, view))

LEMMA ExtendedIs ==
  ASSUME IndexInv, NEW a \in Addresses, NEW view \in Int,
         walk[a].active, walk[a].startAt # None => Block(walk[a].startAt) <= view
  PROVE  LET page == PageOf(a, view)
             v    == walk[a]
             w    == Extended(a, view)
         IN  /\ w.active /\ w.cursor = v.cursor /\ w.floor = v.floor /\ w.attempts = 0
             /\ w.pages = v.pages + 1
             /\ w.kept = v.kept \cup KeptOf(a, view)
             /\ w.next = IF KeptOf(a, view) # {} /\ v.startAt = None
                         THEN [ lastBlock |-> Block(Newest(KeptOf(a, view))),
                                lastTx    |-> Newest(KeptOf(a, view)) ]
                         ELSE v.next
             /\ w.startAt = IF page = {} THEN v.startAt ELSE Oldest(page)
<1> DEFINE page == PageOf(a, view)
           v    == walk[a]
<1>1. v \in Walks /\ v.active
  BY DEF IndexInv, TypeOK
<1> HIDE DEF v, page
<1>2. Extended(a, view) = AfterPage(v, page)
  BY DEF Extended, v, page
<1>3. LET w == AfterPage(v, page)
      IN  /\ w.active /\ w.cursor = v.cursor /\ w.floor = v.floor /\ w.attempts = 0
          /\ w.pages = v.pages + 1
          /\ w.kept = v.kept \cup Kept(v, page)
          /\ w.next = NextCursor(v, Kept(v, page))
          /\ w.startAt = IF page = {} THEN v.startAt ELSE Oldest(page)
  BY <1>1 DEF AfterPage, Walks
<1> QED  BY <1>2, <1>3 DEF NextCursor, KeptOf, v, page

(* The watermark of a first page is the newest transaction of the page,    *)
(* and newer than the cursor: a node that is behind the cursor, or at it,  *)
(* makes the walk stop before it keeps anything.                           *)
LEMMA WatermarkIs ==
  ASSUME IndexInv, NEW a \in Addresses, NEW view \in Int,
         walk[a].active, walk[a].startAt = None, KeptOf(a, view) # {}
  PROVE  LET w == Extended(a, view)
         IN  /\ w.next # None /\ Points(a, w.next) /\ w.next.lastTx \in PageOf(a, view)
             /\ \A n \in PageOf(a, view) : n <= w.next.lastTx
             /\ w.cursor # None => w.next.lastTx >= w.cursor.lastTx
<1> DEFINE page == PageOf(a, view)
           v    == walk[a]
           kept == KeptOf(a, view)
           top  == Newest(kept)
<1>1. /\ page \subseteq DOMAIN chain
      /\ \A n \in page : a \in chain[n].parties /\ Block(n) <= view
      /\ \A n \in DOMAIN chain : /\ a \in chain[n].parties /\ n \notin page /\ Block(n) <= view
                              => \A m \in page : n < m
  BY PageOfIs
<1>2. /\ DOMAIN chain = 1 .. Len(chain) /\ Len(chain) \in Nat
      /\ \A n \in DOMAIN chain : Block(n) \in Nat /\ n \in Nat
  BY ChainDomain DEF IndexInv
<1>3. /\ kept \subseteq page
      /\ \A n \in page \ kept : \E m \in page : m >= n /\ Stops(v, m)
      /\ \A n \in kept, m \in page : m >= n => ~Stops(v, m)
  BY KeptIs DEF KeptOf
<1> HIDE DEF page, kept
<1>4. top \in kept /\ \A n \in kept : n <= top
  <2>1. kept \in SUBSET (1 .. Len(chain)) /\ kept # {}
    BY <1>1, <1>2, <1>3 DEF kept
  <2> QED  BY <1>2, <2>1, NewestIs
<1>5. \A n \in page : n <= top
  <2> SUFFICES ASSUME NEW n \in page, n > top PROVE FALSE
    BY <1>1, <1>2, <1>3, <1>4
  <2>1. n \notin kept
    BY <1>1, <1>2, <1>3, <1>4
  <2>2. PICK m \in page : m >= n /\ Stops(v, m)
    BY <1>3, <2>1
  <2>3. m >= top
    BY <1>1, <1>2, <1>3, <1>4, <2>2
  <2> QED  BY <1>3, <1>4, <2>2, <2>3
<1>6. top \in DOMAIN chain /\ top \in page /\ a \in chain[top].parties /\ ~Stops(v, top)
  BY <1>1, <1>2, <1>3, <1>4
<1>7. Extended(a, view).next = [lastBlock |-> Block(top), lastTx |-> top]
      /\ Extended(a, view).cursor = v.cursor
  BY ExtendedIs DEF kept
<1>8. ASSUME v.cursor # None
      PROVE  top >= v.cursor.lastTx
  <2> DEFINE c == v.cursor
  <2>1. c.lastTx \in DOMAIN chain /\ a \in chain[c.lastTx].parties /\ c.lastBlock = Block(c.lastTx)
    BY <1>8 DEF IndexInv, WalksInOrder, WalkInOrder, CursorsPoint, Points
  <2> HIDE DEF c
  <2>2. ~CursorReached(c, top)
    BY <1>6, <1>8 DEF Stops, AtBoundary, c
  <2>3. Block(c.lastTx) <= Block(top)
    BY <1>2, <1>6, <2>1, <2>2 DEF CursorReached
  <2>4. Block(c.lastTx) <= view
    BY <1>1, <1>2, <1>6, <2>1, <2>3
  <2>5. CASE c.lastTx \in page
    BY <1>2, <1>5, <1>6, <2>1, <2>5 DEF c
  <2>6. CASE c.lastTx \notin page
    BY <1>1, <1>2, <1>6, <2>1, <2>4, <2>6 DEF c
  <2> QED  BY <2>5, <2>6
<1>9. None # [lastBlock |-> Block(top), lastTx |-> top]
  <2>1. top \in Txs /\ Block(top) \in Blocks
    BY <1>6, ChainDomain DEF IndexInv
  <2>2. [lastBlock |-> Block(top), lastTx |-> top] \in Cursors
    BY <2>1 DEF Cursors
  <2> QED  BY <2>2, IndexerAssumption DEF IndexerAssumption
<1> QED  BY <1>5, <1>6, <1>7, <1>8, <1>9 DEF Points, page

(* A walk that meets no end keeps its order.                               *)
LEMMA WalkGoesOn ==
  ASSUME IndexInv, NEW a \in Addresses, NEW view \in Int,
         walk[a].active, walk[a].startAt # None => Block(walk[a].startAt) <= view,
         ~Bottom(walk[a], PageOf(a, view))
  PROVE  LET w == Extended(a, view)
         IN  /\ w.kept \subseteq DOMAIN chain
             /\ w.startAt \in DOMAIN chain /\ w.startAt # None
             /\ w.next # None /\ Points(a, w.next)
             /\ w.startAt <= w.next.lastTx
             /\ Between(a, w.startAt, w.next.lastTx) \subseteq w.kept
             /\ w.cursor # None => w.next.lastTx >= w.cursor.lastTx
<1> DEFINE page == PageOf(a, view)
           v    == walk[a]
           w    == Extended(a, view)
           kept == KeptOf(a, view)
<1>1. /\ page \subseteq DOMAIN chain
      /\ \A n \in page : a \in chain[n].parties /\ Block(n) <= view
      /\ v.startAt # None => \A n \in page : n < v.startAt
      /\ page # {} => Oldest(page) \in page /\ \A n \in page : n >= Oldest(page)
      /\ \A n \in DOMAIN chain :
           /\ a \in chain[n].parties /\ n \notin page
           /\ v.startAt # None => n < v.startAt
           /\ v.startAt = None => Block(n) <= view
           => page # {} /\ \A m \in page : n < m
  BY PageOfIs
<1>2. /\ DOMAIN chain = 1 .. Len(chain) /\ Len(chain) \in Nat
      /\ \A n \in DOMAIN chain : Block(n) \in Nat /\ n \in Nat
  BY ChainDomain DEF IndexInv
<1>3. kept = page /\ page # {}
  BY DEF Bottom, Kept, KeptOf
<1>4. /\ w.cursor = v.cursor /\ w.kept = v.kept \cup page
      /\ w.startAt = Oldest(page)
      /\ v.startAt # None => w.next = v.next
  BY <1>3, ExtendedIs
<1>5. v.startAt # None =>
        /\ v.startAt \in DOMAIN chain
        /\ v.next # None /\ Points(a, v.next)
        /\ v.startAt <= v.next.lastTx
        /\ Between(a, v.startAt, v.next.lastTx) \subseteq v.kept
        /\ v.cursor # None => v.next.lastTx >= v.cursor.lastTx
  BY DEF IndexInv, WalksInOrder, WalkInOrder
<1>6. v.kept \subseteq DOMAIN chain
  BY DEF IndexInv, WalksInOrder, WalkInOrder
<1>7. v.startAt = None =>
        /\ w.next # None /\ Points(a, w.next) /\ w.next.lastTx \in page
        /\ \A n \in page : n <= w.next.lastTx
        /\ w.cursor # None => w.next.lastTx >= w.cursor.lastTx
  BY <1>3, WatermarkIs
<1> HIDE DEF page, v, w, kept
<1>8. w.next # None /\ Points(a, w.next) /\ (w.cursor # None => w.next.lastTx >= w.cursor.lastTx)
  BY <1>4, <1>5, <1>7
<1>9. w.startAt \in DOMAIN chain /\ w.startAt # None
  BY <1>1, <1>2, <1>3, <1>4, IndexerAssumption DEF IndexerAssumption
<1>10. w.next.lastTx \in DOMAIN chain
  BY <1>8 DEF Points
<1>11. w.startAt <= w.next.lastTx
  <2>1. CASE v.startAt = None
    BY <1>1, <1>3, <1>4, <1>7, <2>1
  <2>2. CASE v.startAt # None
    BY <1>1, <1>2, <1>3, <1>4, <1>5, <1>10, <2>2
  <2> QED  BY <2>1, <2>2
<1>12. ASSUME NEW n \in DOMAIN chain, a \in chain[n].parties,
              w.startAt <= n, n <= w.next.lastTx, n \notin page
       PROVE  n \in v.kept
  <2>1. ~(\A m \in page : n < m)
    BY <1>1, <1>2, <1>3, <1>4, <1>9, <1>12
  <2>2. v.startAt # None
    <3>1. Block(n) <= Block(w.next.lastTx)
      BY <1>10, <1>12 DEF IndexInv, ChainInOrder
    <3>2. CASE v.startAt = None
      <4>1. Block(w.next.lastTx) <= view
        BY <1>1, <1>7, <3>2
      <4>2. Block(n) <= view
        BY <1>2, <1>10, <1>12, <3>1, <4>1
      <4> QED  BY <1>1, <1>12, <2>1, <3>2, <4>2
    <3> QED  BY <3>2
  <2>3. ~(n < v.startAt)
    BY <1>1, <1>12, <2>1, <2>2
  <2>4. n \in Between(a, v.startAt, v.next.lastTx)
    BY <1>2, <1>4, <1>5, <1>12, <2>2, <2>3 DEF Between
  <2> QED  BY <1>5, <2>2, <2>4
<1>13. Between(a, w.startAt, w.next.lastTx) \subseteq w.kept
  BY <1>4, <1>12 DEF Between
<1>14. w.kept \subseteq DOMAIN chain
  BY <1>1, <1>4, <1>6
<1> QED  BY <1>8, <1>9, <1>11, <1>13, <1>14 DEF w

(* A walk that leaves nothing behind has kept everything up to its         *)
(* watermark, apart from what lies below its floors or its cursor.         *)
LEMMA WalkIsComplete ==
  ASSUME IndexInv, NEW a \in Addresses, NEW view \in Int,
         walk[a].active, walk[a].startAt # None => Block(walk[a].startAt) <= view,
         Left(a, Extended(a, view)) = {}, Extended(a, view).next # None,
         NEW n \in DOMAIN chain, a \in chain[n].parties,
         n <= Extended(a, view).next.lastTx,
         Block(n) >= FloorBlock,
         walk[a].cursor = None => Block(n) >= walk[a].floor,
         walk[a].cursor # None => n > walk[a].cursor.lastTx
  PROVE  n \in Extended(a, view).kept
<1> DEFINE page == PageOf(a, view)
           v    == walk[a]
           w    == Extended(a, view)
           kept == KeptOf(a, view)
<1>1. /\ page \subseteq DOMAIN chain
      /\ \A m \in page : a \in chain[m].parties /\ Block(m) <= view
      /\ v.startAt # None => \A m \in page : m < v.startAt
      /\ \A i \in DOMAIN chain :
           /\ a \in chain[i].parties /\ i \notin page
           /\ v.startAt # None => i < v.startAt
           /\ v.startAt = None => Block(i) <= view
           => page # {} /\ \A m \in page : i < m
  BY PageOfIs
<1>2. /\ DOMAIN chain = 1 .. Len(chain) /\ Len(chain) \in Nat
      /\ \A m \in DOMAIN chain : Block(m) \in Nat /\ m \in Nat
  BY ChainDomain DEF IndexInv
<1>3. /\ \A m \in page \ kept : \E i \in page : i >= m /\ Stops(v, i)
      /\ kept \subseteq page
  BY KeptIs DEF KeptOf
<1>4. /\ w.kept = v.kept \cup kept
      /\ v.startAt # None => w.next = v.next
      /\ v.startAt = None /\ kept = {} => w.next = v.next
      /\ w.cursor = v.cursor /\ w.floor = v.floor
      /\ page # {} => w.startAt = Oldest(page) /\ w.startAt \in page
  BY ExtendedIs, PageOfIs
<1>5. v.startAt # None =>
        /\ v.startAt \in DOMAIN chain
        /\ Between(a, v.startAt, v.next.lastTx) \subseteq v.kept
  BY DEF IndexInv, WalksInOrder, WalkInOrder
<1>6. v.startAt = None => v.next = None
  BY DEF IndexInv, WalksInOrder, WalkInOrder
<1>7. v.startAt = None => w.next.lastTx \in page
  BY <1>4, <1>6, WatermarkIs
<1>8. v.cursor # None => v.cursor.lastTx \in DOMAIN chain /\ v.cursor.lastBlock = Block(v.cursor.lastTx)
  BY DEF IndexInv, WalksInOrder, WalkInOrder, CursorsPoint, Points
<1>9. Left(a, w) = {}
  OBVIOUS
<1> HIDE DEF page, v, w, kept
(* Nothing at n or above it stops the walk.                                *)
<1>10. ASSUME NEW m \in DOMAIN chain, m >= n
       PROVE  ~Stops(v, m)
  <2>1. Block(m) >= Block(n)
    BY <1>10 DEF IndexInv, ChainInOrder
  <2>2. ~BelowFloor(v, m)
    <3>1. FloorBlock \in Int
      BY IndexerAssumption DEF IndexerAssumption
    <3>2. Block(m) >= FloorBlock
      BY <1>2, <1>10, <2>1, <3>1
    <3>3. v.cursor = None => Block(m) >= v.floor
      <4>1. v.floor \in Int
        BY DEF IndexInv, TypeOK, Walks, v
      <4> QED  BY <1>2, <1>10, <2>1, <4>1 DEF v
    <3>4. v.cursor = None => v.floor \in Int
      BY DEF IndexInv, TypeOK, Walks, v
    <3> QED  BY <1>2, <1>10, <3>1, <3>2, <3>3, <3>4 DEF BelowFloor
  <2>3. ~AtBoundary(v, m)
    <3> SUFFICES ASSUME v.cursor # None PROVE ~CursorReached(v.cursor, m)
      BY DEF AtBoundary
    <3>1. m > v.cursor.lastTx /\ Block(m) >= Block(v.cursor.lastTx)
      <4>1. m > v.cursor.lastTx
        BY <1>2, <1>8, <1>10 DEF v
      <4> QED  BY <1>2, <1>8, <1>10, <4>1 DEF IndexInv, ChainInOrder
    <3> QED  BY <1>2, <1>8, <1>10, <3>1 DEF CursorReached
  <2> QED  BY <2>2, <2>3 DEF Stops
<1>11. CASE n \in page
  BY <1>1, <1>3, <1>4, <1>10, <1>11 DEF w
<1>12. CASE n \notin page /\ v.startAt # None /\ n >= v.startAt
  <2>1. n \in Between(a, v.startAt, v.next.lastTx)
    BY <1>4, <1>12 DEF Between, w
  <2> QED  BY <1>4, <1>5, <1>12, <2>1 DEF w
<1>13. CASE n \notin page /\ ~(v.startAt # None /\ n >= v.startAt)
  <2>1. v.startAt # None => n < v.startAt
    BY <1>2, <1>5, <1>13
  <2>2. v.startAt = None => Block(n) <= view
    <3>1. SUFFICES ASSUME v.startAt = None PROVE Block(n) <= view
      OBVIOUS
    <3>2. w.next.lastTx \in page
      BY <1>7, <3>1
    <3>3. w.next.lastTx \in DOMAIN chain /\ Block(w.next.lastTx) <= view /\ n <= w.next.lastTx
      BY <1>1, <3>2 DEF w
    <3>4. Block(n) <= Block(w.next.lastTx)
      BY <3>3 DEF IndexInv, ChainInOrder
    <3> QED  BY <1>2, <3>3, <3>4
  <2>3. page # {} /\ \A m \in page : n < m
    BY <1>1, <1>13, <2>1, <2>2
  <2>4. w.startAt # None /\ n < w.startAt
    BY <1>1, <1>2, <1>4, <2>3, IndexerAssumption DEF IndexerAssumption
  <2>5. ~BelowFloor(w, n)
    <3>1. ~BelowFloor(v, n)
      BY <1>2, <1>10 DEF Stops
    <3> QED  BY <1>4, <3>1 DEF BelowFloor
  <2>6. n \in Of(a, head) /\ (w.cursor # None => n > w.cursor.lastTx)
    BY <1>4 DEF Of, IndexInv, ChainInOrder, v
  <2>7. n \in Left(a, w)
    BY <2>4, <2>5, <2>6 DEF Left
  <2> QED  BY <1>9, <2>7
<1> QED  BY <1>11, <1>12, <1>13

(* Whatever the page, the walk keeps its type and what it will commit is   *)
(* of the chain.                                                           *)
LEMMA ExtendedType ==
  ASSUME IndexInv, NEW a \in Addresses, NEW view \in Int,
         walk[a].active, walk[a].startAt # None => Block(walk[a].startAt) <= view
  PROVE  LET w == Extended(a, view)
         IN  /\ w \in Walks /\ w.kept \subseteq DOMAIN chain
             /\ w.next # None => /\ w.next \in Cursors /\ Points(a, w.next)
                                 /\ w.cursor # None => w.next.lastTx >= w.cursor.lastTx
<1> DEFINE page == PageOf(a, view)
           v    == walk[a]
           kept == KeptOf(a, view)
           x    == NextCursor(v, kept)
           at   == IF page = {} THEN v.startAt ELSE Oldest(page)
<1>1. v \in Walks /\ v.pages < MaxPages /\ v.kept \subseteq DOMAIN chain
  BY DEF IndexInv, TypeOK, WalksInOrder, WalkInOrder
<1>2. /\ page \subseteq DOMAIN chain
      /\ page # {} => Oldest(page) \in page
  BY PageOfIs
<1>3. kept \subseteq page
  BY KeptIs DEF KeptOf
<1>4. /\ DOMAIN chain \subseteq Txs
      /\ \A n \in DOMAIN chain : Block(n) \in Blocks
  BY ChainDomain DEF IndexInv
<1>5. /\ Extended(a, view).next = x
      /\ Extended(a, view).kept = v.kept \cup kept
      /\ Extended(a, view).cursor = v.cursor
      /\ Extended(a, view).startAt = at
  BY ExtendedIs DEF NextCursor
<1>6. x # None => /\ x \in Cursors /\ Points(a, x)
                  /\ v.cursor # None => x.lastTx >= v.cursor.lastTx
  <2>1. CASE kept # {} /\ v.startAt = None
    <3>1. /\ x # None /\ Points(a, x) /\ x.lastTx \in page
          /\ v.cursor # None => x.lastTx >= v.cursor.lastTx
      BY <1>5, <2>1, WatermarkIs
    <3>2. x = [lastBlock |-> Block(Newest(kept)), lastTx |-> Newest(kept)]
      BY <2>1 DEF NextCursor
    <3>3. x \in Cursors
      BY <1>2, <1>4, <3>1, <3>2 DEF Cursors
    <3> QED  BY <3>1, <3>3
  <2>2. CASE ~(kept # {} /\ v.startAt = None)
    <3>1. x = v.next
      BY <2>2 DEF NextCursor
    <3> QED  BY <1>1, <3>1 DEF Walks, IndexInv, WalksInOrder, WalkInOrder
  <2> QED  BY <2>1, <2>2
<1>7. at \in Txs \cup {None}
  BY <1>1, <1>2, <1>4 DEF Walks
<1>8. v.pages + 1 \in 0 .. MaxPages /\ 0 \in 0 .. MaxAttempts - 1
  BY <1>1, IndexerAssumption DEF Walks, IndexerAssumption
<1>9. v.kept \cup Kept(v, page) \in SUBSET Txs
  BY <1>1, <1>2, <1>3, <1>4 DEF KeptOf
<1>10. Extended(a, view) = AfterPage(v, page) /\ x = NextCursor(v, Kept(v, page))
  BY DEF Extended, KeptOf
<1>11. x \in Cursors \cup {None}
  <2>1. CASE x = None
    BY <2>1
  <2>2. CASE x # None
    <3>1. x \in Cursors
      BY <1>6, <2>2
    <3> QED  BY <3>1
  <2> QED  BY <2>1, <2>2
<1> HIDE DEF x, at, v, page, kept
<1>12. AfterPage(v, page) \in Walks
  <2>1. x \in Cursors \cup {None}
    BY <1>11
  <2>2. AfterPage(v, page) = [v EXCEPT !.pages = v.pages + 1, !.attempts = 0,
                                       !.kept = v.kept \cup Kept(v, page),
                                       !.next = x, !.startAt = at]
    BY <1>1, <1>10 DEF AfterPage, at, Walks
  <2> QED  BY <1>1, <1>7, <1>8, <1>9, <2>1, <2>2 DEF Walks
<1> QED  BY <1>1, <1>2, <1>3, <1>5, <1>6, <1>10, <1>12

-----------------------------------------------------------------------------
(* Where a page leads: the walk goes on, or it ends in a commit.           *)
Asked(a, view) ==
  walk[a].active /\ (walk[a].startAt # None => Block(walk[a].startAt) <= view)

Ends(a, view) ==
  Bottom(walk[a], PageOf(a, view)) \/ Extended(a, view).pages = MaxPages

LEMMA PageArrivesIs ==
  ASSUME TypeOK, NEW a \in Addresses, NEW view \in Int, NEW classifies \in BOOLEAN,
         PageArrives(a, view, classifies)
  PROVE  /\ Asked(a, view)
         /\ \/ Ends(a, view) /\ Commit(a, Extended(a, view), classifies)
            \/ ~Ends(a, view) /\ Continue(a, Extended(a, view))
         /\ faults' \in 0 .. MaxFaults
         /\ UNCHANGED <<chain, head, listed, cycle>>
<1> DEFINE late == IF view < head \/ ~classifies THEN 1 ELSE 0
<1>1. faults + late <= MaxFaults /\ faults' = faults + late
  BY DEF PageArrives
<1>2. faults' \in 0 .. MaxFaults
  BY <1>1 DEF TypeOK
<1>3. /\ Asked(a, view)
      /\ UNCHANGED <<chain, head, listed, cycle>>
  BY DEF PageArrives, Asked
<1>4. IF Ends(a, view)
      THEN Commit(a, Extended(a, view), classifies)
      ELSE Continue(a, Extended(a, view))
  BY DEF PageArrives, Ends, PageOf, Extended
<1> QED  BY <1>2, <1>3, <1>4

(* A block adds to the end of the chain.                                   *)
LEMMA NewBlockIs ==
  ASSUME IndexInv, NEW parties \in BlockContents, NewBlock(parties)
  PROVE  /\ chain' \in Seq([block : Blocks, parties : SUBSET Addresses])
         /\ Len(chain') <= MaxTxs
         /\ head' = head + 1 /\ head' \in Blocks
         /\ Len(chain) \in Nat /\ Len(chain') \in Nat /\ Len(chain') >= Len(chain)
         /\ DOMAIN chain = 1 .. Len(chain) /\ DOMAIN chain' = 1 .. Len(chain')
         /\ \A n \in DOMAIN chain : n \in DOMAIN chain' /\ chain'[n] = chain[n]
         /\ \A n \in DOMAIN chain' \ DOMAIN chain : chain'[n].block = head + 1
<1> DEFINE Entries == [block : Blocks, parties : SUBSET Addresses]
           more    == [k \in DOMAIN parties |-> [block |-> head + 1, parties |-> parties[k]]]
<1>1. parties \in Seq(SUBSET Addresses)
  <2>1. CASE parties = <<>>
    BY <2>1
  <2>2. CASE \E S \in Parties : parties = <<S>>
    BY <2>2, IndexerAssumption DEF IndexerAssumption
  <2>3. CASE \E S, T \in Parties : parties = <<S, T>>
    BY <2>3, IndexerAssumption DEF IndexerAssumption
  <2> QED  BY <2>1, <2>2, <2>3 DEF BlockContents
<1>2. head' = head + 1 /\ head' \in Blocks /\ head + 1 \in Blocks
  BY IndexerAssumption DEF NewBlock, IndexInv, TypeOK, Blocks, IndexerAssumption
<1>3. /\ Len(parties) \in Nat /\ DOMAIN parties = 1 .. Len(parties)
      /\ \A k \in 1 .. Len(parties) : parties[k] \in SUBSET Addresses
  <2> DEFINE Sets == SUBSET Addresses
  <2>1. parties \in Seq(Sets)
    BY <1>1
  <2> HIDE DEF Sets
  <2>2. \A k \in 1 .. Len(parties) : parties[k] \in Sets
    BY <2>1, ElementOfSeq
  <2> QED  BY <2>1, <2>2 DEF Sets
<1>4. \A k \in 1 .. Len(parties) : more[k] \in Entries /\ more[k].block = head + 1
  BY <1>2, <1>3
<1>5. more = [k \in 1 .. Len(parties) |-> more[k]]
  BY <1>3
<1>6. chain \in Seq(Entries) /\ chain' = chain \o more /\ Len(chain) + Len(parties) <= MaxTxs
  BY DEF IndexInv, TypeOK, NewBlock
<1> HIDE DEF Entries, more
<1>7. more \in Seq(Entries) /\ Len(more) = Len(parties)
  <2>1. more \in [1 .. Len(parties) -> Entries]
    BY <1>4, <1>5
  <2> QED  BY <1>3, <2>1
<1>8. /\ chain' \in Seq(Entries) /\ Len(chain') = Len(chain) + Len(more)
      /\ \A n \in 1 .. Len(chain) + Len(more) :
           chain'[n] = IF n <= Len(chain) THEN chain[n] ELSE more[n - Len(chain)]
  BY <1>6, <1>7, ConcatProperties
<1>9. /\ Len(chain) \in Nat /\ Len(chain') \in Nat
      /\ DOMAIN chain = 1 .. Len(chain) /\ DOMAIN chain' = 1 .. Len(chain')
  BY <1>6, <1>8
<1>10. Len(chain') <= MaxTxs /\ Len(chain') >= Len(chain)
  BY <1>3, <1>6, <1>7, <1>8, <1>9
<1>11. \A n \in DOMAIN chain : n \in DOMAIN chain' /\ chain'[n] = chain[n]
  BY <1>3, <1>7, <1>8, <1>9
<1>12. ASSUME NEW n \in DOMAIN chain', n \notin DOMAIN chain
       PROVE  chain'[n].block = head + 1
  <2>1. n - Len(chain) \in 1 .. Len(parties) /\ chain'[n] = more[n - Len(chain)]
    BY <1>3, <1>7, <1>8, <1>9, <1>12
  <2> QED  BY <1>4, <2>1
<1> QED  BY <1>2, <1>8, <1>9, <1>10, <1>11, <1>12 DEF Entries

-----------------------------------------------------------------------------
(* The invariant is inductive.                                             *)

LEMMA InitIndexInv == Init => IndexInv
<1> SUFFICES ASSUME Init PROVE IndexInv
  OBVIOUS
<1>1. NoWalk \in Walks
  BY IndexerAssumption DEF NoWalk, Walks, IndexerAssumption
<1>2. NoCycle \in Cycles
  BY DEF NoCycle, Cycles
<1>3. chain = <<>> /\ head = 0 /\ 0 \in Blocks /\ Len(chain) = 0 /\ DOMAIN chain = {}
  BY IndexerAssumption DEF Init, Blocks, IndexerAssumption
<1>4. TypeOK
  BY <1>1, <1>2, <1>3, IndexerAssumption DEF Init, TypeOK, IndexerAssumption
<1>5. ChainInOrder
  BY <1>3 DEF ChainInOrder
<1>6. CursorsPoint /\ NoGapBelowCursor
  BY DEF Init, CursorsPoint, NoGapBelowCursor
<1>7. WalksInOrder
  BY DEF Init, WalksInOrder, WalkInOrder, NoWalk
<1> QED  BY <1>4, <1>5, <1>6, <1>7 DEF IndexInv

(* A step that stores nothing and leaves every walk alone, ends it or      *)
(* keeps its order.                                                        *)
LEMMA WalkStep ==
  ASSUME IndexInv,
         UNCHANGED <<chain, head, transactions, cursors, classified, base, truncated>>,
         listed' \in SUBSET Addresses, cycle' \in Cycles, faults' \in 0 .. MaxFaults,
         walk' \in [Addresses -> Walks],
         \A a \in Addresses : walk'[a] = walk[a] \/ WalkInOrder(a)'
  PROVE  IndexInv'
<1>1. TypeOK'
  BY DEF IndexInv, TypeOK
<1>2. ChainInOrder'
  BY DEF IndexInv, ChainInOrder, Block
<1>3. CursorsPoint'
  BY DEF IndexInv, CursorsPoint, Points, Block
<1>4. WalksInOrder'
  <2> SUFFICES ASSUME NEW a \in Addresses, walk'[a] = walk[a] PROVE WalkInOrder(a)'
    BY DEF WalksInOrder
  <2>1. WalkInOrder(a)
    BY DEF IndexInv, WalksInOrder
  <2> QED  BY <2>1 DEF WalkInOrder, Points, Between, Block
<1>5. NoGapBelowCursor'
  BY DEF IndexInv, NoGapBelowCursor, Due, Of, Block
<1> QED  BY <1>1, <1>2, <1>3, <1>4, <1>5 DEF IndexInv

LEMMA CycleStep ==
  ASSUME IndexInv, StartCycle \/ EndCycle \/ \E S \in SUBSET Addresses : Relist(S)
  PROVE  IndexInv'
<1>1. /\ UNCHANGED <<chain, head, transactions, cursors, classified, base, truncated, walk>>
      /\ listed' \in SUBSET Addresses /\ cycle' \in Cycles
  <2>1. CASE StartCycle
    <3>1. cycle' = [running |-> TRUE, todo |-> listed] /\ listed' = listed
      BY <2>1 DEF StartCycle
    <3>2. cycle' \in Cycles
      BY <3>1 DEF IndexInv, TypeOK, Cycles
    <3> QED  BY <2>1, <3>1, <3>2 DEF IndexInv, TypeOK, StartCycle
  <2>2. CASE EndCycle
    BY <2>2 DEF IndexInv, TypeOK, EndCycle, Cycles, NoCycle
  <2>3. CASE \E S \in SUBSET Addresses : Relist(S)
    BY <2>3 DEF IndexInv, TypeOK, Relist
  <2> QED  BY <2>1, <2>2, <2>3
<1>2. faults' \in 0 .. MaxFaults
  BY IndexerAssumption DEF IndexInv, TypeOK, StartCycle, EndCycle, Relist, IndexerAssumption
<1>3. walk' \in [Addresses -> Walks]
  BY <1>1 DEF IndexInv, TypeOK
<1> QED  BY <1>1, <1>2, <1>3, WalkStep

LEMMA TakeAddressStep ==
  ASSUME IndexInv, NEW a \in Addresses, TakeAddress(a)
  PROVE  IndexInv'
<1> DEFINE w == [NoWalk EXCEPT !.active = TRUE, !.cursor = cursors[a],
                               !.floor  = head - BackfillDepth]
<1>1. NoWalk \in Walks /\ NoWalk.pages = 0 /\ NoWalk.kept = {}
      /\ NoWalk.startAt = None /\ NoWalk.next = None
  BY IndexerAssumption DEF NoWalk, Walks, IndexerAssumption
<1>2. head - BackfillDepth \in Int /\ cursors[a] \in Cursors \cup {None}
  BY IndexerAssumption DEF IndexInv, TypeOK, Blocks, IndexerAssumption
<1>3. w \in Walks
  BY <1>1, <1>2 DEF Walks
<1>4. /\ walk' = [walk EXCEPT ![a] = w]
      /\ UNCHANGED <<chain, head, listed, transactions, cursors, classified, faults, base, truncated>>
  BY DEF TakeAddress
<1>5. cycle' \in Cycles
  BY DEF IndexInv, TypeOK, TakeAddress, Cycles
<1>6. /\ w.active /\ w.pages = 0 /\ w.cursor = cursors[a] /\ w.kept = {}
      /\ w.startAt = None /\ w.next = None
  BY <1>1 DEF Walks
<1> HIDE DEF w
<1>7. walk' \in [Addresses -> Walks] /\ walk'[a] = w
      /\ \A b \in Addresses : b # a => walk'[b] = walk[b]
  BY <1>3, <1>4 DEF IndexInv, TypeOK
<1>8. WalkInOrder(a)'
  <2>2. 0 < MaxPages
    BY IndexerAssumption DEF IndexerAssumption
  <2>3. walk'[a] = w /\ cursors' = cursors
    BY <1>4, <1>7
  <2> QED  BY <1>6, <2>2, <2>3 DEF WalkInOrder
<1>9. listed' \in SUBSET Addresses /\ faults' \in 0 .. MaxFaults
  BY <1>4 DEF IndexInv, TypeOK
<1> QED  BY <1>4, <1>5, <1>7, <1>8, <1>9, WalkStep

LEMMA FailureStep ==
  ASSUME IndexInv, NEW a \in Addresses, FetchFails(a) \/ WalkFails(a)
  PROVE  IndexInv'
<1> DEFINE v == walk[a]
           w == [v EXCEPT !.attempts = @ + 1]
<1>1. /\ UNCHANGED <<chain, head, listed, transactions, cursors, classified, cycle, base, truncated>>
      /\ v.active
  BY DEF FetchFails, WalkFails
<1>2. listed' \in SUBSET Addresses /\ cycle' \in Cycles
  BY <1>1 DEF IndexInv, TypeOK
<1>3. faults' \in 0 .. MaxFaults
  BY IndexerAssumption DEF IndexInv, TypeOK, FetchFails, WalkFails, IndexerAssumption
<1>4. \/ walk' = [walk EXCEPT ![a] = NoWalk]
      \/ v.attempts + 1 < MaxAttempts /\ walk' = [walk EXCEPT ![a] = w]
  <2>1. CASE WalkFails(a)
    BY <2>1 DEF WalkFails
  <2>2. CASE FetchFails(a)
    <3>1. walk' = [walk EXCEPT ![a] = IF v.attempts + 1 < MaxAttempts THEN w ELSE NoWalk]
      BY <2>2 DEF FetchFails
    <3> HIDE DEF w, v
    <3> QED  BY <3>1
  <2> QED  BY <2>1, <2>2
<1>5. v \in Walks /\ WalkInOrder(a)
  BY DEF IndexInv, TypeOK, WalksInOrder
<1>6. CASE walk' = [walk EXCEPT ![a] = NoWalk]
  <2>1. NoWalk \in Walks /\ ~NoWalk.active
    BY IndexerAssumption DEF NoWalk, Walks, IndexerAssumption
  <2>2. walk' \in [Addresses -> Walks] /\ walk'[a] = NoWalk
        /\ \A b \in Addresses : b # a => walk'[b] = walk[b]
    BY <1>6, <2>1 DEF IndexInv, TypeOK
  <2>3. WalkInOrder(a)'
    BY <2>1, <2>2 DEF WalkInOrder
  <2> QED  BY <1>1, <1>2, <1>3, <2>2, <2>3, WalkStep
<1>7. CASE v.attempts + 1 < MaxAttempts /\ walk' = [walk EXCEPT ![a] = w]
  <2>1. /\ w.active /\ w.cursor = v.cursor /\ w.startAt = v.startAt /\ w.pages = v.pages
        /\ w.kept = v.kept /\ w.next = v.next
    BY <1>1, <1>5 DEF Walks
  <2>2. w \in Walks
    <3>1. v.attempts + 1 \in 0 .. MaxAttempts - 1
      BY <1>5, <1>7, IndexerAssumption DEF Walks, IndexerAssumption
    <3> QED  BY <1>5, <3>1 DEF Walks
  <2> HIDE DEF w
  <2>3. walk' \in [Addresses -> Walks] /\ walk'[a] = w
        /\ \A b \in Addresses : b # a => walk'[b] = walk[b]
    BY <1>7, <2>2 DEF IndexInv, TypeOK
  <2>4. WalkInOrder(a)'
    BY <1>1, <1>5, <2>1, <2>3 DEF WalkInOrder, Points, Between, Block
  <2> QED  BY <1>1, <1>2, <1>3, <2>3, <2>4, WalkStep
<1> QED  BY <1>4, <1>6, <1>7

LEMMA ContinueStep ==
  ASSUME IndexInv, NEW a \in Addresses, NEW view \in Int, Asked(a, view), ~Ends(a, view),
         Continue(a, Extended(a, view)), faults' \in 0 .. MaxFaults,
         UNCHANGED <<chain, head, listed, cycle>>
  PROVE  IndexInv'
<1> DEFINE w == Extended(a, view)
<1>1. walk[a].active /\ (walk[a].startAt # None => Block(walk[a].startAt) <= view)
  BY DEF Asked
<1>2. /\ w.kept \subseteq DOMAIN chain
      /\ w.startAt \in DOMAIN chain /\ w.startAt # None
      /\ w.next # None /\ Points(a, w.next)
      /\ w.startAt <= w.next.lastTx
      /\ Between(a, w.startAt, w.next.lastTx) \subseteq w.kept
      /\ w.cursor # None => w.next.lastTx >= w.cursor.lastTx
  BY <1>1, WalkGoesOn DEF Ends
<1>3. w \in Walks
  BY <1>1, ExtendedType
<1>4. w.cursor = walk[a].cursor
  BY <1>1, ExtendedIs
<1>5. w.pages # MaxPages
  BY DEF Ends
<1>6. walk' = [walk EXCEPT ![a] = w]
      /\ UNCHANGED <<transactions, cursors, classified, base, truncated>>
  BY DEF Continue
<1> HIDE DEF w
<1>7. w.pages < MaxPages
  BY <1>3, <1>5, IndexerAssumption DEF Walks, IndexerAssumption
<1>8. w.cursor = cursors[a]
  BY <1>1, <1>4 DEF IndexInv, WalksInOrder, WalkInOrder
<1>9. walk' \in [Addresses -> Walks] /\ walk'[a] = w
      /\ \A b \in Addresses : b # a => walk'[b] = walk[b]
  BY <1>3, <1>6 DEF IndexInv, TypeOK
<1>10. WalkInOrder(a)'
  BY <1>2, <1>6, <1>7, <1>8, <1>9 DEF WalkInOrder, Points, Between, Block
<1>11. listed' \in SUBSET Addresses /\ cycle' \in Cycles
  BY DEF IndexInv, TypeOK
<1> QED  BY <1>6, <1>9, <1>10, <1>11, WalkStep

LEMMA CommitStep ==
  ASSUME IndexInv, NEW a \in Addresses, NEW view \in Int, NEW classifies \in BOOLEAN,
         Asked(a, view),
         Commit(a, Extended(a, view), classifies),
         faults' \in 0 .. MaxFaults, UNCHANGED <<chain, head, listed, cycle>>
  PROVE  IndexInv'
<1> DEFINE v        == walk[a]
           w        == Extended(a, view)
           complete == Left(a, w) = {}
<1>1. v.active /\ (v.startAt # None => Block(v.startAt) <= view)
  BY DEF Asked
<1>2. /\ w \in Walks /\ w.kept \subseteq DOMAIN chain
      /\ w.next # None => w.next \in Cursors /\ Points(a, w.next)
  BY <1>1, ExtendedType
<1>3. w.cursor = v.cursor /\ w.floor = v.floor
  BY <1>1, ExtendedIs
<1>4. v.cursor = cursors[a]
  BY <1>1 DEF IndexInv, WalksInOrder, WalkInOrder
<1>5. ASSUME complete, w.next # None,
             NEW n \in DOMAIN chain, a \in chain[n].parties, n <= w.next.lastTx,
             Block(n) >= FloorBlock,
             v.cursor = None => Block(n) >= v.floor,
             v.cursor # None => n > v.cursor.lastTx
      PROVE  n \in w.kept
  BY <1>1, <1>5, WalkIsComplete
<1>6. complete \in BOOLEAN
  OBVIOUS
<1>7. /\ transactions' = transactions \cup w.kept
      /\ cursors' = IF w.next = None THEN cursors ELSE [cursors EXCEPT ![a] = w.next]
      /\ classified' = IF classifies
                       THEN [classified EXCEPT ![a] =
                               {n \in transactions' : a \in chain[n].parties}]
                       ELSE classified
      /\ walk' = [walk EXCEPT ![a] = NoWalk]
      /\ w.cursor = None => /\ base' = [base EXCEPT ![a] = w.floor]
                            /\ truncated' = [truncated EXCEPT ![a] = ~complete]
      /\ w.cursor # None => /\ base' = base
                            /\ truncated' = [truncated EXCEPT ![a] = @ \/ ~complete]
  BY DEF Commit
<1> HIDE DEF w, complete, v
<1>8. transactions' \in SUBSET (DOMAIN chain)
  BY <1>2, <1>7 DEF IndexInv, TypeOK
<1>9. /\ cursors' \in [Addresses -> Cursors \cup {None}]
      /\ cursors'[a] = IF w.next = None THEN cursors[a] ELSE w.next
      /\ \A b \in Addresses : b # a => cursors'[b] = cursors[b]
  BY <1>2, <1>7 DEF IndexInv, TypeOK
<1>10. /\ walk' \in [Addresses -> Walks] /\ walk'[a] = NoWalk /\ ~NoWalk.active
       /\ \A b \in Addresses : b # a => walk'[b] = walk[b]
  <2>1. NoWalk \in Walks /\ ~NoWalk.active
    BY IndexerAssumption DEF NoWalk, Walks, IndexerAssumption
  <2> QED  BY <1>7, <2>1 DEF IndexInv, TypeOK
<1>11. /\ base' \in [Addresses -> Int]
       /\ base'[a] = IF w.cursor = None THEN w.floor ELSE base[a]
       /\ \A b \in Addresses : b # a => base'[b] = base[b]
  <2>1. base \in [Addresses -> Int] /\ w.floor \in Int
    BY <1>2 DEF IndexInv, TypeOK, Walks
  <2> QED  BY <1>7, <2>1
<1>12. /\ truncated' \in [Addresses -> BOOLEAN]
       /\ ~truncated'[a] => complete /\ (w.cursor # None => ~truncated[a])
       /\ \A b \in Addresses : b # a => truncated'[b] = truncated[b]
  <2>1. truncated \in [Addresses -> BOOLEAN]
    BY DEF IndexInv, TypeOK
  <2>2. CASE w.cursor = None
    <3> DEFINE cut == ~complete
    <3>1. truncated' = [truncated EXCEPT ![a] = cut]
      BY <1>7, <2>2
    <3>2. cut \in BOOLEAN /\ (~cut => complete)
      BY <1>6
    <3> HIDE DEF cut
    <3> QED  BY <2>1, <2>2, <3>1, <3>2
  <2>3. CASE w.cursor # None
    <3> DEFINE cut == truncated[a] \/ ~complete
    <3>1. truncated' = [truncated EXCEPT ![a] = cut] /\ cut \in BOOLEAN
      BY <1>7, <2>3
    <3>2. ~cut => complete /\ ~truncated[a]
      OBVIOUS
    <3> HIDE DEF cut
    <3> QED  BY <2>1, <3>1, <3>2
  <2> QED  BY <2>2, <2>3
<1>13. TypeOK'
  <2>1. classified' \in [Addresses -> SUBSET (DOMAIN chain)]
    <3> DEFINE drawn == {n \in transactions' : a \in chain[n].parties}
    <3>1. drawn \in SUBSET (DOMAIN chain)
      BY <1>8
    <3>2. classified' = IF classifies THEN [classified EXCEPT ![a] = drawn] ELSE classified
      BY <1>7
    <3> HIDE DEF drawn
    <3> QED  BY <3>1, <3>2 DEF IndexInv, TypeOK
  <2> QED  BY <1>8, <1>9, <1>10, <1>11, <1>12, <2>1 DEF IndexInv, TypeOK
<1>14. ChainInOrder'
  BY DEF IndexInv, ChainInOrder, Block
<1>15. CursorsPoint'
  BY <1>2, <1>9 DEF IndexInv, CursorsPoint, Points, Block
<1>16. WalksInOrder'
  <2> SUFFICES ASSUME NEW b \in Addresses, b # a PROVE WalkInOrder(b)'
    BY <1>10 DEF WalksInOrder, WalkInOrder
  <2>1. WalkInOrder(b)
    BY DEF IndexInv, WalksInOrder
  <2> QED  BY <1>9, <1>10, <2>1 DEF WalkInOrder, Points, Between, Block
<1>17. NoGapBelowCursor'
  <2> SUFFICES ASSUME NEW b \in Addresses, cursors'[b] # None, ~truncated'[b],
                      NEW n \in Due(b)'
               PROVE  n \in transactions'
    BY DEF NoGapBelowCursor
  <2>1. /\ n \in DOMAIN chain /\ b \in chain[n].parties /\ Block(n) <= head
        /\ n <= cursors'[b].lastTx /\ Block(n) >= base'[b] /\ Block(n) >= FloorBlock
    BY DEF Due, Of, Block
  <2>2. \A c \in Addresses :
          /\ cursors[c] # None /\ ~truncated[c] /\ c \in chain[n].parties
          /\ n <= cursors[c].lastTx /\ Block(n) >= base[c]
          => n \in transactions
    BY <2>1 DEF IndexInv, NoGapBelowCursor, Due, Of
  <2>3. CASE b # a
    BY <1>7, <1>9, <1>11, <1>12, <2>1, <2>2, <2>3
  <2>4. CASE b = a /\ w.cursor = None
    <3>1. w.next # None /\ cursors'[a] = w.next /\ base'[a] = w.floor /\ complete
      BY <1>3, <1>4, <1>9, <1>11, <1>12, <2>4
    <3> QED  BY <1>3, <1>5, <1>7, <2>1, <2>4, <3>1
  <2>5. CASE b = a /\ w.cursor # None
    <3>1. complete /\ ~truncated[a] /\ base'[a] = base[a] /\ cursors[a] # None
      BY <1>3, <1>4, <1>11, <1>12, <2>5
    <3>2. CASE n <= cursors[a].lastTx
      BY <1>7, <2>1, <2>2, <2>5, <3>1, <3>2
    <3>3. CASE ~(n <= cursors[a].lastTx)
      <4>1. n > cursors[a].lastTx
        <5>1. n \in Nat /\ cursors[a].lastTx \in Nat
          <6>1. cursors[a] \in Cursors
            BY <3>1 DEF IndexInv, TypeOK
          <6> QED  BY <2>1, <6>1, ChainDomain DEF Cursors, Txs, IndexInv
        <5> QED  BY <3>3, <5>1
      <4>2. w.next # None /\ n <= w.next.lastTx
        BY <1>9, <2>1, <2>5, <3>3
      <4> QED  BY <1>3, <1>4, <1>5, <1>7, <2>1, <2>5, <3>1, <4>1, <4>2
    <3> QED  BY <3>2, <3>3
  <2> QED  BY <2>3, <2>4, <2>5
<1> QED  BY <1>13, <1>14, <1>15, <1>16, <1>17 DEF IndexInv

LEMMA NewBlockStep ==
  ASSUME IndexInv, NEW parties \in BlockContents, NewBlock(parties)
  PROVE  IndexInv'
<1>1. /\ chain' \in Seq([block : Blocks, parties : SUBSET Addresses])
      /\ Len(chain') <= MaxTxs
      /\ head' = head + 1 /\ head' \in Blocks
      /\ Len(chain) \in Nat /\ Len(chain') \in Nat /\ Len(chain') >= Len(chain)
      /\ DOMAIN chain = 1 .. Len(chain) /\ DOMAIN chain' = 1 .. Len(chain')
      /\ \A n \in DOMAIN chain : n \in DOMAIN chain' /\ chain'[n] = chain[n]
      /\ \A n \in DOMAIN chain' \ DOMAIN chain : chain'[n].block = head + 1
  BY NewBlockIs
<1>2. UNCHANGED <<listed, transactions, cursors, classified, cycle, walk, faults, base, truncated>>
  BY DEF NewBlock
<1>3. head \in Nat /\ \A n \in DOMAIN chain : Block(n) \in Nat /\ n \in Nat /\ Block(n) <= head
  BY ChainDomain DEF IndexInv, TypeOK, Blocks, ChainInOrder
<1>4. /\ \A n \in DOMAIN chain : Block(n)' = Block(n)
      /\ \A n \in DOMAIN chain' \ DOMAIN chain : Block(n)' = head + 1
  BY <1>1 DEF Block
<1>5. TypeOK'
  <2>1. DOMAIN chain \subseteq DOMAIN chain'
    BY <1>1
  <2>2. /\ transactions' \in SUBSET (DOMAIN chain')
        /\ classified' \in [Addresses -> SUBSET (DOMAIN chain')]
    BY <1>2, <2>1 DEF IndexInv, TypeOK
  <2> QED  BY <1>1, <1>2, <2>2 DEF IndexInv, TypeOK
<1>6. ChainInOrder'
  <2>1. \A n \in DOMAIN chain' : Block(n)' <= head'
    BY <1>1, <1>3, <1>4
  <2>2. ASSUME NEW m \in DOMAIN chain', NEW n \in DOMAIN chain', m <= n
        PROVE  Block(m)' <= Block(n)'
    <3>1. CASE n \in DOMAIN chain
      <4>1. m \in DOMAIN chain
        BY <1>1, <2>2, <3>1
      <4> QED  BY <1>4, <2>2, <3>1, <4>1 DEF IndexInv, ChainInOrder
    <3>2. CASE n \notin DOMAIN chain
      BY <1>1, <1>3, <1>4, <2>1, <3>2
    <3> QED  BY <3>1, <3>2
  <2> QED  BY <2>1, <2>2 DEF ChainInOrder
<1>7. \A a, c : Points(a, c) => Points(a, c)'
  BY <1>1, <1>4 DEF Points
<1>8. CursorsPoint'
  BY <1>2, <1>7 DEF IndexInv, CursorsPoint
<1>9. WalksInOrder'
  <2> SUFFICES ASSUME NEW a \in Addresses PROVE WalkInOrder(a)'
    BY DEF WalksInOrder
  <2>1. WalkInOrder(a)
    BY DEF IndexInv, WalksInOrder
  <2>2. ASSUME NEW first \in DOMAIN chain, NEW last \in DOMAIN chain
        PROVE  Between(a, first, last)' = Between(a, first, last)
    <3>1. \A n \in DOMAIN chain' : n <= last => n \in DOMAIN chain
      BY <1>1
    <3> QED  BY <1>1, <3>1 DEF Between
  <2> QED  BY <1>1, <1>2, <1>7, <2>1, <2>2 DEF WalkInOrder, Points
<1>10. NoGapBelowCursor'
  <2> SUFFICES ASSUME NEW a \in Addresses, cursors[a] # None, ~truncated[a], NEW n \in Due(a)'
               PROVE  n \in Due(a)
    BY <1>2 DEF IndexInv, NoGapBelowCursor
  <2>1. /\ n \in DOMAIN chain' /\ a \in chain'[n].parties
        /\ n <= cursors[a].lastTx /\ Block(n)' >= base[a] /\ Block(n)' >= FloorBlock
    BY <1>2 DEF Due, Of, Block
  <2>2. cursors[a].lastTx \in DOMAIN chain
    BY DEF IndexInv, CursorsPoint, Points
  <2>3. n \in DOMAIN chain
    BY <1>1, <2>1, <2>2
  <2> QED  BY <1>1, <1>3, <1>4, <2>1, <2>3 DEF Due, Of
<1> QED  BY <1>5, <1>6, <1>8, <1>9, <1>10 DEF IndexInv

LEMMA RestartStep ==
  ASSUME IndexInv, NEW rebackfill \in BOOLEAN, Restart(rebackfill)
  PROVE  IndexInv'
<1>1. /\ UNCHANGED <<chain, head, listed, transactions, classified, base, truncated>>
      /\ cycle' = NoCycle /\ walk' = [a \in Addresses |-> NoWalk]
      /\ cursors' = IF rebackfill THEN [a \in Addresses |-> None] ELSE cursors
  BY DEF Restart
<1>2. faults' \in 0 .. MaxFaults
  BY IndexerAssumption DEF IndexInv, TypeOK, Restart, IndexerAssumption
<1>3. NoWalk \in Walks /\ ~NoWalk.active /\ NoCycle \in Cycles
  BY IndexerAssumption DEF NoWalk, Walks, NoCycle, Cycles, IndexerAssumption
<1>4. cursors' \in [Addresses -> Cursors \cup {None}]
      /\ \A a \in Addresses : cursors'[a] = None \/ cursors'[a] = cursors[a]
  BY <1>1 DEF IndexInv, TypeOK
<1>5. TypeOK'
  BY <1>1, <1>2, <1>3, <1>4 DEF IndexInv, TypeOK
<1>6. ChainInOrder'
  BY <1>1 DEF IndexInv, ChainInOrder, Block
<1>7. CursorsPoint'
  BY <1>1, <1>4 DEF IndexInv, CursorsPoint, Points, Block
<1>8. WalksInOrder'
  BY <1>1, <1>3 DEF WalksInOrder, WalkInOrder
<1>9. NoGapBelowCursor'
  <2> SUFFICES ASSUME NEW a \in Addresses, cursors'[a] # None, ~truncated'[a]
               PROVE  Due(a)' \subseteq transactions'
    BY DEF NoGapBelowCursor
  <2>1. cursors'[a] = cursors[a]
    BY <1>4
  <2>2. Due(a)' = Due(a)
    BY <1>1, <2>1 DEF Due, Of, Block
  <2> QED  BY <1>1, <2>1, <2>2 DEF IndexInv, NoGapBelowCursor
<1> QED  BY <1>5, <1>6, <1>7, <1>8, <1>9 DEF IndexInv

LEMMA PageArrivesStep ==
  ASSUME IndexInv, NEW a \in Addresses, NEW view \in Int, NEW classifies \in BOOLEAN,
         PageArrives(a, view, classifies)
  PROVE  IndexInv'
<1>1. TypeOK
  BY DEF IndexInv
<1>2. /\ Asked(a, view)
      /\ \/ Ends(a, view) /\ Commit(a, Extended(a, view), classifies)
         \/ ~Ends(a, view) /\ Continue(a, Extended(a, view))
      /\ faults' \in 0 .. MaxFaults
      /\ UNCHANGED <<chain, head, listed, cycle>>
  BY <1>1, PageArrivesIs
<1>3. CASE Commit(a, Extended(a, view), classifies)
  BY <1>2, <1>3, CommitStep
<1>4. CASE ~Ends(a, view) /\ Continue(a, Extended(a, view))
  BY <1>2, <1>4, ContinueStep
<1> QED  BY <1>2, <1>3, <1>4

LEMMA StepKeepsIndexInv ==
  ASSUME IndexInv, [Next]_vars
  PROVE  IndexInv'
<1>1. CASE Indexer
  <2>1. CASE StartCycle \/ EndCycle
    BY <2>1, CycleStep
  <2>2. ASSUME NEW a \in Addresses, TakeAddress(a)
        PROVE  IndexInv'
    BY <2>2, TakeAddressStep
  <2>3. ASSUME NEW a \in Addresses, FetchFails(a) \/ WalkFails(a)
        PROVE  IndexInv'
    BY <2>3, FailureStep
  <2>4. ASSUME NEW a \in Addresses, NEW view \in head - MaxLag .. head,
               NEW classifies \in BOOLEAN, PageArrives(a, view, classifies)
        PROVE  IndexInv'
    <3>1. view \in Int
      OBVIOUS
    <3> QED  BY <2>4, <3>1, PageArrivesStep
  <2> QED  BY <1>1, <2>1, <2>2, <2>3, <2>4 DEF Indexer
<1>2. CASE Surroundings
  <2>1. ASSUME NEW parties \in BlockContents, NewBlock(parties)
        PROVE  IndexInv'
    BY <2>1, NewBlockStep
  <2>2. CASE \E S \in SUBSET Addresses : Relist(S)
    BY <2>2, CycleStep
  <2>3. ASSUME NEW rebackfill \in BOOLEAN, Restart(rebackfill)
        PROVE  IndexInv'
    BY <2>3, RestartStep
  <2> QED  BY <1>2, <2>1, <2>2, <2>3 DEF Surroundings
<1>3. CASE UNCHANGED vars
  <2>1. /\ UNCHANGED <<chain, head, transactions, cursors, classified, base, truncated>>
        /\ UNCHANGED <<listed, cycle, faults, walk>>
    BY <1>3 DEF vars
  <2>2. /\ listed' \in SUBSET Addresses /\ cycle' \in Cycles /\ faults' \in 0 .. MaxFaults
        /\ walk' \in [Addresses -> Walks]
    BY <2>1 DEF IndexInv, TypeOK
  <2> QED  BY <2>1, <2>2, WalkStep
<1> QED  BY <1>1, <1>2, <1>3 DEF Next

-----------------------------------------------------------------------------
(* The theorems.                                                           *)

(* The invariant holds: what a walk has kept meets what is stored.         *)
THEOREM IndexInvariant == Spec => []IndexInv
<1>1. Init => IndexInv
  BY InitIndexInv
<1>2. IndexInv /\ [Next]_vars => IndexInv'
  BY StepKeepsIndexInv
<1> QED  BY <1>1, <1>2, PTL DEF Spec

(* Every table, cursor and walk of the indexer stays within its type.      *)
THEOREM TypeCorrect == Spec => []TypeOK
<1>1. IndexInv => TypeOK
  BY DEF IndexInv
<1> QED  BY <1>1, IndexInvariant, PTL

(* storeWalk: from the floor of the walk that created it up to the cursor  *)
(* every transaction of an address is stored, whatever page failed, node   *)
(* lagged or process restarted, unless a walk ran out of pages.            *)
THEOREM NoGaps == Spec => []NoGapBelowCursor
<1>1. IndexInv => NoGapBelowCursor
  BY DEF IndexInv
<1> QED  BY <1>1, IndexInvariant, PTL

(* A cursor only moves forward: a node behind the cursor makes the walk    *)
(* stop before it has a watermark.                                         *)
THEOREM CursorsForward == Spec => CursorsMoveForward
<1> DEFINE Forward == \A a \in Addresses :
             cursors[a] # None /\ cursors'[a] # None => cursors'[a].lastTx >= cursors[a].lastTx
<1>1. IndexInv /\ [Next]_vars => [Forward]_vars
  <2> SUFFICES ASSUME IndexInv, Next PROVE Forward
    OBVIOUS
  <2>1. ASSUME cursors' = cursors \/ cursors' = [a \in Addresses |-> None]
        PROVE  Forward
    <3>1. \A a \in Addresses : cursors[a] # None => cursors[a].lastTx \in Int
      BY DEF IndexInv, TypeOK, Cursors, Txs
    <3> QED  BY <2>1, <3>1
  <2>2. CASE StartCycle \/ EndCycle
    BY <2>1, <2>2 DEF StartCycle, EndCycle
  <2>3. CASE \E a \in Addresses : TakeAddress(a) \/ FetchFails(a) \/ WalkFails(a)
    BY <2>1, <2>3 DEF TakeAddress, FetchFails, WalkFails
  <2>4. ASSUME NEW a \in Addresses, NEW view \in head - MaxLag .. head,
               NEW classifies \in BOOLEAN, PageArrives(a, view, classifies)
        PROVE  Forward
    <3> DEFINE w == Extended(a, view)
    <3>1. view \in Int /\ TypeOK
      BY DEF IndexInv
    <3>2. /\ Asked(a, view)
          /\ \/ cursors' = cursors
             \/ cursors' = IF w.next = None THEN cursors ELSE [cursors EXCEPT ![a] = w.next]
      BY <2>4, <3>1, PageArrivesIs DEF Commit, Continue
    <3>3. CASE cursors' = cursors
      BY <2>1, <3>3
    <3>4. CASE w.next # None /\ cursors' = [cursors EXCEPT ![a] = w.next]
      <4>1. walk[a].active /\ (walk[a].startAt # None => Block(walk[a].startAt) <= view)
        BY <3>2 DEF Asked
      <4>2. w.cursor # None => w.next.lastTx >= w.cursor.lastTx
        BY <3>1, <3>4, <4>1, ExtendedType
      <4>3. w.cursor = cursors[a]
        BY <3>1, <4>1, ExtendedIs DEF IndexInv, WalksInOrder, WalkInOrder
      <4> HIDE DEF w
      <4>4. \A b \in Addresses : cursors[b] # None => cursors[b].lastTx \in Int
        BY DEF IndexInv, TypeOK, Cursors, Txs
      <4>5. cursors'[a] = w.next /\ \A b \in Addresses : b # a => cursors'[b] = cursors[b]
        BY <3>4 DEF IndexInv, TypeOK
      <4> QED  BY <4>2, <4>3, <4>4, <4>5
    <3> QED  BY <3>2, <3>3, <3>4
  <2>5. CASE Surroundings
    BY <2>1, <2>5 DEF Surroundings, NewBlock, Relist, Restart
  <2> QED  BY <2>2, <2>3, <2>4, <2>5 DEF Next, Indexer
<1> QED  BY <1>1, IndexInvariant, PTL DEF Spec, CursorsMoveForward

-----------------------------------------------------------------------------
(* What is drawn from the payouts: Observations.                           *)

(* Sets of naturals with a bound have a greatest and a least member, sets  *)
(* of ticks and of versions do.                                            *)
LEMMA EndsAre ==
  ASSUME NEW k \in Nat, NEW S \in SUBSET (0 .. k), S # {}
  PROVE  /\ Max(S) \in S /\ \A m \in S : m <= Max(S)
         /\ Min(S) \in S /\ \A m \in S : m >= Min(S)
<1>1. S \in SUBSET Nat
  OBVIOUS
<1>2. \E n \in S : \A m \in S : n >= m
  <2>1. PICK n \in S : \A m \in S : m <= n
    BY GreatestExists
  <2> QED  BY <1>1, <2>1
<1>3. \E n \in S : \A m \in S : n =< m
  <2>1. PICK n \in S : \A m \in S : m >= n
    BY <1>1, LeastExists
  <2> QED  BY <1>1, <2>1
<1>4. Max(S) \in S /\ \A m \in S : Max(S) >= m
  BY <1>2 DEF Max
<1>5. Min(S) \in S /\ \A m \in S : Min(S) =< m
  BY <1>3 DEF Min
<1> QED  BY <1>1, <1>4, <1>5

LEMMA TicksHaveEnds ==
  ASSUME NEW S \in SUBSET Times, S # {}
  PROVE  /\ Max(S) \in S /\ \A m \in S : m <= Max(S)
         /\ Min(S) \in S /\ \A m \in S : m >= Min(S)
<1>1. MaxTime \in Nat /\ S \in SUBSET (0 .. MaxTime)
  BY ObservationsAssumption DEF ObservationsAssumption, Times
<1> QED  BY <1>1, EndsAre

LEMMA VersionsAre == \E n \in Nat : Versions = 1 .. n /\ 1 \in Versions
<1>1. Cardinality(Versions) \in Nat
  BY ObservationsAssumption, FS_CardinalityType DEF ObservationsAssumption
<1> QED  BY <1>1, ObservationsAssumption DEF ObservationsAssumption

LEMMA VersionsHaveEnds ==
  ASSUME NEW S \in SUBSET Versions, S # {}
  PROVE  Max(S) \in S /\ \A m \in S : m <= Max(S)
<1>1. PICK k \in Nat : Versions = 1 .. k
  BY VersionsAre
<1>2. S \in SUBSET (0 .. k)
  BY <1>1
<1> QED  BY <1>2, EndsAre

(* The runs are a partition of the payouts, and two payouts that follow    *)
(* each other share a run when they are within the window of each other    *)
(* (groupPayoutRuns, with the first transaction as the key of a run).      *)
IsPartition(rs, ps) ==
  /\ UNION rs = ps
  /\ {} \notin rs
  /\ \A r, s \in rs : r = s \/ r \cap s = {}

Follows(p, q, ps) == p < q /\ ~ \E x \in ps : p < x /\ x < q

LEMMA EachHasItsRun ==
  ASSUME NEW ps \in SUBSET Times, NEW p \in ps
  PROVE  \E s \in Begins(ps) : p \in RunFrom(ps, s)
<1> DEFINE before == {q \in ps : q <= p}
           begun  == {s \in Begins(ps) : s <= p}
<1>1. (\A x \in ps : x \in Int) /\ ps \subseteq Times /\ Begins(ps) \subseteq ps
  BY ObservationsAssumption DEF ObservationsAssumption, Times, Begins
<1>2. before \in SUBSET Times /\ before # {}
  BY <1>1
<1>3. PICK m \in before : \A q \in before : q >= m
  BY <1>2, TicksHaveEnds
<1>4. m \in begun
  BY <1>1, <1>3 DEF Begins
<1>5. begun \in SUBSET Times /\ begun # {}
  BY <1>1, <1>4
<1>6. PICK s \in begun : \A t \in begun : t <= s
  BY <1>5, TicksHaveEnds
<1>7. p \in RunFrom(ps, s)
  BY <1>1, <1>6 DEF RunFrom
<1> QED  BY <1>6, <1>7

LEMMA RunsFacts ==
  ASSUME NEW ps \in SUBSET Times, NEW s \in Begins(ps)
  PROVE  /\ s \in RunFrom(ps, s) /\ RunFrom(ps, s) \subseteq ps
         /\ Key(RunFrom(ps, s)) = s
         /\ \A t \in Begins(ps) : \A p \in RunFrom(ps, s) \cap RunFrom(ps, t) : s = t
<1>1. (\A x \in ps : x \in Int) /\ ps \subseteq Times /\ s \in ps /\ Begins(ps) \subseteq ps
  BY ObservationsAssumption DEF ObservationsAssumption, Times, Begins
<1>2. s \in RunFrom(ps, s) /\ RunFrom(ps, s) \subseteq ps
  BY <1>1 DEF RunFrom
<1>3. \A p \in RunFrom(ps, s) : p >= s
  BY DEF RunFrom
<1>4. Key(RunFrom(ps, s)) = s
  <2>1. /\ Min(RunFrom(ps, s)) \in RunFrom(ps, s)
        /\ \A m \in RunFrom(ps, s) : m >= Min(RunFrom(ps, s))
    BY <1>2, TicksHaveEnds
  <2> QED  BY <1>1, <1>2, <1>3, <2>1 DEF Key
<1>5. \A t \in Begins(ps) : \A p \in RunFrom(ps, s) \cap RunFrom(ps, t) : s = t
  BY <1>1 DEF RunFrom
<1> QED  BY <1>2, <1>4, <1>5

(* Two payouts that follow each other share a run when, and only when, they*)
(* are within the window of each other, and the runs are a partition.      *)
THEOREM RunsPartition ==
  ASSUME NEW ps \in SUBSET Times
  PROVE  /\ IsPartition(GroupPayoutRuns(ps), ps)
         /\ \A r, s \in GroupPayoutRuns(ps) : Key(r) = Key(s) => r = s
         /\ \A p, q \in ps : Follows(p, q, ps) =>
              ((\E r \in GroupPayoutRuns(ps) : {p, q} \subseteq r) <=> q - p <= Window)
<1>1. (\A x \in ps : x \in Int) /\ ps \subseteq Times /\ Window \in Nat /\ Begins(ps) \subseteq ps
  BY ObservationsAssumption DEF ObservationsAssumption, Times, Begins
<1>2. IsPartition(GroupPayoutRuns(ps), ps)
  <2>1. UNION GroupPayoutRuns(ps) = ps
    BY EachHasItsRun, RunsFacts DEF GroupPayoutRuns
  <2>2. {} \notin GroupPayoutRuns(ps)
    BY RunsFacts DEF GroupPayoutRuns
  <2>3. \A r, s \in GroupPayoutRuns(ps) : r = s \/ r \cap s = {}
    BY RunsFacts DEF GroupPayoutRuns
  <2> QED  BY <2>1, <2>2, <2>3 DEF IsPartition
<1>3. \A r, s \in GroupPayoutRuns(ps) : Key(r) = Key(s) => r = s
  BY RunsFacts DEF GroupPayoutRuns
<1>4. ASSUME NEW p \in ps, NEW q \in ps, Follows(p, q, ps)
      PROVE  (\E r \in GroupPayoutRuns(ps) : {p, q} \subseteq r) <=> q - p <= Window
  <2>1. p < q /\ \A x \in ps : x < q => x <= p
    BY <1>1, <1>4 DEF Follows
  <2>2. CASE q - p <= Window
    <3>1. q \notin Begins(ps)
      BY <1>1, <2>1, <2>2 DEF Begins
    <3>2. PICK s \in Begins(ps) : p \in RunFrom(ps, s)
      BY EachHasItsRun
    <3>3. \A t \in Begins(ps) : t <= q => t <= p
      BY <1>1, <2>1, <3>1
    <3>4. q \in RunFrom(ps, s)
      BY <1>1, <2>1, <3>2, <3>3 DEF RunFrom
    <3> QED  BY <2>2, <3>2, <3>4 DEF GroupPayoutRuns
  <2>3. CASE ~(q - p <= Window)
    <3>1. q \in Begins(ps)
      BY <1>1, <2>1, <2>3 DEF Begins
    <3>2. \A s \in Begins(ps) : q \in RunFrom(ps, s) => q <= s
      BY <1>1, <3>1 DEF RunFrom
    <3>3. \A s \in Begins(ps) : ~({p, q} \subseteq RunFrom(ps, s))
      BY <1>1, <2>1, <3>2 DEF RunFrom
    <3> QED  BY <2>3, <3>3 DEF GroupPayoutRuns
  <2> QED  BY <2>2, <2>3
<1> QED  BY <1>2, <1>3, <1>4

-----------------------------------------------------------------------------
(* The inductive invariant.                                                *)

Paid == stored \ Failed

(* Rows of runs over some payouts: none is empty and no two share a key.   *)
RunRows(rows, ps) ==
  /\ \A r \in rows : r \subseteq ps /\ r # {}
  /\ \A r, s \in rows : Key(r) = Key(s) => r = s

(* No row comes from a version that was not deployed yet.                  *)
NothingLater ==
  \A v \in Versions : v > version => runs[v] = {} /\ adherence[v] = Null /\ coverage[v] = {}

(* What the writes of the cycle have put right so far.                     *)
RunsAreRight == runs[version] = GroupPayoutRuns(Executed(stored))

GradeIsRight ==
  /\ adherence[version] # Null
  /\ adherence[version].status = Score(runs[version], AnalysisEnd, schedule)

CycleGoes ==
  /\ stage \in {"adherence", "coverage"} => RunsAreRight
  /\ stage = "coverage" => GradeIsRight

EvidenceTyped ==
  /\ now \in Times /\ stored \subseteq Payouts
  /\ schedule \in Hours \cup {Null} /\ version \in Versions
  /\ stage \in {"idle", "runs", "adherence", "coverage"}
  /\ runs \in [Versions -> SUBSET SUBSET Payouts]
  /\ coverage \in [Versions -> SUBSET SUBSET Payouts]
  /\ adherence \in [Versions -> AdherenceRows \cup {Null}]

RowsAreDrawn == \A v \in Versions : RunRows(runs[v], Paid) /\ RunRows(coverage[v], Paid)

EvidenceInv == EvidenceTyped /\ RowsAreDrawn /\ NothingLater /\ CycleGoes

InboxOK(box) ==
  /\ DOMAIN box \subseteq Keys
  /\ \A k \in DOMAIN box : box[k] \in {"unread", "read"}

UserInv == upsets \in 0 .. MaxUpsets /\ watch \in Watches \cup {Null} /\ InboxOK(inbox)

ObservationsInv == EvidenceInv /\ UserInv

-----------------------------------------------------------------------------
(* The values of the rows.                                                 *)

LEMMA PayoutsAreTicks == Payouts \subseteq Times /\ \A v \in Versions : v \in Nat
BY VersionsAre, ObservationsAssumption DEF ObservationsAssumption, Times

LEMMA NullIsNoRow ==
  /\ Null \notin Versions /\ Null \notin AdherenceRows /\ Null \notin Watches
BY ObservationsAssumption DEF ObservationsAssumption

LEMMA ScoreType ==
  ASSUME NEW rs, NEW end, NEW hours
  PROVE  Score(rs, end, hours) \in Statuses
BY DEF Score, Grade, Statuses

LEMMA AnalysisEndType == EvidenceTyped => AnalysisEnd \in Times
<1> SUFFICES ASSUME EvidenceTyped PROVE AnalysisEnd \in Times
  OBVIOUS
<1>1. now \in Times /\ stored \in SUBSET Times
  BY PayoutsAreTicks DEF EvidenceTyped
<1>2. stored # {} => Max(stored) \in stored
  BY <1>1, TicksHaveEnds
<1> QED  BY <1>1, <1>2 DEF AnalysisEnd

LEMMA DrawnRuns ==
  ASSUME NEW ps \in SUBSET Payouts
  PROVE  /\ RunRows(GroupPayoutRuns(ps), ps)
         /\ GroupPayoutRuns(ps) \in SUBSET SUBSET Payouts
<1>1. ps \in SUBSET Times
  BY PayoutsAreTicks
<1>2. IsPartition(GroupPayoutRuns(ps), ps)
  BY <1>1, RunsPartition
<1>3. \A r, s \in GroupPayoutRuns(ps) : Key(r) = Key(s) => r = s
  BY <1>1, RunsPartition
<1>4. \A r \in GroupPayoutRuns(ps) : r \subseteq ps /\ r # {}
  BY <1>2 DEF IsPartition
<1> QED  BY <1>3, <1>4 DEF RunRows

-----------------------------------------------------------------------------
(* The cycle.                                                              *)

LEMMA ObservationsStart == ObservationsInit => ObservationsInv
<1> SUFFICES ASSUME ObservationsInit PROVE ObservationsInv
  OBVIOUS
<1>1. 0 \in Times /\ 1 \in Versions /\ 0 \in 0 .. MaxUpsets
  BY ObservationsAssumption DEF ObservationsAssumption, Times
<1>2. EvidenceTyped
  BY <1>1 DEF EvidenceTyped, ObservationsInit
<1>3. RowsAreDrawn /\ NothingLater /\ CycleGoes
  BY DEF RowsAreDrawn, RunRows, NothingLater, CycleGoes, ObservationsInit
<1>4. UserInv
  BY <1>1 DEF UserInv, InboxOK, ObservationsInit
<1> QED  BY <1>2, <1>3, <1>4 DEF ObservationsInv, EvidenceInv

LEMMA StoreStep ==
  ASSUME ObservationsInv, NEW ps \in SUBSET Payouts, Store(ps)
  PROVE  ObservationsInv'
<1> USE DEF Store
<1>1. EvidenceTyped'
  BY DEF ObservationsInv, EvidenceInv, EvidenceTyped
<1>2. Paid \subseteq Paid'
  BY DEF Paid
<1>3. RowsAreDrawn'
  <2> SUFFICES ASSUME NEW v \in Versions
               PROVE  RunRows(runs[v], Paid') /\ RunRows(coverage[v], Paid')
    BY DEF RowsAreDrawn
  <2>1. RunRows(runs[v], Paid) /\ RunRows(coverage[v], Paid)
    BY DEF ObservationsInv, EvidenceInv, RowsAreDrawn
  <2> QED  BY <1>2, <2>1 DEF RunRows
<1>4. NothingLater' /\ CycleGoes'
  BY DEF ObservationsInv, EvidenceInv, NothingLater, CycleGoes
<1>5. UserInv'
  BY DEF ObservationsInv, UserInv
<1> QED  BY <1>1, <1>3, <1>4, <1>5 DEF ObservationsInv, EvidenceInv

LEMMA ClassifyRunsStep ==
  ASSUME ObservationsInv, ClassifyRuns
  PROVE  ObservationsInv'
<1> DEFINE new == GroupPayoutRuns(Executed(stored))
<1>1. EvidenceTyped /\ RowsAreDrawn /\ NothingLater /\ UserInv
  BY DEF ObservationsInv, EvidenceInv
<1>2. /\ runs' = [runs EXCEPT ![version] = new] /\ stage' = "adherence"
      /\ UNCHANGED <<now, stored, schedule, version, adherence, coverage, watch, inbox, upsets>>
  BY DEF ClassifyRuns, Persisted
<1>3. RunRows(new, Paid) /\ new \in SUBSET SUBSET Payouts
  <2>1. Executed(stored) \in SUBSET Payouts /\ Executed(stored) = Paid
    BY <1>1 DEF EvidenceTyped, Executed, Paid
  <2> QED  BY <2>1, DrawnRuns
<1> HIDE DEF new
<1>4. /\ EvidenceTyped' /\ runs'[version] = new
      /\ \A v \in Versions : v # version => runs'[v] = runs[v]
  BY <1>1, <1>2, <1>3 DEF EvidenceTyped
<1>5. RowsAreDrawn'
  BY <1>1, <1>2, <1>3, <1>4 DEF RowsAreDrawn, Paid
<1>6. NothingLater'
  BY <1>1, <1>2, <1>4, PayoutsAreTicks DEF NothingLater, EvidenceTyped
<1>7. CycleGoes'
  BY <1>2, <1>4 DEF CycleGoes, RunsAreRight, new
<1>8. UserInv'
  BY <1>1, <1>2 DEF UserInv
<1> QED  BY <1>4, <1>5, <1>6, <1>7, <1>8 DEF ObservationsInv, EvidenceInv

LEMMA DeliveredIs ==
  ASSUME NEW box, NEW keys
  PROVE  /\ DOMAIN Delivered(box, keys) = DOMAIN box \cup keys
         /\ \A k \in DOMAIN box : Delivered(box, keys)[k] = box[k]
         /\ \A k \in keys \ DOMAIN box : Delivered(box, keys)[k] = "unread"
BY DEF Delivered

LEMMA DeliveredType ==
  ASSUME NEW box, InboxOK(box), NEW keys \in SUBSET Keys
  PROVE  InboxOK(Delivered(box, keys))
<1> DEFINE after == Delivered(box, keys)
<1>1. /\ DOMAIN after = DOMAIN box \cup keys
      /\ \A k \in DOMAIN box : after[k] = box[k]
      /\ \A k \in keys \ DOMAIN box : after[k] = "unread"
  BY DeliveredIs
<1> HIDE DEF after
<1>2. \A k \in DOMAIN after : after[k] \in {"unread", "read"}
  BY <1>1 DEF InboxOK
<1>3. DOMAIN after \subseteq Keys
  BY <1>1 DEF InboxOK
<1>4. InboxOK(after)
  BY <1>2, <1>3 DEF InboxOK
<1> QED  BY <1>4 DEF after

LEMMA ScoreAdherenceStep ==
  ASSUME ObservationsInv, ScoreAdherence
  PROVE  ObservationsInv'
<1> DEFINE row == [status |-> Score(runs[version], AnalysisEnd, schedule), at |-> AnalysisEnd]
           alerts == { [kind |-> "changed", id |-> version, at |-> row.at, status |-> row.status] }
<1>1. EvidenceTyped /\ RowsAreDrawn /\ NothingLater /\ CycleGoes /\ UserInv
  BY DEF ObservationsInv, EvidenceInv
<1>2. /\ adherence' = [adherence EXCEPT ![version] = row]
      /\ stage = "adherence" /\ stage' = "coverage"
      /\ inbox' = inbox \/ inbox' = Delivered(inbox, alerts)
      /\ UNCHANGED <<now, stored, schedule, version, runs, coverage, watch, upsets>>
  BY DEF ScoreAdherence
<1>3. /\ row \in AdherenceRows /\ row.at \in Times /\ row.status \in Statuses
      /\ row.status = Score(runs[version], AnalysisEnd, schedule)
  BY <1>1, ScoreType, AnalysisEndType DEF AdherenceRows
<1>4. alerts \in SUBSET Keys
  BY <1>1, <1>3 DEF Keys, EvidenceTyped
<1> HIDE DEF row, alerts
<1>5. /\ EvidenceTyped' /\ adherence'[version] = row
      /\ \A v \in Versions : v # version => adherence'[v] = adherence[v]
  BY <1>1, <1>2, <1>3 DEF EvidenceTyped
<1>6. RowsAreDrawn' /\ RunsAreRight'
  BY <1>1, <1>2 DEF RowsAreDrawn, Paid, CycleGoes, RunsAreRight
<1>7. NothingLater'
  BY <1>1, <1>2, <1>5, PayoutsAreTicks DEF NothingLater, EvidenceTyped
<1>8. GradeIsRight'
  <2>1. AnalysisEnd' = AnalysisEnd
    BY <1>2 DEF AnalysisEnd
  <2> QED  BY <1>2, <1>3, <1>5, <2>1, NullIsNoRow DEF GradeIsRight
<1>9. UserInv'
  BY <1>1, <1>2, <1>4, DeliveredType DEF UserInv
<1> QED  BY <1>5, <1>6, <1>7, <1>8, <1>9 DEF ObservationsInv, EvidenceInv, CycleGoes

LEMMA ClassifyCoverageStep ==
  ASSUME ObservationsInv, ClassifyCoverage
  PROVE  /\ ObservationsInv'
         /\ RunsAreRight' /\ GradeIsRight' /\ coverage'[version'] = runs'[version']
<1>1. EvidenceTyped /\ RowsAreDrawn /\ NothingLater /\ CycleGoes /\ UserInv
  BY DEF ObservationsInv, EvidenceInv
<1>2. /\ coverage' = [coverage EXCEPT ![version] = runs[version]]
      /\ stage = "coverage" /\ stage' = "idle"
      /\ UNCHANGED <<now, stored, schedule, version, runs, adherence, watch, inbox, upsets>>
  BY DEF ClassifyCoverage, Persisted
<1>3. /\ EvidenceTyped' /\ coverage'[version] = runs[version]
      /\ \A v \in Versions : v # version => coverage'[v] = coverage[v]
  BY <1>1, <1>2 DEF EvidenceTyped
<1>4. RowsAreDrawn'
  BY <1>1, <1>2, <1>3 DEF RowsAreDrawn, Paid
<1>5. NothingLater'
  BY <1>1, <1>2, <1>3, PayoutsAreTicks DEF NothingLater, EvidenceTyped
<1>6. RunsAreRight' /\ GradeIsRight'
  <2>1. AnalysisEnd' = AnalysisEnd
    BY <1>2 DEF AnalysisEnd
  <2> QED  BY <1>1, <1>2, <2>1 DEF CycleGoes, RunsAreRight, GradeIsRight
<1>7. UserInv'
  BY <1>1, <1>2 DEF UserInv
<1> QED  BY <1>2, <1>3, <1>4, <1>5, <1>6, <1>7 DEF ObservationsInv, EvidenceInv, CycleGoes

(* The steps that leave the tables of the evidence as they are.            *)
EvidenceKept ==
  UNCHANGED <<stored, schedule, version, stage, runs, adherence, coverage>>

LEMMA EvidenceStays ==
  ASSUME EvidenceInv, EvidenceKept, UNCHANGED now
  PROVE  EvidenceInv'
<1> USE DEF EvidenceKept
<1>1. EvidenceTyped' /\ RowsAreDrawn' /\ NothingLater'
  BY DEF EvidenceInv, EvidenceTyped, RowsAreDrawn, Paid, NothingLater
<1>2. AnalysisEnd' = AnalysisEnd
  BY DEF AnalysisEnd
<1>3. CycleGoes'
  BY <1>2 DEF EvidenceInv, CycleGoes, RunsAreRight, GradeIsRight
<1> QED  BY <1>1, <1>3 DEF EvidenceInv

LEMMA UpsetSteps ==
  ASSUME ObservationsInv, Crash \/ Deploy \/ Declare
  PROVE  ObservationsInv'
<1>1. EvidenceTyped /\ RowsAreDrawn /\ NothingLater /\ UserInv
  BY DEF ObservationsInv, EvidenceInv
<1>2. UserInv'
  <2>1. upsets' = upsets + 1 /\ upsets < MaxUpsets /\ UNCHANGED <<watch, inbox>>
    BY DEF Crash, Deploy, Declare
  <2> QED  BY <1>1, <2>1, ObservationsAssumption DEF ObservationsAssumption, UserInv
<1>3. UNCHANGED <<now, stored, runs, adherence, coverage>> /\ stage' = "idle"
  BY DEF Crash, Deploy, Declare
<1>4. /\ version' \in Versions /\ (version' = version \/ version' = version + 1)
      /\ schedule' \in Hours \cup {Null}
  BY <1>1 DEF Crash, Deploy, Declare, EvidenceTyped
<1>5. EvidenceTyped' /\ RowsAreDrawn' /\ CycleGoes'
  BY <1>1, <1>3, <1>4 DEF EvidenceTyped, RowsAreDrawn, Paid, CycleGoes
<1>6. NothingLater'
  BY <1>1, <1>3, <1>4, PayoutsAreTicks DEF NothingLater, EvidenceTyped
<1> QED  BY <1>2, <1>5, <1>6 DEF ObservationsInv, EvidenceInv

LEMMA TickStep ==
  ASSUME ObservationsInv, Tick
  PROVE  ObservationsInv'
<1> USE DEF Tick
<1>1. EvidenceTyped'
  BY ObservationsAssumption
     DEF ObservationsAssumption, ObservationsInv, EvidenceInv, EvidenceTyped, Times
<1>2. RowsAreDrawn' /\ NothingLater' /\ CycleGoes'
  BY DEF ObservationsInv, EvidenceInv, RowsAreDrawn, Paid, NothingLater, CycleGoes
<1>3. UserInv'
  BY DEF ObservationsInv, UserInv
<1> QED  BY <1>1, <1>2, <1>3 DEF ObservationsInv, EvidenceInv

-----------------------------------------------------------------------------
(* The user.                                                               *)

LEMMA WatchStep ==
  ASSUME ObservationsInv, Watch
  PROVE  ObservationsInv'
<1> DEFINE scored == {w \in Versions : adherence[w] # Null}
<1>1. EvidenceInv /\ EvidenceTyped /\ UserInv
  BY DEF ObservationsInv, EvidenceInv
<1>2. EvidenceInv'
  BY <1>1, EvidenceStays DEF Watch, EvidenceKept
<1>3. scored # {} => Max(scored) \in scored
  BY VersionsHaveEnds
<1>4. watch' \in Watches
  <2>1. CASE scored = {}
    <3>1. watch' = [created |-> now, status |-> Null, id |-> 0]
      BY <2>1 DEF Watch, Latest
    <3> QED  BY <1>1, <3>1 DEF EvidenceTyped, Watches
  <2>2. CASE scored # {}
    <3> DEFINE v == Max(scored)
    <3>1. v \in Versions /\ v # Null /\ adherence[v] \in AdherenceRows
      BY <1>1, <1>3, <2>2, NullIsNoRow DEF EvidenceTyped
    <3>2. Latest(scored) = v
      BY <2>2 DEF Latest
    <3> HIDE DEF v
    <3>3. watch' = [created |-> now, status |-> adherence[v].status, id |-> v]
      BY <3>1, <3>2 DEF Watch
    <3> QED  BY <1>1, <3>1, <3>3 DEF EvidenceTyped, Watches, AdherenceRows
  <2> QED  BY <2>1, <2>2
<1>5. UserInv'
  BY <1>1, <1>4 DEF UserInv, Watch
<1> QED  BY <1>2, <1>5 DEF ObservationsInv

LEMMA UnwatchStep ==
  ASSUME ObservationsInv, Unwatch
  PROVE  ObservationsInv'
<1>1. EvidenceInv'
  BY EvidenceStays DEF ObservationsInv, Unwatch, EvidenceKept
<1>2. UserInv'
  BY ObservationsAssumption DEF ObservationsAssumption, ObservationsInv, UserInv, Unwatch
<1> QED  BY <1>1, <1>2 DEF ObservationsInv

(* What was read stays read, and what was told stays.                      *)
Durable(box, after) ==
  \A k \in DOMAIN box : k \in DOMAIN after /\ (box[k] = "read" => after[k] = "read")

(* What is told of a run is told to a watcher, of a payout since.          *)
News(k) ==
  /\ watch # Null
  /\ k.kind = "run" => \E p \in Paid : p >= k.key /\ p >= watch.created

LEMMA AlertsAre ==
  ASSUME ObservationsInv, watch # Null
  PROVE  /\ StatusAlerts(watch) \in SUBSET Keys /\ RunAlerts(watch) \in SUBSET Keys
         /\ \A k \in StatusAlerts(watch) \cup RunAlerts(watch) : News(k)
<1>1. EvidenceTyped /\ RowsAreDrawn
  BY DEF ObservationsInv, EvidenceInv
<1>2. ASSUME NEW k \in StatusAlerts(watch)
      PROVE  k \in Keys /\ News(k)
  <2>1. PICK v \in Unpassed(watch) :
          k = [kind |-> "status", id |-> v, status |-> adherence[v].status]
    BY <1>2 DEF StatusAlerts
  <2>2. v \in Versions /\ adherence[v] \in AdherenceRows
    BY <1>1, <2>1 DEF Unpassed, EvidenceTyped
  <2>3. adherence[v].status \in Statuses
    BY <2>2 DEF AdherenceRows
  <2> QED  BY <2>1, <2>2, <2>3 DEF Keys, News
<1>3. ASSUME NEW k \in RunAlerts(watch)
      PROVE  k \in Keys /\ News(k)
  <2>1. PICK r \in UNION {runs[v] : v \in Versions} :
          Max(r) >= watch.created /\ k = [kind |-> "run", key |-> Key(r)]
    BY <1>3 DEF RunAlerts
  <2>2. r \subseteq Paid /\ r # {}
    BY <1>1, <2>1 DEF RowsAreDrawn, RunRows
  <2>3. r \in SUBSET Times /\ r \in SUBSET Payouts
    BY <1>1, <2>2, PayoutsAreTicks DEF EvidenceTyped, Paid
  <2>4. Max(r) \in r /\ Key(r) \in r /\ Max(r) >= Key(r)
    BY <2>2, <2>3, TicksHaveEnds DEF Key
  <2>5. k \in Keys
    BY <2>1, <2>3, <2>4 DEF Keys
  <2>6. Max(r) \in Paid /\ Max(r) >= k.key /\ Max(r) >= watch.created
    BY <2>1, <2>2, <2>4
  <2> QED  BY <2>5, <2>6 DEF News
<1> QED  BY <1>2, <1>3

LEMMA PassedType ==
  ASSUME ObservationsInv, watch # Null
  PROVE  Passed(watch) \in Watches
<1>1. EvidenceTyped /\ watch \in Watches
  BY DEF ObservationsInv, EvidenceInv, UserInv
<1>2. CASE Unpassed(watch) = {}
  BY <1>1, <1>2 DEF Passed
<1>3. CASE Unpassed(watch) # {}
  <2> DEFINE v == Max(Unpassed(watch))
  <2>1. Unpassed(watch) \in SUBSET Versions
    BY DEF Unpassed
  <2>2. v \in Unpassed(watch)
    BY <1>3, <2>1, VersionsHaveEnds
  <2>3. v \in Versions /\ adherence[v] \in AdherenceRows
    BY <1>1, <2>2 DEF Unpassed, EvidenceTyped
  <2>4. Passed(watch) = [watch EXCEPT !.id = v, !.status = adherence[v].status]
    BY <1>3 DEF Passed
  <2> HIDE DEF v
  <2> QED  BY <1>1, <2>3, <2>4 DEF Watches, AdherenceRows
<1> QED  BY <1>2, <1>3

(* The inbox is made up from box, which is the inbox or one read further.  *)
LEMMA EnsureIs ==
  ASSUME ObservationsInv, NEW box, InboxOK(box), EnsureUserAlerts(box)
  PROVE  /\ watch' \in Watches \cup {Null} /\ InboxOK(inbox')
         /\ Durable(box, inbox')
         /\ \A k \in DOMAIN inbox' \ DOMAIN box : News(k)
<1>1. CASE watch = Null
  BY <1>1 DEF EnsureUserAlerts, Durable
<1>2. CASE watch # Null
  <2> DEFINE keys == StatusAlerts(watch) \cup RunAlerts(watch)
  <2>1. inbox' = Delivered(box, keys) /\ watch' = Passed(watch)
    BY <1>2 DEF EnsureUserAlerts
  <2>2. keys \in SUBSET Keys /\ \A k \in keys : News(k)
    BY <1>2, AlertsAre
  <2> HIDE DEF keys
  <2>3. /\ DOMAIN inbox' = DOMAIN box \cup keys
        /\ \A k \in DOMAIN box : inbox'[k] = box[k]
    BY <2>1, DeliveredIs
  <2>4. watch' \in Watches
    BY <1>2, <2>1, PassedType
  <2>5. InboxOK(inbox')
    BY <2>1, <2>2, DeliveredType
  <2>6. Durable(box, inbox')
    BY <2>3 DEF Durable
  <2>7. \A k \in DOMAIN inbox' \ DOMAIN box : News(k)
    BY <2>3, <2>2
  <2> QED  BY <2>4, <2>5, <2>6, <2>7
<1> QED  BY <1>1, <1>2

InboxSteps == Durable(inbox, inbox') /\ \A k \in DOMAIN inbox' \ DOMAIN inbox : News(k)

LEMMA ReadInboxStep ==
  ASSUME ObservationsInv, ReadInbox
  PROVE  ObservationsInv' /\ InboxSteps
<1>1. EvidenceInv'
  BY EvidenceStays DEF ObservationsInv, ReadInbox, EvidenceKept
<1>2. InboxOK(inbox) /\ EnsureUserAlerts(inbox) /\ upsets' = upsets
  BY DEF ObservationsInv, UserInv, ReadInbox
<1>3. watch' \in Watches \cup {Null} /\ InboxOK(inbox') /\ InboxSteps
  BY <1>2, EnsureIs DEF InboxSteps
<1> QED  BY <1>1, <1>2, <1>3 DEF ObservationsInv, UserInv

LEMMA MarkReadStep ==
  ASSUME ObservationsInv, MarkRead
  PROVE  ObservationsInv' /\ InboxSteps
<1>1. EvidenceInv'
  BY EvidenceStays DEF ObservationsInv, MarkRead, EvidenceKept
<1>2. PICK k \in DOMAIN inbox : EnsureUserAlerts([inbox EXCEPT ![k] = "read"])
  BY DEF MarkRead
<1> DEFINE box == [inbox EXCEPT ![k] = "read"]
<1>3. DOMAIN box = DOMAIN inbox /\ \A j \in DOMAIN inbox : box[j] \in {"read", inbox[j]}
  OBVIOUS
<1>4. EnsureUserAlerts(box)
  BY <1>2
<1> HIDE DEF box
<1>5. InboxOK(box)
  BY <1>3 DEF InboxOK, ObservationsInv, UserInv
<1>6. /\ watch' \in Watches \cup {Null} /\ InboxOK(inbox')
      /\ Durable(box, inbox') /\ \A j \in DOMAIN inbox' \ DOMAIN box : News(j)
  BY <1>4, <1>5, EnsureIs
<1>7. InboxSteps
  BY <1>3, <1>6 DEF InboxSteps, Durable
<1>8. upsets' = upsets
  BY DEF MarkRead
<1> QED  BY <1>1, <1>6, <1>7, <1>8 DEF ObservationsInv, UserInv

LEMMA MarkAllReadStep ==
  ASSUME ObservationsInv, MarkAllRead
  PROVE  ObservationsInv' /\ InboxSteps
<1>1. EvidenceInv'
  BY EvidenceStays DEF ObservationsInv, MarkAllRead, EvidenceKept
<1>2. InboxOK(inbox') /\ InboxSteps
  BY DEF ObservationsInv, UserInv, MarkAllRead, InboxOK, InboxSteps, Durable
<1> QED  BY <1>1, <1>2 DEF ObservationsInv, UserInv, MarkAllRead

LEMMA ScoreTells ==
  ASSUME ObservationsInv, ScoreAdherence
  PROVE  InboxSteps
<1> DEFINE row == [status |-> Score(runs[version], AnalysisEnd, schedule), at |-> AnalysisEnd]
           alerts == { [kind |-> "changed", id |-> version, at |-> row.at, status |-> row.status] }
<1>1. inbox' = inbox \/ (watch # Null /\ inbox' = Delivered(inbox, alerts))
  BY DEF ScoreAdherence
<1>2. \A k \in alerts : k.kind = "changed"
  OBVIOUS
<1> HIDE DEF alerts
<1>3. CASE inbox' = inbox
  BY <1>3 DEF InboxSteps, Durable
<1>4. CASE watch # Null /\ inbox' = Delivered(inbox, alerts)
  <2>1. /\ DOMAIN inbox' = DOMAIN inbox \cup alerts
        /\ \A k \in DOMAIN inbox : inbox'[k] = inbox[k]
    BY <1>4, DeliveredIs
  <2>2. Durable(inbox, inbox')
    BY <2>1 DEF Durable
  <2>3. \A k \in DOMAIN inbox' \ DOMAIN inbox : News(k)
    BY <1>2, <1>4, <2>1 DEF News
  <2> QED  BY <2>2, <2>3 DEF InboxSteps
<1> QED  BY <1>1, <1>3, <1>4

-----------------------------------------------------------------------------
(* The whole.                                                              *)

LEMMA ObservationsStep == ObservationsInv /\ [ObservationsNext]_observationsVars => ObservationsInv'
<1> SUFFICES ASSUME ObservationsInv, [ObservationsNext]_observationsVars PROVE ObservationsInv'
  OBVIOUS
<1>1. ASSUME NEW ps \in SUBSET Payouts, Store(ps) PROVE ObservationsInv'
  BY <1>1, StoreStep
<1>2. CASE ClassifyRuns
  BY <1>2, ClassifyRunsStep
<1>3. CASE ScoreAdherence
  BY <1>3, ScoreAdherenceStep
<1>4. CASE ClassifyCoverage
  BY <1>4, ClassifyCoverageStep
<1>5. CASE Crash \/ Deploy \/ Declare
  BY <1>5, UpsetSteps
<1>6. CASE Watch
  BY <1>6, WatchStep
<1>7. CASE Unwatch
  BY <1>7, UnwatchStep
<1>8. CASE ReadInbox
  BY <1>8, ReadInboxStep
<1>9. CASE MarkRead
  BY <1>9, MarkReadStep
<1>10. CASE MarkAllRead
  BY <1>10, MarkAllReadStep
<1>11. CASE Tick
  BY <1>11, TickStep
<1>12. CASE UNCHANGED observationsVars
  <2>1. EvidenceInv'
    BY <1>12, EvidenceStays DEF observationsVars, ObservationsInv, EvidenceKept
  <2> QED  BY <1>12, <2>1 DEF observationsVars, ObservationsInv, UserInv
<1> QED  BY <1>1, <1>2, <1>3, <1>4, <1>5, <1>6, <1>7, <1>8, <1>9, <1>10, <1>11, <1>12
         DEF ObservationsNext

LEMMA InboxStep ==
  ObservationsInv /\ [ObservationsNext]_observationsVars => InboxSteps
<1> SUFFICES ASSUME ObservationsInv, [ObservationsNext]_observationsVars PROVE InboxSteps
  OBVIOUS
<1>1. CASE ScoreAdherence
  BY <1>1, ScoreTells
<1>2. CASE ReadInbox \/ MarkRead \/ MarkAllRead
  BY <1>2, ReadInboxStep, MarkReadStep, MarkAllReadStep
<1>3. CASE UNCHANGED inbox
  BY <1>3 DEF InboxSteps, Durable
<1>4. ScoreAdherence \/ ReadInbox \/ MarkRead \/ MarkAllRead \/ UNCHANGED inbox
  BY DEF ObservationsNext, Store, ClassifyRuns, ClassifyCoverage, Crash, Deploy, Declare,
         Watch, Unwatch, Tick, observationsVars
<1> QED  BY <1>1, <1>2, <1>3, <1>4

(* The invariant holds: each write of a cycle puts its table right.        *)
THEOREM ObservationsInvariant == ObservationsSpec => []ObservationsInv
BY ObservationsStart, ObservationsStep, PTL DEF ObservationsSpec

(* The tables, the watch and the inbox have the form they are declared     *)
(* with, and no two rows of a version have one key                         *)
(* (persistPayoutRuns, persistRecipientCoverage).                          *)
THEOREM ObservationsTypeCorrect == ObservationsSpec => []ObservationsTypeOK
<1>1. ObservationsInv => ObservationsTypeOK
  <2> SUFFICES ASSUME ObservationsInv PROVE ObservationsTypeOK
    OBVIOUS
  <2>1. EvidenceTyped /\ RowsAreDrawn /\ UserInv
    BY DEF ObservationsInv, EvidenceInv
  <2>2. Paid \subseteq Payouts
    BY <2>1 DEF EvidenceTyped, Paid
  <2>3. ASSUME NEW v \in Versions
        PROVE  /\ runs[v] \subseteq (SUBSET Payouts) \ {{}}
               /\ coverage[v] \subseteq (SUBSET Payouts) \ {{}}
               /\ \A r, s \in runs[v] : Key(r) = Key(s) => r = s
               /\ \A r, s \in coverage[v] : Key(r) = Key(s) => r = s
    <3>1. RunRows(runs[v], Paid) /\ RunRows(coverage[v], Paid)
      BY <2>1 DEF RowsAreDrawn
    <3>2. \A r \in runs[v] : r \subseteq Paid /\ r # {}
      BY <3>1 DEF RunRows
    <3>3. \A r \in coverage[v] : r \subseteq Paid /\ r # {}
      BY <3>1 DEF RunRows
    <3>4. ASSUME NEW r, r \subseteq Paid, r # {} PROVE r \in (SUBSET Payouts) \ {{}}
      <4>1. r \subseteq Payouts
        BY <2>2, <3>4
      <4> QED  BY <3>4, <4>1
    <3>5. runs[v] \subseteq (SUBSET Payouts) \ {{}} /\ coverage[v] \subseteq (SUBSET Payouts) \ {{}}
      BY <3>2, <3>3, <3>4
    <3> QED  BY <3>1, <3>5 DEF RunRows
  <2> QED  BY <2>1, <2>3 DEF ObservationsTypeOK, EvidenceTyped, UserInv, InboxOK
<1> QED  BY <1>1, ObservationsInvariant, PTL

(* No alert is taken back or comes back as unread (insertAlert).           *)
THEOREM InboxStays == ObservationsSpec => InboxIsDurable
<1>1. InboxSteps => \A k \in DOMAIN inbox :
                      k \in DOMAIN inbox' /\ (inbox[k] = "read" => inbox'[k] = "read")
  BY DEF InboxSteps, Durable
<1> QED  BY <1>1, InboxStep, ObservationsInvariant, PTL DEF InboxIsDurable, ObservationsSpec

(* Only a watcher is told, of payouts no older than the watch              *)
(* (deriveWatchedValidatorAlerts, persistScheduleAdherence).               *)
THEOREM OnlyNewsIsTold == ObservationsSpec => NewsIsNew
<1>1. InboxSteps =>
        \A k \in DOMAIN inbox' \ DOMAIN inbox :
          /\ watch # Null
          /\ k.kind = "run" =>
               \E p \in stored \ Failed : p >= k.key /\ p >= watch.created
  BY DEF InboxSteps, News, Paid
<1> QED  BY <1>1, InboxStep, ObservationsInvariant, PTL DEF NewsIsNew, ObservationsSpec

(* What is shown when the last write of a cycle is done.                   *)
CycleIsDone == RunsAreRight /\ GradeIsRight /\ coverage[version] = runs[version]

LEMMA LatestIs ==
  ASSUME EvidenceInv, NEW vs \in SUBSET Versions, \A v \in vs : ~(v > version)
  PROVE  /\ version \in vs => Latest(vs) = version
         /\ vs = {} => Latest(vs) = Null
<1>1. ASSUME version \in vs PROVE Latest(vs) = version
  <2>1. Max(vs) \in vs /\ \A m \in vs : m <= Max(vs)
    BY <1>1, VersionsHaveEnds
  <2>2. Max(vs) = version
    BY <1>1, <2>1, PayoutsAreTicks
  <2> QED  BY <1>1, <2>2 DEF Latest
<1> QED  BY <1>1 DEF Latest

LEMMA RowsShown ==
  ASSUME EvidenceInv, NEW rows \in [Versions -> SUBSET SUBSET Payouts],
         \A v \in Versions : RunRows(rows[v], Paid) /\ (v > version => rows[v] = {}),
         rows[version] = GroupPayoutRuns(Paid)
  PROVE  LET v == Latest({w \in Versions : rows[w] # {}})
         IN  IF v = Null THEN rows[version] = {}
                         ELSE v = version
<1> DEFINE vs == {w \in Versions : rows[w] # {}}
<1>1. version \in Versions /\ version # Null /\ Paid \in SUBSET Payouts /\ Paid \in SUBSET Times
  BY NullIsNoRow, PayoutsAreTicks DEF EvidenceInv, EvidenceTyped, Paid
<1>2. vs \in SUBSET Versions /\ \A v \in vs : ~(v > version)
  OBVIOUS
<1>3. CASE rows[version] # {}
  <2>1. Latest(vs) = version
    BY <1>1, <1>2, <1>3, LatestIs
  <2> QED  BY <1>1, <2>1
<1>4. CASE rows[version] = {}
  <2>1. UNION GroupPayoutRuns(Paid) = Paid
    BY <1>1, RunsPartition DEF IsPartition
  <2>2. Paid = {}
    BY <1>4, <2>1
  <2>3. vs = {}
    BY <2>2 DEF RunRows
  <2>4. Latest(vs) = Null
    BY <1>2, <2>3, LatestIs
  <2> QED  BY <1>4, <2>4
<1> QED  BY <1>3, <1>4

LEMMA DoneAgrees == ObservationsInv /\ CycleIsDone => EvidenceAgrees
<1> SUFFICES ASSUME ObservationsInv, CycleIsDone PROVE EvidenceAgrees
  OBVIOUS
<1> DEFINE agreed == GroupPayoutRuns(Paid)
<1>1. EvidenceInv /\ EvidenceTyped /\ RowsAreDrawn /\ NothingLater
  BY DEF ObservationsInv, EvidenceInv
<1>2. /\ runs[version] = agreed /\ coverage[version] = agreed
      /\ adherence[version] # Null
      /\ adherence[version].status = Score(agreed, AnalysisEnd, schedule)
  BY DEF CycleIsDone, RunsAreRight, GradeIsRight, Executed, Paid
<1>3. version \in Versions /\ version # Null /\ Paid \in SUBSET Times
  BY <1>1, NullIsNoRow, PayoutsAreTicks DEF EvidenceTyped, Paid
<1>4. ShownRuns = agreed
  <2>1. LET v == Latest({w \in Versions : runs[w] # {}})
        IN  IF v = Null THEN runs[version] = {} ELSE v = version
    BY <1>1, <1>2, RowsShown DEF EvidenceTyped, RowsAreDrawn, NothingLater
  <2> QED  BY <1>2, <2>1 DEF ShownRuns
<1>5. ShownCoverage = agreed
  <2>1. LET v == Latest({w \in Versions : coverage[w] # {}})
        IN  IF v = Null THEN coverage[version] = {} ELSE v = version
    BY <1>1, <1>2, RowsShown DEF EvidenceTyped, RowsAreDrawn, NothingLater
  <2> QED  BY <1>2, <1>4, <2>1 DEF ShownCoverage
<1>6. ShownStatus = Score(agreed, AnalysisEnd, schedule)
  <2> DEFINE vs == {w \in Versions : adherence[w] # Null}
  <2>1. vs \in SUBSET Versions /\ version \in vs /\ \A v \in vs : ~(v > version)
    BY <1>1, <1>2, <1>3 DEF NothingLater
  <2>2. Latest(vs) = version
    BY <1>1, <2>1, LatestIs
  <2> QED  BY <1>2, <1>3, <2>2 DEF ShownStatus
<1> HIDE DEF agreed
<1>7. /\ UNION agreed = Paid
      /\ \A r, s \in agreed : r = s \/ r \cap s = {}
      /\ \A p, q \in Paid : Follows(p, q, Paid) =>
           ((\E r \in agreed : {p, q} \subseteq r) <=> q - p <= Window)
  BY <1>3, RunsPartition DEF IsPartition, agreed
<1> QED  BY <1>4, <1>5, <1>6, <1>7 DEF EvidenceAgrees, Follows, Paid

(* One whole cycle puts the evidence right, whatever was left by those     *)
(* before, other versions of the code included.                            *)
THEOREM CyclesRepair == ObservationsSpec => CycleRepairs
<1>1. ObservationsInv /\ ClassifyCoverage => ObservationsInv' /\ CycleIsDone'
  BY ClassifyCoverageStep DEF CycleIsDone
<1> QED  BY <1>1, DoneAgrees, ObservationsInvariant, PTL DEF CycleRepairs, ObservationsSpec
=============================================================================
