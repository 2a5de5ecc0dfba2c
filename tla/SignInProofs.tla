---------------------------- MODULE SignInProofs ----------------------------
(***************************************************************************)
(* Proofs about SignIn, for any number of wallets, browsers, challenges    *)
(* and pairings, and any lifetimes.                                        *)
(***************************************************************************)
EXTENDS SignIn, TLAPS

-----------------------------------------------------------------------------
(* TypeOK alone is not inductive: a claim hands out the address of an      *)
(* approved pairing, so an approved pairing must have one.                 *)
OpenPairings ==
  \A p \in PairIds :
    pairings[p] # None =>
      /\ pairings[p].status \in {"waiting", "approved"} => pairings[p].claimedAt = None
      /\ pairings[p].status = "approved" =>
           /\ pairings[p].address # None
           /\ pairings[p].approvedAt # None /\ pairings[p].approvedAt <= now

TypeInv == TypeOK /\ OpenPairings

(* A session of a wallet, new or renewed, is well typed.                   *)
LEMMA SessionType ==
  ASSUME now \in Nat, NEW a \in Wallets
  PROVE  NewSession(a) \in Sessions
BY SignInAssumption DEF NewSession, Sessions

LEMMA RenewedType ==
  ASSUME now \in Nat, NEW s \in Sessions
  PROVE  Renewed(s) \in Sessions /\ Renewed(s).address = s.address
BY SignInAssumption DEF Renewed, NewSession, Sessions

(* Whether the answer arrives or is lost, cookies stay well typed.         *)
LEMMA ReceiveType ==
  ASSUME TypeOK, NEW b \in Browsers, NEW s \in Sessions, Receive(b, s)
  PROVE  /\ cookie' \in [Browsers -> Sessions \cup {None}]
         /\ lastUse' \in [Browsers -> Times]
         /\ \A d \in Browsers : cookie'[d] = cookie[d] \/ cookie'[d] = s
BY DEF TypeOK, Receive

(* A step from a well typed state leads to a well typed state.             *)
LEMMA TypeStep ==
  ASSUME TypeInv, [Next]_vars
  PROVE  TypeInv'
<1> USE SignInAssumption
<1>0. now \in Nat /\ now \in Times
  BY DEF TypeInv, TypeOK, Times
<1>1. ASSUME NEW b \in Browsers, UseSession(b) PROVE TypeInv'
  <2>1. Renewed(cookie[b]) \in Sessions
    BY <1>0, <1>1, RenewedType DEF UseSession, SignedIn, TypeInv, TypeOK
  <2>2. QED
    BY <1>1, <2>1, ReceiveType DEF UseSession, TypeInv, TypeOK, OpenPairings
<1>2. ASSUME NEW c \in ChallengeIds, NEW w \in Wallets, Challenge(c, w) PROVE TypeInv'
  <2>1. [address |-> w, expiresAt |-> now + ChallengeTTL, usedAt |-> None] \in Challenges
    BY <1>0 DEF Challenges
  <2>2. QED
    BY <1>2, <2>1 DEF Challenge, TypeInv, TypeOK, OpenPairings
<1>3. ASSUME NEW c \in ChallengeIds, NEW w \in Wallets, SignChallenge(w, c) PROVE TypeInv'
  BY <1>3 DEF SignChallenge, TypeInv, TypeOK, OpenPairings
<1>4. ASSUME NEW b \in Browsers, NEW w \in Wallets, NEW c \in ChallengeIds, Verify(b, w, c)
      PROVE TypeInv'
  <2>1. challenges[c] \in Challenges /\ challenges[c].address \in Wallets
    BY <1>4 DEF Verify, Proves, TypeInv, TypeOK, Challenges
  <2>2. NewSession(challenges[c].address) \in Sessions
    BY <1>0, <2>1, SessionType
  <2>3. [challenges[c] EXCEPT !.usedAt = now] \in Challenges
    BY <1>0, <2>1 DEF Challenges
  <2>4. challenges' = [challenges EXCEPT ![c] = [challenges[c] EXCEPT !.usedAt = now]]
    BY <1>4 DEF Verify
  <2>5. challenges' \in [ChallengeIds -> Challenges \cup {None}]
    BY <2>3, <2>4 DEF TypeInv, TypeOK
  <2>6. /\ cookie' \in [Browsers -> Sessions \cup {None}]
        /\ lastUse' \in [Browsers -> Times]
    BY <1>4, <2>2, ReceiveType DEF Verify, TypeInv
  <2>7. /\ users' \in SUBSET Wallets
        /\ grants' \in SUBSET ((ChallengeIds \cup PairIds) \X Browsers \X Wallets)
    BY <1>4, <2>1 DEF Verify, TypeInv, TypeOK
  <2>8. QED
    BY <1>4, <2>5, <2>6, <2>7 DEF Verify, TypeInv, TypeOK, OpenPairings
<1>5. ASSUME NEW p \in PairIds, OpenPairing(p) PROVE TypeInv'
  <2>1. [ status |-> "waiting", address |-> None, expiresAt |-> now + PairTTL,
          approvedAt |-> None, claimedAt |-> None ] \in Pairings
    BY <1>0 DEF Pairings
  <2>2. QED
    BY <1>5, <2>1 DEF OpenPairing, TypeInv, TypeOK, OpenPairings
<1>6. ASSUME NEW p \in PairIds, PollPairing(p) \/ ClaimLate(p) PROVE TypeInv'
  <2>1. pairings[p] \in Pairings
    BY <1>6 DEF PollPairing, ClaimLate, TypeInv, TypeOK
  <2>2. [pairings[p] EXCEPT !.status = "expired"] \in Pairings
    BY <2>1 DEF Pairings
  <2>3. pairings' = [pairings EXCEPT ![p] = [pairings[p] EXCEPT !.status = "expired"]]
    BY <1>6 DEF PollPairing, ClaimLate
  <2>4. TypeOK'
    BY <1>6, <2>2, <2>3 DEF PollPairing, ClaimLate, TypeInv, TypeOK
  <2>5. OpenPairings'
    BY <1>6, <2>1, <2>2, <2>3
    DEF PollPairing, ClaimLate, TypeInv, TypeOK, OpenPairings, Pairings
  <2>6. QED
    BY <2>4, <2>5 DEF TypeInv
<1>7. ASSUME NEW b \in Browsers, NEW p \in PairIds, Approve(b, p) PROVE TypeInv'
  <2>1. pairings[p] \in Pairings /\ cookie[b] \in Sessions
    BY <1>7 DEF Approve, SignedIn, TypeInv, TypeOK
  <2>2. /\ cookie' \in [Browsers -> Sessions \cup {None}]
        /\ lastUse' \in [Browsers -> Times]
    BY <1>0, <1>7, <2>1, RenewedType, ReceiveType DEF Approve, TypeInv
  <2> DEFINE late == [pairings[p] EXCEPT !.status = "expired"]
             row  == [pairings[p] EXCEPT !.status = "approved", !.address = cookie[b].address,
                                         !.approvedAt = now]
  <2>3. late \in Pairings /\ late.status = "expired"
    BY <2>1 DEF Pairings
  <2>4. row \in Pairings /\ row.address # None /\ row.approvedAt = now
    BY <1>0, <2>1 DEF Pairings, Sessions
  <2>5. row.claimedAt = pairings[p].claimedAt
    BY <2>1 DEF Pairings
  <2>6. CASE pairings' = [pairings EXCEPT ![p] = late]
    BY <1>7, <2>2, <2>3, <2>6 DEF Approve, TypeInv, TypeOK, OpenPairings
  <2>7. CASE /\ pairings[p].status \in {"waiting", "approved"}
             /\ pairings' = [pairings EXCEPT ![p] = row]
    <3>1. row.claimedAt = None /\ row.approvedAt <= now
      BY <1>0, <1>7, <2>4, <2>5, <2>7 DEF Approve, TypeInv, OpenPairings
    <3>2. TypeOK'
      BY <1>7, <2>2, <2>4, <2>7 DEF Approve, TypeInv, TypeOK
    <3>3. now' = now /\ row.address # None /\ row.approvedAt # None
      BY <1>0, <1>7, <2>4 DEF Approve
    <3>4. OpenPairings'
      BY <2>7, <3>1, <3>3 DEF TypeInv, TypeOK, OpenPairings
    <3>5. QED
      BY <3>2, <3>4 DEF TypeInv
  <2>8. QED
    BY <1>7, <2>6, <2>7 DEF Approve
<1>8. ASSUME NEW b \in Browsers, NEW p \in PairIds, Claim(b, p) PROVE TypeInv'
  <2>1. pairings[p] \in Pairings /\ pairings[p].address \in Wallets
    BY <1>8 DEF Claim, TypeInv, TypeOK, OpenPairings, Pairings
  <2>2. NewSession(pairings[p].address) \in Sessions
    BY <1>0, <2>1, SessionType
  <2>3. /\ cookie' \in [Browsers -> Sessions \cup {None}]
        /\ lastUse' \in [Browsers -> Times]
    BY <1>8, <2>2, ReceiveType DEF Claim, TypeInv
  <2> DEFINE row == [pairings[p] EXCEPT !.status = "claimed", !.claimedAt = now]
  <2>4. row \in Pairings /\ row.status = "claimed"
    BY <1>0, <2>1 DEF Pairings
  <2>5. pairings' = [pairings EXCEPT ![p] = row]
    BY <1>8 DEF Claim
  <2>6. grants' \in SUBSET ((ChallengeIds \cup PairIds) \X Browsers \X Wallets)
    BY <1>8, <2>1 DEF Claim, TypeInv, TypeOK
  <2>7. TypeOK'
    BY <1>8, <2>3, <2>4, <2>5, <2>6 DEF Claim, TypeInv, TypeOK
  <2>8. OpenPairings'
    BY <1>8, <2>4, <2>5 DEF Claim, TypeInv, TypeOK, OpenPairings
  <2>9. QED
    BY <2>7, <2>8 DEF TypeInv
<1>9. CASE Tick
  BY <1>0, <1>9 DEF Tick, Times, TypeInv, TypeOK, OpenPairings, Pairings
<1>10. CASE UNCHANGED vars
  BY <1>10 DEF vars, TypeInv, TypeOK, OpenPairings
<1>11. QED
  BY <1>1, <1>2, <1>3, <1>4, <1>5, <1>6, <1>7, <1>8, <1>9, <1>10 DEF Next

(* The types, with what an open pairing carries, hold throughout.          *)
THEOREM TypeInvariant == Spec => []TypeInv
<1>1. Init => TypeInv
  BY SignInAssumption DEF Init, TypeInv, TypeOK, OpenPairings, Times
<1>2. QED
  BY <1>1, TypeStep, PTL DEF Spec

(* Every variable keeps its type.                                          *)
THEOREM TypeCorrect == Spec => []TypeOK
BY TypeInvariant, PTL DEF TypeInv

-----------------------------------------------------------------------------
(* Identity.  Sessions are handed on by pairings and by renewal, so what   *)
(* is claimed of cookies has to hold of the addresses in pairings too.     *)
Known == {a \in users : Proved(a)}

CookiesKnown ==
  \A b \in Browsers : cookie[b] # None => cookie[b].address \in Known

PairingsKnown ==
  \A p \in PairIds :
    pairings[p] # None /\ pairings[p].address # None => pairings[p].address \in Known

IdentityInv == CookiesKnown /\ PairingsKnown

(* No step takes a proof back: used challenges and signatures stay.        *)
LEMMA ProvedKept ==
  ASSUME TypeInv, [Next]_vars, NEW a \in Wallets, Proved(a)
  PROVE  Proved(a)'
<1>1. PICK c \in ChallengeIds : /\ challenges[c] # None
                               /\ challenges[c].address = a
                               /\ challenges[c].usedAt # None
                               /\ <<a, c>> \in signed
  BY DEF Proved
<1>2. challenges'[c] = challenges[c]
  <2>1. ASSUME NEW d \in ChallengeIds, NEW w \in Wallets, Challenge(d, w)
        PROVE challenges'[c] = challenges[c]
    BY <1>1, <2>1 DEF Challenge, TypeInv, TypeOK
  <2>2. ASSUME NEW b \in Browsers, NEW w \in Wallets, NEW d \in ChallengeIds, Verify(b, w, d)
        PROVE challenges'[c] = challenges[c]
    BY <1>1, <2>2 DEF Verify, Proves, TypeInv, TypeOK
  <2>3. QED
    BY <2>1, <2>2 DEF Next, UseSession, SignChallenge, OpenPairing, PollPairing,
       ClaimLate, Approve, Claim, Tick, vars
<1>3. signed \subseteq signed'
  BY DEF Next, UseSession, Challenge, SignChallenge, Verify, OpenPairing,
     PollPairing, ClaimLate, Approve, Claim, Tick, vars
<1>4. QED
  BY <1>1, <1>2, <1>3 DEF Proved

(* Every session and every pairing keeps to addresses that were proved.    *)
LEMMA IdentityStep ==
  ASSUME TypeInv, IdentityInv, [Next]_vars
  PROVE  IdentityInv'
<1>1. Known \subseteq Known'
  <2>1. users \subseteq users'
    BY DEF Next, UseSession, Challenge, SignChallenge, Verify, OpenPairing,
       PollPairing, ClaimLate, Approve, Claim, Tick, vars
  <2>2. \A a \in Known : Proved(a)'
    BY ProvedKept DEF Known, TypeInv, TypeOK
  <2>3. QED
    BY <2>1, <2>2 DEF Known
<1>2. /\ \A b \in Browsers : cookie[b] # None => cookie[b].address \in Known'
      /\ \A p \in PairIds : pairings[p] # None /\ pairings[p].address # None =>
                           pairings[p].address \in Known'
  BY <1>1 DEF IdentityInv, CookiesKnown, PairingsKnown
<1>3. ASSUME UNCHANGED cookie PROVE CookiesKnown'
  BY <1>2, <1>3 DEF CookiesKnown
<1>4. ASSUME UNCHANGED pairings PROVE PairingsKnown'
  BY <1>2, <1>4 DEF PairingsKnown
<1>5. ASSUME NEW b \in Browsers, NEW s \in Sessions, Receive(b, s), s.address \in Known'
      PROVE  CookiesKnown'
  <2>1. \A d \in Browsers : cookie'[d] = cookie[d] \/ cookie'[d] = s
    BY <1>5, ReceiveType DEF TypeInv
  <2>2. QED
    BY <1>2, <1>5, <2>1 DEF CookiesKnown
<1>6. ASSUME NEW b \in Browsers, UseSession(b) PROVE IdentityInv'
  <2>1. cookie[b] \in Sessions /\ cookie[b].address \in Known
    BY <1>6 DEF UseSession, SignedIn, TypeInv, TypeOK, IdentityInv, CookiesKnown
  <2>2. /\ Renewed(cookie[b]) \in Sessions
        /\ Renewed(cookie[b]).address = cookie[b].address
    BY <2>1, RenewedType DEF TypeInv, TypeOK, Times
  <2>3. CookiesKnown'
    BY <1>1, <1>5, <1>6, <2>1, <2>2 DEF UseSession
  <2>4. QED
    BY <1>4, <1>6, <2>3 DEF UseSession, IdentityInv
<1>7. ASSUME NEW b \in Browsers, NEW w \in Wallets, NEW c \in ChallengeIds, Verify(b, w, c)
      PROVE IdentityInv'
  <2>1. challenges[c] \in Challenges /\ challenges[c].address = w /\ now \in Nat /\ now # None
    BY <1>7, SignInAssumption DEF Verify, Proves, TypeInv, TypeOK, Times
  <2>2. challenges' = [challenges EXCEPT ![c] = [challenges[c] EXCEPT !.usedAt = now]]
    BY <1>7 DEF Verify
  <2>3. [challenges[c] EXCEPT !.usedAt = now] \in Challenges
    BY <2>1 DEF TypeInv, TypeOK, Challenges
  <2>4. challenges'[c] # None /\ challenges'[c].address = w /\ challenges'[c].usedAt # None
    BY <2>1, <2>2, <2>3, SignInAssumption DEF Challenges, TypeInv, TypeOK
  <2>5. <<w, c>> \in signed' /\ w \in users'
    BY <1>7, <2>1 DEF Verify, Proves
  <2>6. w \in Known'
    BY <2>4, <2>5 DEF Proved, Known
  <2>7. NewSession(w) \in Sessions /\ NewSession(w).address = w
    BY <2>1, SessionType DEF NewSession
  <2>8. CookiesKnown'
    BY <1>5, <1>7, <2>1, <2>6, <2>7 DEF Verify
  <2>9. QED
    BY <1>4, <1>7, <2>8 DEF Verify, IdentityInv
<1>8. ASSUME NEW p \in PairIds, OpenPairing(p) PROVE IdentityInv'
  <2>1. PairingsKnown'
    BY <1>2, <1>8 DEF PairingsKnown, OpenPairing, TypeInv, TypeOK
  <2>2. CookiesKnown'
    BY <1>3, <1>8 DEF OpenPairing
  <2>3. QED
    BY <2>1, <2>2 DEF IdentityInv
<1>9. ASSUME NEW p \in PairIds, pairings[p] # None,
              pairings' = [pairings EXCEPT ![p].status = "expired"]
       PROVE  PairingsKnown'
  <2>1. \A q \in PairIds : pairings'[q] # None =>
                            pairings[q] # None /\ pairings'[q].address = pairings[q].address
    BY <1>9 DEF TypeInv, TypeOK, Pairings
  <2>2. QED
    BY <1>2, <2>1 DEF PairingsKnown
<1>10. ASSUME NEW p \in PairIds, PollPairing(p) \/ ClaimLate(p) PROVE IdentityInv'
  <2>1. CookiesKnown'
    BY <1>3, <1>10 DEF PollPairing, ClaimLate
  <2>2. QED
    BY <1>9, <1>10, <2>1 DEF PollPairing, ClaimLate, IdentityInv
<1>11. ASSUME NEW b \in Browsers, NEW p \in PairIds, Approve(b, p) PROVE IdentityInv'
  <2>1. cookie[b] \in Sessions /\ cookie[b].address \in Known /\ pairings[p] \in Pairings
    BY <1>11 DEF Approve, SignedIn, TypeInv, TypeOK, IdentityInv, CookiesKnown
  <2>2. /\ Renewed(cookie[b]) \in Sessions
        /\ Renewed(cookie[b]).address = cookie[b].address
    BY <2>1, RenewedType DEF TypeInv, TypeOK, Times
  <2>3. CookiesKnown'
    BY <1>1, <1>5, <1>11, <2>1, <2>2 DEF Approve
  <2> DEFINE row == [pairings[p] EXCEPT !.status = "approved", !.address = cookie[b].address,
                                        !.approvedAt = now]
  <2>4. CASE pairings' = [pairings EXCEPT ![p] = row]
    <3>1. row.address = cookie[b].address
      BY <2>1 DEF Pairings
    <3>2. \A q \in PairIds : pairings'[q] = IF q = p THEN row ELSE pairings[q]
      BY <2>4 DEF TypeInv, TypeOK
    <3>3. row.address \in Known'
      BY <1>1, <2>1, <3>1
    <3>4. PairingsKnown'
      BY <1>2, <3>2, <3>3 DEF PairingsKnown
    <3>5. QED
      BY <2>3, <3>4 DEF IdentityInv
  <2>5. CASE pairings' = [pairings EXCEPT ![p].status = "expired"]
    <3>1. pairings[p] # None
      BY <1>11 DEF Approve
    <3>2. PairingsKnown'
      BY <1>9, <2>5, <3>1
    <3>3. QED
      BY <2>3, <3>2 DEF IdentityInv
  <2>6. QED
    BY <1>11, <2>4, <2>5 DEF Approve
<1>12. ASSUME NEW b \in Browsers, NEW p \in PairIds, Claim(b, p) PROVE IdentityInv'
  <2>1. /\ pairings[p] \in Pairings /\ pairings[p].address \in Known
        /\ pairings[p].address \in Wallets
    BY <1>12 DEF Claim, TypeInv, TypeOK, OpenPairings, IdentityInv, PairingsKnown, Pairings
  <2>2. /\ NewSession(pairings[p].address) \in Sessions
        /\ NewSession(pairings[p].address).address = pairings[p].address
    BY <2>1, SessionType DEF NewSession, TypeInv, TypeOK, Times
  <2>3. CookiesKnown'
    BY <1>1, <1>5, <1>12, <2>1, <2>2 DEF Claim
  <2>4. \A q \in PairIds : pairings'[q] # None =>
                            pairings[q] # None /\ pairings'[q].address = pairings[q].address
    BY <1>12, <2>1 DEF Claim, TypeInv, TypeOK, Pairings
  <2>5. PairingsKnown'
    BY <1>2, <2>4 DEF PairingsKnown
  <2>6. QED
    BY <2>3, <2>5 DEF IdentityInv
<1>13. QED
  BY <1>3, <1>4, <1>6, <1>7, <1>8, <1>10, <1>11, <1>12
  DEF IdentityInv, Next, Challenge, SignChallenge, Tick, vars

(* Every session is of an address whose wallet proved it.                  *)
THEOREM SessionsAreProved == Spec => []SessionIsProved
<1>1. Init => IdentityInv
  BY DEF Init, IdentityInv, CookiesKnown, PairingsKnown
<1>2. TypeInv /\ IdentityInv /\ [Next]_vars => IdentityInv'
  BY IdentityStep
<1>3. IdentityInv => SessionIsProved
  BY DEF IdentityInv, CookiesKnown, Known, SessionIsProved
<1>4. QED
  BY <1>1, <1>2, <1>3, TypeInvariant, PTL DEF Spec

-----------------------------------------------------------------------------
(* Grants.  What was handed out leaves its mark on the row it was handed   *)
(* out for, and a marked row is refused.                                   *)
GrantsMarked ==
  \A g \in grants :
    /\ g[1] \in ChallengeIds => /\ challenges[g[1]] # None
                                /\ challenges[g[1]].usedAt # None
    /\ g[1] \in PairIds => /\ pairings[g[1]] # None
                           /\ pairings[g[1]].claimedAt # None

GrantInv == GrantsMarked /\ OneSessionPerGrant

(* A mark stays.                                                           *)
LEMMA MarksKept ==
  ASSUME TypeInv, [Next]_vars
  PROVE  /\ \A c \in ChallengeIds :
              challenges[c] # None /\ challenges[c].usedAt # None =>
                challenges'[c] # None /\ challenges'[c].usedAt # None
         /\ \A p \in PairIds :
              pairings[p] # None /\ pairings[p].claimedAt # None =>
                pairings'[p] # None /\ pairings'[p].claimedAt # None
<1> USE SignInAssumption DEF TypeInv, TypeOK
<1>1. ASSUME NEW c \in ChallengeIds, challenges[c] # None, challenges[c].usedAt # None
      PROVE  challenges'[c] = challenges[c]
  BY <1>1 DEF Next, UseSession, Challenge, SignChallenge, Verify, Proves, OpenPairing,
     PollPairing, ClaimLate, Approve, Claim, Tick, vars
<1>2. ASSUME NEW p \in PairIds, pairings[p] # None, pairings[p].claimedAt # None
      PROVE  pairings'[p] # None /\ pairings'[p].claimedAt # None
  <2>1. pairings[p] \in Pairings
    BY <1>2
  <2>2. /\ [pairings[p] EXCEPT !.status = "expired"] \in Pairings
        /\ [pairings[p] EXCEPT !.status = "expired"].claimedAt = pairings[p].claimedAt
    BY <2>1 DEF Pairings
  <2>3. ~(pairings[p].status \in {"waiting", "approved"})
    BY <1>2 DEF OpenPairings
  <2>4. \/ pairings'[p] = pairings[p]
        \/ pairings'[p] = [pairings[p] EXCEPT !.status = "expired"]
    BY <1>2, <2>3 DEF Next, UseSession, Challenge, SignChallenge, Verify, OpenPairing,
       PollPairing, ClaimLate, Approve, Claim, Tick, vars
  <2>5. QED
    BY <1>2, <2>2, <2>4
<1>3. QED
  BY <1>1, <1>2

(* A new grant is for a row without a mark, and marks it.                  *)
LEMMA GrantStep ==
  ASSUME TypeInv, GrantInv, [Next]_vars
  PROVE  GrantInv'
<1> USE SignInAssumption DEF TypeInv, TypeOK, GrantInv
<1>1. ASSUME UNCHANGED grants PROVE GrantInv'
  <2>1. \A g \in grants : g[1] \in ChallengeIds \cup PairIds
    OBVIOUS
  <2>2. GrantsMarked'
    BY <1>1, <2>1, MarksKept DEF GrantsMarked
  <2>3. QED
    BY <1>1, <2>2 DEF OneSessionPerGrant
<1>2. ASSUME NEW b \in Browsers, NEW w \in Wallets, NEW c \in ChallengeIds, Verify(b, w, c)
      PROVE GrantInv'
  <2>1. challenges[c] \in Challenges /\ challenges[c].usedAt = None
    BY <1>2 DEF Verify, Proves
  <2>2. \A g \in grants : g[1] # c
    BY <2>1 DEF GrantsMarked
  <2> DEFINE new == <<c, b, challenges[c].address>>
             row == [challenges[c] EXCEPT !.usedAt = now]
  <2>3. grants' = grants \cup {new} /\ new[1] = c /\ c \notin PairIds
    BY <1>2 DEF Verify
  <2>4. row \in Challenges /\ row.usedAt # None /\ challenges'[c] = row
    BY <1>2, <2>1 DEF Verify, Challenges, Times
  <2>5. GrantsMarked'
    BY <2>3, <2>4, MarksKept DEF GrantsMarked
  <2>6. OneSessionPerGrant'
    BY <2>2, <2>3 DEF OneSessionPerGrant
  <2>7. QED
    BY <2>5, <2>6
<1>3. ASSUME NEW b \in Browsers, NEW p \in PairIds, Claim(b, p)
      PROVE GrantInv'
  <2>1. pairings[p] \in Pairings /\ pairings[p].claimedAt = None
    BY <1>3 DEF Claim, OpenPairings
  <2>2. \A g \in grants : g[1] # p
    BY <2>1 DEF GrantsMarked
  <2> DEFINE new == <<p, b, pairings[p].address>>
             row == [pairings[p] EXCEPT !.status = "claimed", !.claimedAt = now]
  <2>3. grants' = grants \cup {new} /\ new[1] = p /\ p \notin ChallengeIds
    BY <1>3 DEF Claim
  <2>4. row \in Pairings /\ row.claimedAt # None /\ pairings'[p] = row
    BY <1>3, <2>1 DEF Claim, Pairings, Times
  <2>5. GrantsMarked'
    BY <2>3, <2>4, MarksKept DEF GrantsMarked
  <2>6. OneSessionPerGrant'
    BY <2>2, <2>3 DEF OneSessionPerGrant
  <2>7. QED
    BY <2>5, <2>6
<1>4. QED
  BY <1>1, <1>2, <1>3 DEF Next, UseSession, Challenge, SignChallenge, OpenPairing,
     PollPairing, ClaimLate, Approve, Tick, vars

(* A challenge and a pairing each yield one session at most.               *)
THEOREM GrantsAreSingle == Spec => []OneSessionPerGrant
<1>1. Init => GrantInv
  BY DEF Init, GrantInv, GrantsMarked, OneSessionPerGrant
<1>2. TypeInv /\ GrantInv /\ [Next]_vars => GrantInv'
  BY GrantStep
<1>3. QED
  BY <1>1, <1>2, TypeInvariant, PTL DEF Spec, GrantInv

-----------------------------------------------------------------------------
(* Renewal.  An answered request leaves more than half of the lifetime.    *)
HalfLeft ==
  \A b \in Browsers : cookie[b] # None => 2 * (cookie[b].exp - lastUse[b]) > SessionTTL

(* Every session a request is answered with has more than half left.       *)
LEMMA HalfLeftStep ==
  ASSUME TypeInv, HalfLeft, [Next]_vars
  PROVE  HalfLeft'
<1> USE SignInAssumption DEF TypeInv, TypeOK, Times
<1>1. ASSUME UNCHANGED <<cookie, lastUse>> PROVE HalfLeft'
  BY <1>1 DEF HalfLeft
<1>2. ASSUME NEW b \in Browsers, NEW s \in Sessions, Receive(b, s),
             2 * (s.exp - now) > SessionTTL
      PROVE  HalfLeft'
  BY <1>2 DEF HalfLeft, Receive
<1>3. ASSUME NEW a \in Wallets
      PROVE  NewSession(a) \in Sessions /\ 2 * (NewSession(a).exp - now) > SessionTTL
  BY DEF NewSession, Sessions
<1>4. ASSUME NEW s \in Sessions
      PROVE  Renewed(s) \in Sessions /\ 2 * (Renewed(s).exp - now) > SessionTTL
  <2>1. s.address \in Wallets /\ s.exp \in Nat
    BY <1>4 DEF Sessions
  <2>2. QED
    BY <1>3, <1>4, <2>1 DEF Renewed
<1>5. ASSUME NEW b \in Browsers, SignedIn(b), Receive(b, Renewed(cookie[b])) PROVE HalfLeft'
  BY <1>2, <1>4, <1>5 DEF SignedIn
<1>6. ASSUME NEW b \in Browsers, NEW w \in Wallets, NEW c \in ChallengeIds, Verify(b, w, c)
      PROVE  HalfLeft'
  BY <1>2, <1>3, <1>6 DEF Verify, Proves
<1>7. ASSUME NEW b \in Browsers, NEW p \in PairIds, Claim(b, p)
      PROVE  HalfLeft'
  <2>1. pairings[p].address \in Wallets
    BY <1>7 DEF Claim, OpenPairings, Pairings
  <2>2. QED
    BY <1>2, <1>3, <1>7, <2>1 DEF Claim
<1>8. QED
  BY <1>1, <1>5, <1>6, <1>7 DEF Next, UseSession, Challenge, SignChallenge, OpenPairing,
     PollPairing, ClaimLate, Approve, Tick, vars

(* A browser in regular use stays signed in.                               *)
THEOREM RenewalKeepsSignedIn == Spec => []RegularUseStaysSignedIn
<1>1. Init => HalfLeft
  BY DEF Init, HalfLeft
<1>2. TypeInv /\ HalfLeft /\ [Next]_vars => HalfLeft'
  BY HalfLeftStep
<1>3. TypeInv /\ HalfLeft => RegularUseStaysSignedIn
  BY SignInAssumption
  DEF TypeInv, TypeOK, Times, Sessions, HalfLeft, RegularUseStaysSignedIn, SignedIn
<1>4. QED
  BY <1>1, <1>2, <1>3, TypeInvariant, PTL DEF Spec
-----------------------------------------------------------------------------
(* Time.  GrantsInTime, one challenge and one pairing at a time.           *)
UsedInTime(c) ==
  challenges[c] # None /\ challenges[c].usedAt # None =>
    challenges[c].usedAt <= challenges[c].expiresAt

ClaimedInTime(p) ==
  pairings[p] # None /\ pairings[p].claimedAt # None =>
    /\ pairings[p].approvedAt # None
    /\ pairings[p].approvedAt <= pairings[p].claimedAt
    /\ pairings[p].claimedAt <= pairings[p].expiresAt

(* A challenge is marked with the clock it was judged by, and then kept.   *)
LEMMA UsedInTimeStep ==
  ASSUME TypeInv, [Next]_vars, NEW c \in ChallengeIds, UsedInTime(c)
  PROVE  UsedInTime(c)'
<1> USE SignInAssumption DEF UsedInTime
<1>1. ASSUME NEW a \in Wallets, NEW d \in ChallengeIds, Challenge(d, a)
      PROVE UsedInTime(c)'
  BY <1>1 DEF Challenge, TypeInv, TypeOK
<1>2. ASSUME NEW b \in Browsers, NEW w \in Wallets, NEW d \in ChallengeIds, Verify(b, w, d)
      PROVE UsedInTime(c)'
  <2>1. CASE c = d
    <3>1. challenges[c] \in Challenges /\ challenges[c].expiresAt >= now
      BY <1>2, <2>1 DEF Verify, Proves, TypeInv, TypeOK
    <3>2. challenges'[c] = [challenges[c] EXCEPT !.usedAt = now]
      BY <1>2, <2>1 DEF Verify, TypeInv, TypeOK
    <3>3. challenges'[c].usedAt = now /\ challenges'[c].expiresAt = challenges[c].expiresAt
      BY <3>1, <3>2 DEF Challenges
    <3>4. QED
      BY <3>1, <3>3 DEF TypeInv, TypeOK, Times, Challenges
  <2>2. CASE c # d
    BY <1>2, <2>2 DEF Verify, TypeInv, TypeOK
  <2>3. QED
    BY <2>1, <2>2
<1>3. ASSUME UNCHANGED challenges PROVE UsedInTime(c)'
  BY <1>3
<1>4. QED
  BY <1>1, <1>2, <1>3 DEF Next, UseSession, SignChallenge, OpenPairing, PollPairing,
     ClaimLate, Approve, Claim, Tick, vars

(* A pairing is claimed after its approval and before its expiry, and what *)
(* was claimed is at most marked expired.                                  *)
LEMMA ClaimedInTimeStep ==
  ASSUME TypeInv, [Next]_vars, NEW p \in PairIds, ClaimedInTime(p)
  PROVE  ClaimedInTime(p)'
<1> USE SignInAssumption DEF ClaimedInTime
<1> DEFINE Marked(q) == pairings' = [pairings EXCEPT ![q].status = "expired"]
<1>1. ASSUME NEW q \in PairIds, OpenPairing(q) PROVE ClaimedInTime(p)'
  BY <1>1 DEF OpenPairing, TypeInv, TypeOK
<1>2. ASSUME NEW q \in PairIds, pairings[q] # None, Marked(q) PROVE ClaimedInTime(p)'
  BY <1>2 DEF TypeInv, TypeOK, Pairings
<1>3. ASSUME NEW b \in Browsers, NEW q \in PairIds, Approve(b, q), InTime(q)
      PROVE ClaimedInTime(p)'
  <2>1. pairings[q].claimedAt = None
    BY <1>3 DEF Approve, TypeInv, OpenPairings
  <2>2. QED
    BY <1>3, <2>1 DEF Approve, TypeInv, TypeOK, Pairings
<1>4. ASSUME NEW b \in Browsers, NEW q \in PairIds, Claim(b, q)
      PROVE ClaimedInTime(p)'
  <2>1. CASE p = q
    <3>1. /\ pairings[p] \in Pairings /\ pairings[p].expiresAt >= now
          /\ pairings[p].approvedAt # None /\ pairings[p].approvedAt <= now
      BY <1>4, <2>1 DEF Claim, InTime, TypeInv, TypeOK, OpenPairings
    <3>2. pairings'[p] = [pairings[p] EXCEPT !.status = "claimed", !.claimedAt = now]
      BY <1>4, <2>1 DEF Claim, TypeInv, TypeOK
    <3>3. /\ pairings'[p].claimedAt = now
          /\ pairings'[p].approvedAt = pairings[p].approvedAt
          /\ pairings'[p].expiresAt = pairings[p].expiresAt
      BY <3>1, <3>2 DEF Pairings
    <3>4. QED
      BY <3>1, <3>3 DEF TypeInv, TypeOK, Times, Pairings
  <2>2. CASE p # q
    BY <1>4, <2>2 DEF Claim, TypeInv, TypeOK
  <2>3. QED
    BY <2>1, <2>2
<1>5. ASSUME UNCHANGED pairings PROVE ClaimedInTime(p)'
  BY <1>5
<1>6. QED
  BY <1>1, <1>2, <1>3, <1>4, <1>5 DEF Next, UseSession, Challenge, SignChallenge, Verify,
     PollPairing, ClaimLate, Approve, Tick, vars

(* A challenge is used within its time, a pairing is claimed within its    *)
(* time and after its approval.                                            *)
THEOREM GrantsAreInTime == Spec => []GrantsInTime
<1>1. Init => GrantsInTime
  BY DEF Init, GrantsInTime
<1>2. TypeInv /\ GrantsInTime /\ [Next]_vars => GrantsInTime'
  <2> SUFFICES ASSUME TypeInv, GrantsInTime, [Next]_vars PROVE GrantsInTime'
    OBVIOUS
  <2>1. \A c \in ChallengeIds : UsedInTime(c)'
    BY UsedInTimeStep DEF GrantsInTime, UsedInTime
  <2>2. \A p \in PairIds : ClaimedInTime(p)'
    BY ClaimedInTimeStep DEF GrantsInTime, ClaimedInTime
  <2>3. QED
    BY <2>1, <2>2 DEF GrantsInTime, UsedInTime, ClaimedInTime
<1>3. QED
  BY <1>1, <1>2, TypeInvariant, PTL DEF Spec
=============================================================================
