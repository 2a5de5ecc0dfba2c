------------------------------- MODULE SignIn -------------------------------
(***************************************************************************)
(* Sign-in and sessions (server/src/auth.ts): a wallet signs a single-use  *)
(* challenge and its browser gets a session cookie; a desktop browser      *)
(* without a wallet opens a pairing, a phone with a session approves it,   *)
(* and whoever claims it gets a session of the phone's address; a session  *)
(* in use is renewed.                                                      *)
(*                                                                         *)
(* No handler awaits anything, so each is one action.  Sessions are signed *)
(* cookies: the server keeps none, a cookie lives in the browser the       *)
(* answer reached, and a restart of the server loses nothing.  An answer   *)
(* may be lost on its way to the browser; the tables have changed then.    *)
(***************************************************************************)
EXTENDS Integers

CONSTANTS
  Wallets,      \* Nimiq addresses, each with the key pair that owns it
  Browsers,
  ChallengeIds, \* the uuids challenges and pairings may draw
  PairIds,
  None,
  ChallengeTTL, \* DEFAULT_CHALLENGE_TTL_MS, in ticks
  PairTTL,      \* DEFAULT_DESKTOP_PAIR_TTL_MS
  SessionTTL,   \* DEFAULT_SESSION_TTL_MS
  MaxTime       \* bound: the last tick

Times == 0 .. MaxTime

Challenges == [address : Wallets, expiresAt : Nat, usedAt : Times \cup {None}]

Pairings == [ status     : {"waiting", "approved", "claimed", "expired"},
              address    : Wallets \cup {None},
              expiresAt  : Nat,
              approvedAt : Times \cup {None},
              claimedAt  : Times \cup {None} ]

Sessions == [address : Wallets, exp : Nat]

ASSUME SignInAssumption ==
  /\ None \notin Wallets \cup Browsers \cup Nat
  /\ None \notin Challenges \cup Pairings \cup Sessions
  /\ ChallengeIds \cap PairIds = {}
  /\ ChallengeTTL \in Nat /\ PairTTL \in Nat
  /\ SessionTTL \in Nat \ {0} /\ MaxTime \in Nat

VARIABLES
  now,
  challenges, \* table auth_challenges: id -> row, or None
  pairings,   \* table desktop_pairings: id -> row, or None
  users,      \* table users: the addresses of its rows
  signed,     \* (wallet, challenge): the wallet signed the challenge's message
  cookie,     \* browser -> the session it holds, or None
  lastUse,    \* history: when a browser's last answered request was made
  grants      \* history: (challenge or pairing, browser, address) of the
              \* sessions that were handed out for it

vars == <<now, challenges, pairings, users, signed, cookie, lastUse, grants>>

Init ==
  /\ now = 0
  /\ challenges = [c \in ChallengeIds |-> None]
  /\ pairings = [p \in PairIds |-> None]
  /\ users = {}
  /\ signed = {}
  /\ cookie = [b \in Browsers |-> None]
  /\ lastUse = [b \in Browsers |-> 0]
  /\ grants = {}

-----------------------------------------------------------------------------
(* readSession                                                             *)
SignedIn(b) == cookie[b] # None /\ cookie[b].exp >= now

(* setSessionCookie                                                        *)
NewSession(a) == [address |-> a, exp |-> now + SessionTTL]

(* Mutant: the comparison the wrong way round.                             *)
RenewedEarly(s) == IF 2 * (s.exp - now) > SessionTTL THEN NewSession(s.address) ELSE s

(* maybeRefreshSession                                                     *)
Renewed(s) == IF 2 * (s.exp - now) <= SessionTTL THEN NewSession(s.address) ELSE s

(* The answer to b carries session s: it arrives, or it is lost.           *)
Receive(b, s) ==
  \/ /\ cookie' = [cookie EXCEPT ![b] = s]
     /\ lastUse' = [lastUse EXCEPT ![b] = now]
  \/ UNCHANGED <<cookie, lastUse>>

(* requireAuth, optionalAuth and GET /api/me, in front of any handler.     *)
UseSession(b) ==
  /\ SignedIn(b)
  /\ Receive(b, Renewed(cookie[b]))
  /\ UNCHANGED <<now, challenges, pairings, users, signed, grants>>

-----------------------------------------------------------------------------
(* POST /api/auth/challenge: any address may be challenged by anyone.      *)
Challenge(c, a) ==
  /\ challenges[c] = None
  /\ challenges' = [challenges EXCEPT
       ![c] = [address |-> a, expiresAt |-> now + ChallengeTTL, usedAt |-> None]]
  /\ UNCHANGED <<now, pairings, users, signed, cookie, lastUse, grants>>

(* A wallet signs the message of a challenge, whether its own or not.      *)
SignChallenge(w, c) ==
  /\ challenges[c] # None
  /\ signed' = signed \cup {<<w, c>>}
  /\ UNCHANGED <<now, challenges, pairings, users, cookie, lastUse, grants>>

(* Mutants: the owner of the key is not compared with the address that was *)
(* challenged; the challenge is not marked as used.                        *)
ProvesAnyKey(w, c) ==
  /\ challenges[c] # None /\ challenges[c].usedAt = None
  /\ challenges[c].expiresAt >= now
  /\ <<w, c>> \in signed

ProvesAgain(w, c) ==
  /\ challenges[c] # None
  /\ challenges[c].expiresAt >= now
  /\ <<w, c>> \in signed
  /\ challenges[c].address = w

(* What verify asks of its challenge and of the key that signed it.        *)
Proves(w, c) ==
  /\ challenges[c] # None /\ challenges[c].usedAt = None
  /\ challenges[c].expiresAt >= now
  /\ <<w, c>> \in signed
  /\ challenges[c].address = w

(* POST /api/auth/verify with the signature of wallet w.                   *)
Verify(b, w, c) ==
  /\ Proves(w, c)
  /\ challenges' = [challenges EXCEPT ![c].usedAt = now]
  /\ users' = users \cup {challenges[c].address}
  /\ grants' = grants \cup {<<c, b, challenges[c].address>>}
  /\ Receive(b, NewSession(challenges[c].address))
  /\ UNCHANGED <<now, pairings, signed>>

-----------------------------------------------------------------------------
(* POST /api/auth/desktop-pair                                             *)
OpenPairing(p) ==
  /\ pairings[p] = None
  /\ pairings' = [pairings EXCEPT
       ![p] = [ status |-> "waiting", address |-> None, expiresAt |-> now + PairTTL,
                approvedAt |-> None, claimedAt |-> None ]]
  /\ UNCHANGED <<now, challenges, users, signed, cookie, lastUse, grants>>

InTime(p) == pairings[p].expiresAt >= now

(* GET /api/auth/desktop-pair/:pairId                                      *)
PollPairing(p) ==
  /\ pairings[p] # None /\ ~InTime(p)
  /\ pairings[p].status \in {"waiting", "approved"}
  /\ pairings' = [pairings EXCEPT ![p].status = "expired"]
  /\ UNCHANGED <<now, challenges, users, signed, cookie, lastUse, grants>>

(* POST /api/auth/desktop-pair/approve by the session of b.  A pairing     *)
(* that was approved and not claimed yet may be approved anew.  A late     *)
(* approve or claim marks the pairing expired, a claimed one too.          *)
Approve(b, p) ==
  /\ SignedIn(b) /\ pairings[p] # None
  /\ Receive(b, Renewed(cookie[b]))
  /\ IF ~InTime(p)
     THEN pairings' = [pairings EXCEPT ![p].status = "expired"]
     ELSE /\ pairings[p].status \in {"waiting", "approved"}
          /\ pairings' = [pairings EXCEPT ![p].status = "approved",
                                          ![p].address = cookie[b].address,
                                          ![p].approvedAt = now]
  /\ UNCHANGED <<now, challenges, users, signed, grants>>

ClaimLate(p) ==
  /\ pairings[p] # None /\ ~InTime(p)
  /\ pairings' = [pairings EXCEPT ![p].status = "expired"]
  /\ UNCHANGED <<now, challenges, users, signed, cookie, lastUse, grants>>

(* Mutants: a claim does not look at the clock; it leaves the pairing      *)
(* approved.                                                               *)

ClaimAnyTime(b, p) ==
  /\ pairings[p] # None
  /\ pairings[p].status = "approved"
  /\ pairings' = [pairings EXCEPT ![p].status = "claimed", ![p].claimedAt = now]
  /\ grants' = grants \cup {<<p, b, pairings[p].address>>}
  /\ Receive(b, NewSession(pairings[p].address))
  /\ UNCHANGED <<now, challenges, users, signed>>

ClaimAgain(b, p) ==
  /\ pairings[p] # None /\ InTime(p)
  /\ pairings[p].status = "approved"
  /\ pairings' = [pairings EXCEPT ![p].claimedAt = now]
  /\ grants' = grants \cup {<<p, b, pairings[p].address>>}
  /\ Receive(b, NewSession(pairings[p].address))
  /\ UNCHANGED <<now, challenges, users, signed>>

(* POST /api/auth/desktop-pair/claim                                       *)
Claim(b, p) ==
  /\ pairings[p] # None /\ InTime(p)
  /\ pairings[p].status = "approved"
  /\ pairings' = [pairings EXCEPT ![p].status = "claimed", ![p].claimedAt = now]
  /\ grants' = grants \cup {<<p, b, pairings[p].address>>}
  /\ Receive(b, NewSession(pairings[p].address))
  /\ UNCHANGED <<now, challenges, users, signed>>

Tick ==
  /\ now < MaxTime
  /\ now' = now + 1
  /\ UNCHANGED <<challenges, pairings, users, signed, cookie, lastUse, grants>>

Next ==
  \/ \E b \in Browsers : UseSession(b)
  \/ \E c \in ChallengeIds, w \in Wallets : Challenge(c, w) \/ SignChallenge(w, c)
  \/ \E b \in Browsers, w \in Wallets, c \in ChallengeIds : Verify(b, w, c)
  \/ \E p \in PairIds : OpenPairing(p) \/ PollPairing(p) \/ ClaimLate(p)
  \/ \E b \in Browsers, p \in PairIds : Approve(b, p) \/ Claim(b, p)
  \/ Tick

Spec == Init /\ [][Next]_vars

-----------------------------------------------------------------------------
TypeOK ==
  /\ now \in Times
  /\ challenges \in [ChallengeIds -> Challenges \cup {None}]
  /\ pairings \in [PairIds -> Pairings \cup {None}]
  /\ users \in SUBSET Wallets
  /\ signed \in SUBSET (Wallets \X ChallengeIds)
  /\ cookie \in [Browsers -> Sessions \cup {None}]
  /\ lastUse \in [Browsers -> Times]
  /\ grants \in SUBSET ((ChallengeIds \cup PairIds) \X Browsers \X Wallets)

(* The address of wallet a was proved: a signed a challenge of its own,    *)
(* and that challenge was used up.                                         *)
Proved(a) ==
  \E c \in ChallengeIds : /\ challenges[c] # None
                          /\ challenges[c].address = a
                          /\ challenges[c].usedAt # None
                          /\ <<a, c>> \in signed

(* Client-supplied address is not identity: every session there is, got by *)
(* a signature, by a pairing or by renewal of any length, is of an address *)
(* whose wallet signed a challenge of its own, and has its users row.      *)
SessionIsProved ==
  \A b \in Browsers :
    cookie[b] # None => Proved(cookie[b].address) /\ cookie[b].address \in users

(* A challenge and a pairing each yield one session at most, whichever     *)
(* requests are repeated, answers lost or approvals renewed.               *)
OneSessionPerGrant == \A g, h \in grants : g[1] = h[1] => g = h

(* A challenge is used within its time; a pairing is claimed within its    *)
(* time, and never before it was approved.                                 *)
GrantsInTime ==
  /\ \A c \in ChallengeIds :
       challenges[c] # None /\ challenges[c].usedAt # None =>
         challenges[c].usedAt <= challenges[c].expiresAt
  /\ \A p \in PairIds :
       pairings[p] # None /\ pairings[p].claimedAt # None =>
         /\ pairings[p].approvedAt # None
         /\ pairings[p].approvedAt <= pairings[p].claimedAt
         /\ pairings[p].claimedAt <= pairings[p].expiresAt

(* A browser whose last request was answered no more than half of the      *)
(* lifetime ago is still signed in: rolling renewal never lets a session   *)
(* in regular use lapse.                                                   *)
RegularUseStaysSignedIn ==
  \A b \in Browsers :
    cookie[b] # None /\ 2 * (now - lastUse[b]) <= SessionTTL => SignedIn(b)
=============================================================================
