---------------------------- MODULE WalletSession ----------------------------
(***************************************************************************)
(* The session of the wallet in one browser tab: the hook useWallet        *)
(* (client/src/wallet/useWallet.ts), the wallet facade it calls            *)
(* (client/src/nimiq.ts), the return from a redirect to the Hub            *)
(* (hubLoginRedirect.ts, hubRedirectParse.ts), the stored session          *)
(* (session.ts) and the QR code that links a desktop                       *)
(* (components/OpenInNimiqPayQr.tsx).                                      *)
(*                                                                         *)
(* The tab runs one callback at a time.  A login is a chain of awaits: of  *)
(* the wallet's dialogs, of the server; between two of them the user, a    *)
(* timer, another login or a reload may come.  Reactive state and refs are *)
(* gone with the page; sessionStorage, the URL and the cookie are not.     *)
(***************************************************************************)
EXTENDS Naturals, FiniteSets

CONSTANTS
  None,
  Wallets,      \* addresses the user may sign in with
  Devices,      \* a subset of {"pay", "mobile", "desktop"}
  HubDevices,   \* those on which connect is called with useRedirect
  PairDevices,  \* those whose QR code somebody approves on a phone
  MaxLoads      \* bound: page loads and pairs, together

(* StoredSession: the token is there unless the session was paired.        *)
Sessions == [address : Wallets, token : BOOLEAN]

ASSUME WalletAssumption ==
  /\ None \notin Wallets \cup Sessions
  /\ Devices \subseteq {"pay", "mobile", "desktop"}
  /\ HubDevices \subseteq Devices \ {"pay"}
  /\ PairDevices \subseteq Devices \ {"pay"}
  /\ MaxLoads \in Nat

VARIABLES
  device,      \* where the tab runs; isNimiqPayHost, isMobileDevice
  page,        \* how far boot is, or "hub" while the user is at the Hub
  cookie,      \* the wallet of the server session, or None
  stored,      \* sessionStorage: [address, token], or None
  address,     \* state: the address shown, or None
  connecting,  \* state
  status,      \* state: walletStatus, or None
  flight,      \* refs: which of hubConnectInFlight, connectInFlight are set
  deeplink,    \* refs payDeeplinkPending and payDeeplinkLeftPage
  timer,       \* the deeplink fallback is scheduled
  url,         \* the Hub's answer in the URL, or None
  requests,    \* sessionStorage rpcRequests: [command, wallet], or None
  login,       \* the logins in flight
  auto,        \* the automatic login inside Nimiq Pay
  skip,        \* ref skipPayAutoConnect
  pair,        \* the pair behind the QR code: [status, by], or None
  claim,       \* the claim of a pair
  granted,     \* history: wallets the server gave this browser a session for
  loads

walletVars == <<device, page, cookie, stored, address, connecting, status, flight,
                deeplink, timer, url, requests, login, auto, skip, pair, claim,
                granted, loads>>

shell == <<device, granted, loads>>
hub   == <<url, requests>>
qr    == <<pair, claim>>

(* "hub" continues a redirect; the other two are activations of connect.   *)
Logins == {"user", "auto", "hub"}

NoLogin == [pc |-> "idle", wallet |-> None]

Stored(w, t) == [address |-> w, token |-> t]

(* The button of DisconnectedHome cannot be pressed.                       *)
Busy == connecting \/ status \notin {None, "handoff"}

-----------------------------------------------------------------------------
(* The URL and the requests of the Hub.                                    *)

(* isOrphanedHubRedirectReturn *)
Orphaned == url # None /\ requests = None

(* A page load forgets everything but the storage, the URL and the cookie. *)
Load ==
  /\ page' = "boot" /\ address' = None
  /\ connecting' = FALSE /\ status' = None /\ flight' = {}
  /\ deeplink' = "none" /\ timer' = FALSE
  /\ login' = [l \in Logins |-> NoLogin]
  /\ auto' = "idle" /\ skip' = FALSE
  /\ pair' = None /\ claim' = "none"

WalletInit ==
  /\ device \in Devices
  /\ page = "boot" /\ cookie = None /\ stored = None /\ address = None
  /\ connecting = FALSE /\ status = None /\ flight = {}
  /\ deeplink = "none" /\ timer = FALSE
  /\ url = None /\ requests = None
  /\ login = [l \in Logins |-> NoLogin]
  /\ auto = "idle" /\ skip = FALSE
  /\ pair = None /\ claim = "none"
  /\ granted = {} /\ loads = 0

(* Reload, of a page whatever it is doing.                                 *)
Reload ==
  /\ page # "hub" /\ loads < MaxLoads
  /\ loads' = loads + 1
  /\ Load
  /\ UNCHANGED <<device, cookie, stored, hub, granted>>

-----------------------------------------------------------------------------
(* boot                                                                    *)

(* The stored session is shown before the server is asked about it.        *)
BootSession ==
  /\ page = "boot"
  /\ address' = IF stored = None THEN None ELSE stored.address
  /\ page' = IF stored # None /\ stored.token THEN "me" ELSE "setup"
  /\ UNCHANGED <<shell, cookie, stored, connecting, status, flight, deeplink, timer, hub,
                 login, auto, skip, qr>>

(* authApi.me: any failure, of the network too, ends the session.          *)
MeAnswers(ok) ==
  /\ page = "me"
  /\ ok => cookie # None
  /\ page' = "setup"
  /\ IF ok THEN UNCHANGED <<stored, address>> ELSE stored' = None /\ address' = None
  /\ UNCHANGED <<shell, cookie, connecting, status, flight, deeplink, timer, hub, login,
                 auto, skip, qr>>

(* setupHubRedirectHandlers and processLenientHubRedirect: the answer is   *)
(* taken out of the URL first; an address goes on to a challenge, a        *)
(* signature to its verification, without boot waiting for either.         *)
Setup ==
  /\ page = "setup"
  /\ page' = "ready"
  /\ url' = None
  /\ requests' = IF Orphaned THEN None ELSE requests
  /\ login' = IF url = None \/ requests = None \/ ~url.ok THEN login
              ELSE [login EXCEPT !["hub"] =
                      [ pc     |-> IF requests.command = "choose" THEN "hub-challenge"
                                                                  ELSE "hub-verify",
                        wallet |-> url.wallet ]]
  /\ UNCHANGED <<shell, cookie, stored, address, connecting, status, flight, deeplink, timer,
                 auto, skip, qr>>

-----------------------------------------------------------------------------
(* connect                                                                 *)

(* The end of connect, its finally: the button comes back unless the Hub   *)
(* or the deeplink still has the login.                                    *)
Finally(f, d) ==
  IF "hub" \notin f /\ d = "none"
    THEN flight' = f \ {"connect"} /\ connecting' = FALSE
    ELSE flight' = f /\ UNCHANGED connecting

(* Nothing else has a login under way: start one.                          *)
Start(l, redirect) ==
  \/ /\ redirect
     /\ page' = "hub" /\ connecting' = TRUE /\ status' = "redirecting"
     /\ flight' = {"hub", "connect"} /\ deeplink' = "none" /\ timer' = FALSE
     /\ requests' = [command |-> "choose", wallet |-> None]
     /\ UNCHANGED <<url, login>>
  \/ /\ ~redirect /\ device = "pay"
     /\ connecting' = TRUE /\ status' = "prompt"
     /\ flight' = {"connect"} /\ deeplink' = "none" /\ timer' = FALSE
     /\ login' = [login EXCEPT ![l] = [pc |-> "accounts", wallet |-> None]]
     /\ UNCHANGED <<page, hub>>
  \/ /\ ~redirect /\ device = "mobile"
     /\ connecting' = TRUE /\ status' = "opening"
     /\ flight' = {"connect"} /\ deeplink' = "pending" /\ timer' = TRUE
     /\ UNCHANGED <<page, login, hub>>
  \/ /\ ~redirect /\ device = "desktop"
     /\ connecting' = FALSE /\ status' = None
     /\ flight' = {} /\ deeplink' = "none" /\ timer' = FALSE
     /\ UNCHANGED <<page, login, hub>>

(* connect, up to its first await: it only says so when a redirect, or a   *)
(* deeplink that is still open, has the login already.                     *)
BeginConnect(l, redirect) ==
  IF "hub" \in flight \/ (url # None /\ ~Orphaned) \/ ("connect" \in flight /\ deeplink # "none")
    THEN /\ connecting' = TRUE
         /\ status' = IF "hub" \in flight \/ url # None THEN "redirecting"
                      ELSE IF status = None THEN "in-progress" ELSE status
         /\ UNCHANGED <<page, flight, deeplink, timer, hub, login>>
    ELSE Start(l, redirect)

(* The user asks to connect; inside Pay and on a phone there is a button.  *)
(* Bound: one login at a time by hand.                                     *)
Connect(redirect) ==
  /\ page = "ready" /\ address = None
  /\ ~Busy /\ login["user"] = NoLogin
  /\ redirect => device \in HubDevices
  /\ BeginConnect("user", redirect)
  /\ UNCHANGED <<shell, cookie, stored, address, auto, skip, qr>>

(* The effect that starts a login by itself inside Pay, once per page.     *)
AutoStart ==
  /\ page = "ready" /\ device = "pay" /\ auto = "idle"
  /\ address = None /\ stored = None /\ ~skip
  /\ "hub" \notin flight /\ url = None
  /\ auto' = "waiting"
  /\ UNCHANGED <<shell, page, cookie, stored, address, connecting, status, flight, deeplink,
                 timer, hub, login, skip, qr>>

(* The probe and the pause are over; the page may be hidden by now.        *)
AutoConnect(visible) ==
  /\ page = "ready" /\ auto = "waiting"
  /\ auto' = "over"
  /\ IF visible /\ ~skip /\ stored = None
       THEN BeginConnect("auto", FALSE)
       ELSE UNCHANGED <<page, connecting, status, flight, deeplink, timer, hub, login>>
  /\ UNCHANGED <<shell, cookie, stored, address, skip, qr>>

-----------------------------------------------------------------------------
(* The awaits of a login inside Pay.                                       *)

(* connectNimiq gives an address, the server a challenge for it, the       *)
(* wallet a signature.                                                     *)
LoginGoesOn(l) ==
  /\ page = "ready"
  /\ \/ /\ login[l].pc = "accounts"
        /\ \E w \in Wallets : login' = [login EXCEPT ![l] = [pc |-> "challenge", wallet |-> w]]
     \/ login[l].pc = "challenge" /\ login' = [login EXCEPT ![l].pc = "sign"]
     \/ login[l].pc = "sign" /\ login' = [login EXCEPT ![l].pc = "verify"]
  /\ UNCHANGED <<shell, page, cookie, stored, address, connecting, status, flight, deeplink,
                 timer, hub, auto, skip, qr>>

(* The cleanup of the automatic login's effect, when the address changes.  *)
AutoAfter(a) == IF auto = "waiting" /\ a # address THEN "over" ELSE auto

(* applySession; the answer that brought it also brought the cookie.       *)
ApplySession(w, token) ==
  /\ cookie' = w /\ granted' = granted \cup {w}
  /\ stored' = Stored(w, token) /\ address' = w
  /\ auto' = AutoAfter(w)

LoginVerified(l) ==
  /\ page = "ready" /\ login[l].pc = "verify"
  /\ ApplySession(login[l].wallet, TRUE)
  /\ status' = None /\ deeplink' = "none" /\ timer' = FALSE
  /\ Finally(flight, "none")
  /\ login' = [login EXCEPT ![l] = NoLogin]
  /\ UNCHANGED <<device, loads, page, hub, skip, qr>>

(* Mutant: the session is kept before the server has verified it.          *)
LoginFailsAfterApply(l) ==
  /\ page = "ready" /\ login[l].pc \in {"accounts", "challenge", "sign", "verify"}
  /\ stored' = IF login[l].pc = "verify" THEN Stored(login[l].wallet, TRUE) ELSE stored
  /\ address' = IF login[l].pc = "verify" THEN login[l].wallet ELSE address
  /\ status' = None
  /\ Finally(flight \ {"hub"}, deeplink)
  /\ login' = [login EXCEPT ![l] = NoLogin]
  /\ UNCHANGED <<shell, page, cookie, deeplink, timer, hub, auto, skip, qr>>

(* A dialog is dismissed, a call fails or the server refuses.              *)
LoginFails(l) ==
  /\ page = "ready" /\ login[l].pc \in {"accounts", "challenge", "sign", "verify"}
  /\ status' = None
  /\ Finally(flight \ {"hub"}, deeplink)
  /\ login' = [login EXCEPT ![l] = NoLogin]
  /\ UNCHANGED <<shell, page, cookie, stored, address, deeplink, timer, hub, auto, skip, qr>>

-----------------------------------------------------------------------------
(* The Hub.                                                                *)

(* The user answers or cancels there; the browser may have dropped the     *)
(* storage of the tab meanwhile, and the session stored in it.             *)
HubReturns(ok, kept) ==
  /\ page = "hub" /\ loads < MaxLoads
  /\ loads' = loads + 1
  /\ \E w \in IF requests.command = "choose" THEN Wallets ELSE {requests.wallet} :
       url' = [ok |-> ok, wallet |-> w]
  /\ IF kept THEN UNCHANGED <<requests, stored>> ELSE requests' = None /\ stored' = None
  /\ Load
  /\ UNCHANGED <<device, cookie, granted>>

(* resetAbandonedHubRedirect, of the url u and the requests r.             *)
ResetAbandoned ==
  IF Orphaned
    THEN /\ url' = None /\ requests' = None
         /\ flight' = {} /\ connecting' = FALSE /\ status' = None
    ELSE IF url = None /\ stored = None /\ ("hub" \in flight \/ status = "redirecting")
    THEN /\ flight' = {} /\ connecting' = FALSE /\ status' = None
         /\ requests' = None /\ UNCHANGED url
    ELSE UNCHANGED <<hub, flight, connecting, status>>

(* Mutant: a page that comes back from the cache goes on as it was.        *)
HubBackAsItWas ==
  /\ page = "hub"
  /\ page' = "ready"
  /\ UNCHANGED <<shell, cookie, stored, address, connecting, status, flight, deeplink, timer,
                 hub, login, auto, skip, qr>>

(* Back, without an answer: the page comes back from the cache as it was,  *)
(* and pageshow finds the redirect abandoned.                              *)
HubBack ==
  /\ page = "hub"
  /\ page' = "ready"
  /\ ResetAbandoned
  /\ UNCHANGED <<shell, cookie, stored, address, deeplink, timer, login, auto, skip, qr>>

(* The challenge for the chosen address is there: off to the Hub again.    *)
HubChallenge ==
  /\ page = "ready" /\ login["hub"].pc = "hub-challenge"
  /\ page' = "hub"
  /\ requests' = [command |-> "sign", wallet |-> login["hub"].wallet]
  /\ login' = [login EXCEPT !["hub"] = NoLogin]
  /\ UNCHANGED <<shell, cookie, stored, address, connecting, status, flight, deeplink, timer,
                 url, auto, skip, qr>>

(* onError                                                                 *)
HubChallengeFails ==
  /\ page = "ready" /\ login["hub"].pc = "hub-challenge"
  /\ login' = [login EXCEPT !["hub"] = NoLogin]
  /\ flight' = {} /\ connecting' = FALSE /\ status' = None
  /\ UNCHANGED <<shell, page, cookie, stored, address, deeplink, timer, hub, auto, skip, qr>>

(* The signature is verified, whatever the user did meanwhile.             *)
HubVerified ==
  /\ page = "ready" /\ login["hub"].pc = "hub-verify"
  /\ ApplySession(login["hub"].wallet, TRUE)
  /\ status' = None /\ flight' = {} /\ connecting' = FALSE
  /\ login' = [login EXCEPT !["hub"] = NoLogin]
  /\ UNCHANGED <<device, loads, page, deeplink, timer, hub, skip, qr>>

HubVerifyFails ==
  /\ page = "ready" /\ login["hub"].pc = "hub-verify"
  /\ stored' = None /\ address' = None /\ auto' = AutoAfter(None)
  /\ flight' = {} /\ connecting' = FALSE
  /\ login' = [login EXCEPT !["hub"] = NoLogin]
  /\ UNCHANGED <<shell, page, cookie, status, deeplink, timer, hub, skip, qr>>

-----------------------------------------------------------------------------
(* The deeplink into Nimiq Pay.                                            *)

(* showPayHandoffHint *)
Handoff == status' = "handoff" /\ flight' = flight \ {"connect"} /\ connecting' = FALSE

(* Mutant: the fallback stays scheduled when the page is hidden.           *)
HideKeepsTimer ==
  /\ page = "ready" /\ deeplink # "none"
  /\ deeplink' = "left" /\ UNCHANGED timer
  /\ Handoff
  /\ UNCHANGED <<shell, page, cookie, stored, address, hub, login, auto, skip, qr>>

(* The page is hidden: markPayDeeplinkHandoff.                             *)
Hide ==
  /\ page = "ready" /\ deeplink # "none"
  /\ deeplink' = "left" /\ timer' = FALSE
  /\ Handoff
  /\ UNCHANGED <<shell, page, cookie, stored, address, hub, login, auto, skip, qr>>

(* The page is shown or focused with the deeplink open:                    *)
(* completePayDeeplinkReturn.                                              *)
Return ==
  /\ page = "ready" /\ deeplink = "left"
  /\ deeplink' = "none" /\ timer' = FALSE
  /\ IF stored # None THEN UNCHANGED <<status, flight, connecting>> ELSE Handoff
  /\ UNCHANGED <<shell, page, cookie, stored, address, hub, login, auto, skip, qr>>

HintFades ==
  /\ page = "ready" /\ status = "handoff"
  /\ status' = None
  /\ UNCHANGED <<shell, page, cookie, stored, address, connecting, flight, deeplink, timer,
                 hub, login, auto, skip, qr>>

(* The page was never left: scheduleDeeplinkFallback.                      *)
DeeplinkFallback ==
  /\ page = "ready" /\ timer
  /\ timer' = FALSE /\ deeplink' = "none"
  /\ IF stored # None THEN UNCHANGED <<status, flight, connecting>>
     ELSE status' = None /\ flight' = flight \ {"connect"} /\ connecting' = FALSE
  /\ UNCHANGED <<shell, page, cookie, stored, address, hub, login, auto, skip, qr>>

-----------------------------------------------------------------------------
(* disconnect: the cookie stays, and so does a login in flight.            *)
Disconnect ==
  /\ page = "ready" /\ address # None
  /\ skip' = TRUE
  /\ stored' = None /\ address' = None /\ auto' = AutoAfter(None)
  /\ status' = None /\ flight' = {} /\ deeplink' = "none" /\ timer' = FALSE
  /\ UNCHANGED <<shell, page, cookie, connecting, hub, login, qr>>

(* The server's session expires.                                           *)
CookieExpires ==
  /\ cookie # None
  /\ cookie' = None
  /\ UNCHANGED <<shell, page, stored, address, connecting, status, flight, deeplink, timer,
                 hub, login, auto, skip, qr>>

-----------------------------------------------------------------------------
(* The QR code of OpenInNimiqPayQr, shown while nobody is signed in.       *)

Shown == page = "ready" /\ address = None /\ device \in PairDevices

others == <<device, page, connecting, status, flight, deeplink, timer, hub, login, skip>>

(* A pair is created, and created again when it has expired.  A claim of   *)
(* the one before that is still unanswered is nobody's any more.           *)
NewPair ==
  /\ Shown /\ loads < MaxLoads
  /\ loads' = loads + 1
  /\ pair' = [status |-> "waiting", by |-> None]
  /\ claim' = "none"
  /\ UNCHANGED <<others, cookie, stored, address, auto, granted>>

(* Somebody signed in on a phone approves.                                 *)
PhoneApproves ==
  /\ pair # None /\ pair.status = "waiting"
  /\ \E w \in Wallets : pair' = [status |-> "approved", by |-> w]
  /\ UNCHANGED <<others, cookie, stored, address, auto, claim, granted, loads>>

(* A poll finds the pair approved and claims it, once.                     *)
Claim ==
  /\ Shown /\ pair # None /\ pair.status = "approved" /\ claim = "none"
  /\ claim' = "asked"
  /\ UNCHANGED <<others, cookie, stored, address, auto, pair, granted, loads>>

(* The claim is answered.  When the code is no longer shown the cookie has *)
(* changed all the same.                                                   *)
Claimed ==
  /\ page = "ready" /\ claim = "asked"
  /\ pair' = None /\ claim' = "none"
  /\ IF Shown
       THEN ApplySession(pair.by, FALSE)
       ELSE /\ cookie' = pair.by /\ granted' = granted \cup {pair.by}
            /\ UNCHANGED <<stored, address, auto>>
  /\ UNCHANGED <<others, loads>>

(* The claim fails: it is not tried again for this pair.                   *)
ClaimFails ==
  /\ page = "ready" /\ claim = "asked"
  /\ claim' = "failed"
  /\ UNCHANGED <<others, cookie, stored, address, auto, pair, granted, loads>>

-----------------------------------------------------------------------------
LoginEnds(l) == LoginVerified(l) \/ LoginFails(l)

HubStep == HubChallenge \/ HubChallengeFails \/ HubVerified \/ HubVerifyFails

Boot == BootSession \/ Setup \/ \E ok \in BOOLEAN : MeAnswers(ok)

WalletNext ==
  \/ Reload \/ Boot
  \/ \E redirect \in BOOLEAN : Connect(redirect)
  \/ AutoStart \/ \E visible \in BOOLEAN : AutoConnect(visible)
  \/ \E l \in {"user", "auto"} : LoginGoesOn(l) \/ LoginEnds(l)
  \/ HubStep \/ HubBack
  \/ \E ok, kept \in BOOLEAN : HubReturns(ok, kept)
  \/ Hide \/ Return \/ HintFades \/ DeeplinkFallback
  \/ Disconnect \/ CookieExpires
  \/ NewPair \/ PhoneApproves \/ Claim \/ Claimed \/ ClaimFails

WalletSpec == WalletInit /\ [][WalletNext]_walletVars

(* The server answers, the user answers the dialogs or dismisses them, and *)
(* timers fire.  Nobody has to come back from the Hub or to scan a code.   *)
WalletFairSpec ==
  /\ WalletSpec
  /\ WF_walletVars(Boot)
  /\ \A l \in {"user", "auto"} : WF_walletVars(LoginGoesOn(l) \/ LoginEnds(l))
  /\ WF_walletVars(HubStep)
  /\ WF_walletVars(DeeplinkFallback)
  /\ WF_walletVars(HintFades)

-----------------------------------------------------------------------------
(* The state of the tab.                                                   *)
WalletTypeOK ==
  /\ device \in Devices
  /\ page \in {"boot", "me", "setup", "ready", "hub"}
  /\ cookie \in Wallets \cup {None} /\ address \in Wallets \cup {None}
  /\ stored \in Sessions \cup {None}
  /\ connecting \in BOOLEAN /\ timer \in BOOLEAN /\ skip \in BOOLEAN
  /\ status \in {None, "redirecting", "prompt", "opening", "in-progress", "handoff"}
  /\ flight \subseteq {"hub", "connect"}
  /\ deeplink \in {"none", "pending", "left"}
  /\ url \in [ok : BOOLEAN, wallet : Wallets] \cup {None}
  /\ requests \in [command : {"choose", "sign"}, wallet : Wallets \cup {None}] \cup {None}
  /\ login \in [Logins -> [pc : {"idle", "accounts", "challenge", "sign", "verify",
                                 "hub-challenge", "hub-verify"},
                           wallet : Wallets \cup {None}]]
  /\ auto \in {"idle", "waiting", "over"}
  /\ pair \in [status : {"waiting", "approved"}, by : Wallets \cup {None}] \cup {None}
  /\ claim \in {"none", "asked", "failed"}
  /\ granted \subseteq Wallets /\ loads \in 0 .. MaxLoads
  /\ url # None => page \in {"boot", "me", "setup"}
  /\ timer => deeplink = "pending"

(* What the tab stores and shows as signed in is a wallet the server gave  *)
(* this browser a session for, and never one the wallet only named; and a  *)
(* page that is ready shows what a reload would show (applySession,        *)
(* disconnect and the failures of boot and of the Hub keep both in step).  *)
ShownWasGranted ==
  /\ stored # None => stored.address \in granted
  /\ page = "ready" => address = IF stored = None THEN None ELSE stored.address

(* Whatever overlaps, the button to connect comes back: after a dialog was *)
(* dismissed, a deeplink was not followed, the Hub was left without an     *)
(* answer, or two logins ran into each other.                              *)
ButtonComesBack ==
  (page = "ready" /\ address = None /\ Busy) ~> ~(page = "ready" /\ address = None /\ Busy)
=============================================================================
