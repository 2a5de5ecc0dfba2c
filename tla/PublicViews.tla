----------------------------- MODULE PublicViews -----------------------------
(***************************************************************************)
(* The public pages of the browser client and the cache under them: the    *)
(* validator directory (Directory.tsx), a validator's profile              *)
(* (Profile.tsx) and its payout evidence (Evidence.tsx), all reading       *)
(* through publicDataCache.ts, where concurrent callers of one key share   *)
(* one request, and the request carries the abort signal of the caller     *)
(* that started it.                                                        *)
(*                                                                         *)
(* Every resource is known by its key, and its content by the version of   *)
(* the server's data it was read from.  A cache record is kept in memory   *)
(* and in sessionStorage, always written together, and a read takes        *)
(* whichever is there: one record stands for both, and a reload of the     *)
(* page keeps it.                                                          *)
(***************************************************************************)
EXTENDS Naturals, FiniteSets

CONSTANTS
    Addresses,    \* the validators whose profiles are visited
    Sorts,        \* the sort orders offered by the directory
    FirstSort,    \* the order the directory opens with
    MaxChanges,   \* bound: how often the server's data changes
    MaxRequests   \* bound: how many requests the tab sends

ASSUME ViewAssumption ==
    /\ FirstSort \in Sorts
    /\ MaxChanges \in Nat /\ MaxRequests \in Nat

VARIABLES
    world,      \* the version of the server's data
    cache,      \* key -> the record of the public cache
    inflight,   \* the requests under way, later pages among them
    sent,       \* how many requests were sent
    route,      \* the page the hash names
    directory,  \* the state of Directory while it is mounted
    profile,    \* the state of Profile while it is mounted
    evidence    \* the state of Evidence while it is mounted

viewsVars == <<world, cache, inflight, sent, route, directory, profile, evidence>>

Versions == 1..(MaxChanges + 1)

ListKey(s) == <<"validators", s>>
ProfileKey(a) == <<"profile", a>>
RunsKey(a) == <<"observations", a>>
MoreKey(a) == <<"more", a>>    \* a later page, which skips the cache

CacheKeys == {ListKey(s) : s \in Sorts} \cup {ProfileKey(a) : a \in Addresses}
                \cup {RunsKey(a) : a \in Addresses}

Routes == {<<"home">>, <<"validators">>} \cup {<<"profile", a>> : a \in Addresses}

NoRecord == [ver |-> 0, age |-> "gone"]
Nothing == [name |-> "none", ver |-> 0]
Shows(name, ver) == [name |-> name, ver |-> ver]

(* What each page is while its route is not the one shown. *)
NoDirectory == [kind |-> "off", sort |-> FirstSort, reloaded |-> FALSE,
                shown |-> Nothing, refreshing |-> FALSE, waits |-> FALSE]
NoProfile == [kind |-> "off", reloaded |-> FALSE, shown |-> Nothing,
              kept |-> FALSE, waits |-> FALSE, opened |-> FALSE]
NoEvidence == [kind |-> "off", of |-> "none", shown |-> Nothing,
               cursor |-> FALSE, waits |-> FALSE, more |-> Nothing]

ViewsInit ==
    /\ world = 1
    /\ cache = [k \in CacheKeys |-> NoRecord]
    /\ inflight = {}
    /\ sent = 0
    /\ route = <<"home">>
    /\ directory = NoDirectory
    /\ profile = NoProfile
    /\ evidence = NoEvidence

-----------------------------------------------------------------------------
(* The cache and the requests under it.                                    *)

Fresh(k) == cache[k].age = "fresh"

(* Mutant: only a fresh record is painted (peekPublicCache).               *)
PaintedFresh(k) == Fresh(k)

(* peekPublicCacheAnyAge: a record young enough to paint, fresh or not.    *)
Painted(k) == cache[k].age # "gone"

Request(k, owner) == [key |-> k, owner |-> owner, got |-> 0, aborted |-> FALSE]

UnderWay(rs, k) == \E r \in rs : r.key = k

(* Mutant: every caller sends a request of its own.                        *)
FetchSeparately(rs, k, owner) == rs \cup {Request(k, owner)}

(* withPublicCache: a caller joins the request under way for its key, or   *)
(* sends one that carries its own signal.                                  *)
Fetch(rs, k, owner) ==
    IF UnderWay(rs, k) THEN rs ELSE rs \cup {Request(k, owner)}

(* controller.abort(): the request this page started fails, whoever waits. *)
Abort(rs, owner) ==
    {IF r.owner = owner THEN [r EXCEPT !.aborted = TRUE] ELSE r : r \in rs}

(* The rejection of an aborted request is delivered before anything else   *)
(* happens in the tab.                                                     *)
Quiet == \A r \in inflight : ~r.aborted

(* How many requests a step adds, within the bound. *)
Sends(rs) ==
    /\ inflight' = rs
    /\ sent' = sent + Cardinality({r.key : r \in rs} \ {r.key : r \in inflight})
    /\ sent' <= MaxRequests

-----------------------------------------------------------------------------
(* Evidence.                                                               *)

(* The effect of Evidence for address a: start over and read the first     *)
(* page, from the cache when it is fresh.  The answer of a later page that *)
(* is under way is not dropped.                                            *)
EvidenceLoads(e, a) ==
    IF Fresh(RunsKey(a))
    THEN [e EXCEPT !.kind = "ok", !.of = a, !.cursor = TRUE, !.waits = FALSE,
                   !.shown = Shows(a, cache[RunsKey(a)].ver)]
    ELSE [e EXCEPT !.kind = "loading", !.of = a, !.cursor = FALSE,
                   !.waits = TRUE, !.shown = Nothing]

EvidenceFetches(rs, a) ==
    IF Fresh(RunsKey(a)) THEN rs ELSE Fetch(rs, RunsKey(a), "evidence")

(* Evidence is mounted inside a profile that is shown and whose disclosure *)
(* was opened; it starts over when the address it is given changes.        *)
MountsEvidence(p) == p.kind = "ok" /\ p.opened

EvidenceFollows(p, rs) ==
    IF ~MountsEvidence(p)
    THEN /\ evidence' = NoEvidence
         /\ Sends({r \in Abort(rs, "evidence") : r.key[1] # "more"})
    ELSE IF evidence.of = p.shown.name
    THEN /\ evidence' = evidence
         /\ Sends(rs)
    ELSE /\ evidence' = EvidenceLoads(evidence, p.shown.name)
         /\ Sends(EvidenceFetches(Abort(rs, "evidence"), p.shown.name))

-----------------------------------------------------------------------------
(* The effects of Directory and Profile.                                   *)

(* Directory.tsx: paint what the cache has for this order, else keep the   *)
(* list that is there; go to the network unless it was fresh and nobody    *)
(* asked for a reload.                                                     *)
DirectorySkips(d) == Fresh(ListKey(d.sort)) /\ ~d.reloaded

DirectoryLoads(d) ==
    LET k == ListKey(d.sort) IN
    IF Painted(k)
    THEN [d EXCEPT !.kind = "ready", !.shown = Shows(d.sort, cache[k].ver),
                   !.refreshing = ~DirectorySkips(d), !.waits = ~DirectorySkips(d)]
    ELSE [d EXCEPT !.kind = IF d.kind = "ready" THEN "ready" ELSE "loading",
                   !.refreshing = d.kind = "ready", !.waits = TRUE]

DirectoryFetches(rs, d) ==
    IF DirectorySkips(d) THEN rs ELSE Fetch(rs, ListKey(d.sort), "directory")

(* Profile.tsx: the same, without a signal; what was painted is kept when  *)
(* the request fails.                                                      *)
ProfileSkips(p, a) == Fresh(ProfileKey(a)) /\ ~p.reloaded

ProfileLoads(p, a) ==
    LET k == ProfileKey(a) IN
    IF Painted(k)
    THEN [p EXCEPT !.kind = "ok", !.shown = Shows(a, cache[k].ver),
                   !.kept = TRUE, !.waits = ~ProfileSkips(p, a)]
    ELSE [p EXCEPT !.kind = "loading", !.shown = Nothing,
                   !.kept = FALSE, !.waits = TRUE]

ProfileFetches(rs, p, a) ==
    IF ProfileSkips(p, a) THEN rs ELSE Fetch(rs, ProfileKey(a), "nobody")

-----------------------------------------------------------------------------
(* What the visitor does.                                                  *)

GoHome ==
    /\ Quiet /\ route # <<"home">>
    /\ route' = <<"home">>
    /\ directory' = NoDirectory
    /\ profile' = NoProfile
    /\ EvidenceFollows(NoProfile, Abort(inflight, "directory"))
    /\ UNCHANGED <<world, cache>>

GoDirectory ==
    /\ Quiet /\ route # <<"validators">>
    /\ route' = <<"validators">>
    /\ directory' = DirectoryLoads(NoDirectory)
    /\ profile' = NoProfile
    /\ EvidenceFollows(NoProfile, DirectoryFetches(inflight, NoDirectory))
    /\ UNCHANGED <<world, cache>>

(* From the directory, or from another profile, whose component stays      *)
(* mounted and only gets the new address.                                  *)
GoProfile(a) ==
    /\ Quiet /\ route # <<"profile", a>>
    /\ route' = <<"profile", a>>
    /\ directory' = NoDirectory
    /\ profile' = ProfileLoads(profile, a)
    /\ EvidenceFollows(profile',
           ProfileFetches(Abort(inflight, "directory"), profile, a))
    /\ UNCHANGED <<world, cache>>

(* The pointer over a card, a hover over the navigation, an idle moment. *)
Prefetch(k) ==
    /\ Quiet /\ k[1] \in {"validators", "profile"}
    /\ k[1] = "validators" => k[2] = FirstSort
    /\ ~Fresh(k) /\ ~UnderWay(inflight, k)
    /\ Sends(Fetch(inflight, k, "nobody"))
    /\ UNCHANGED <<world, cache, route, directory, profile, evidence>>

ChangeSort(s) ==
    /\ Quiet /\ route = <<"validators">> /\ s # directory.sort
    /\ LET d == [directory EXCEPT !.sort = s] IN
       /\ directory' = DirectoryLoads(d)
       /\ Sends(DirectoryFetches(Abort(inflight, "directory"), d))
    /\ UNCHANGED <<world, cache, route, profile, evidence>>

(* Refresh is offered with an error, an empty list and a degraded answer:  *)
(* whether an answer is degraded is not told apart.  The cleanup of the    *)
(* effect aborts its request before the new effect looks for one to join.  *)
RetryDirectory ==
    /\ Quiet /\ directory.kind \in {"error", "ready"}
    /\ LET d == [directory EXCEPT !.reloaded = TRUE] IN
       /\ directory' = DirectoryLoads(d)
       /\ Sends(DirectoryFetches(Abort(inflight, "directory"), d))
    /\ UNCHANGED <<world, cache, route, profile, evidence>>

RetryProfile ==
    /\ Quiet /\ profile.kind \in {"error", "not-found", "ok"}
    /\ LET p == [profile EXCEPT !.reloaded = TRUE] IN
       /\ profile' = ProfileLoads(p, route[2])
       /\ EvidenceFollows(profile', ProfileFetches(inflight, p, route[2]))
    /\ UNCHANGED <<world, cache, route, directory>>

OpenEvidence ==
    /\ Quiet /\ profile.kind = "ok" /\ ~profile.opened
    /\ profile' = [profile EXCEPT !.opened = TRUE]
    /\ EvidenceFollows(profile', inflight)
    /\ UNCHANGED <<world, cache, route, directory>>

RetryEvidence ==
    /\ Quiet /\ evidence.kind \in {"error", "ok"}
    /\ evidence' = EvidenceLoads(evidence, evidence.of)
    /\ Sends(EvidenceFetches(Abort(inflight, "evidence"), evidence.of))
    /\ UNCHANGED <<world, cache, route, directory, profile>>

(* loadMore: the next page, asked for what is on the page now. *)
LoadMore ==
    /\ Quiet /\ evidence.kind = "ok" /\ evidence.cursor
    /\ evidence.more = Nothing
    /\ evidence' = [evidence EXCEPT !.more = evidence.shown]
    /\ Sends(Fetch(inflight, MoreKey(evidence.of), "nobody"))
    /\ UNCHANGED <<world, cache, route, directory, profile>>

(* A reload of the page: the records of sessionStorage stay. *)
ReloadPage ==
    /\ Quiet
    /\ inflight' = {} /\ UNCHANGED sent
    /\ route' = <<"home">>
    /\ directory' = NoDirectory /\ profile' = NoProfile /\ evidence' = NoEvidence
    /\ UNCHANGED <<world, cache>>

-----------------------------------------------------------------------------
(* The server and the network.                                             *)

ServerChanges ==
    /\ Quiet /\ world <= MaxChanges
    /\ world' = world + 1
    /\ UNCHANGED <<cache, inflight, sent, route, directory, profile, evidence>>

ServerReads(r) ==
    /\ Quiet /\ r.got = 0
    /\ inflight' = (inflight \ {r}) \cup {[r EXCEPT !.got = world]}
    /\ UNCHANGED <<world, cache, sent, route, directory, profile, evidence>>

(* A record passes its 45 seconds, and then the hour it may still paint. *)
Ages(k) ==
    /\ Quiet /\ cache[k].age \in {"fresh", "stale"}
    /\ cache' = [cache EXCEPT ![k] = IF Fresh(k) THEN [@ EXCEPT !.age = "stale"]
                                               ELSE NoRecord]
    /\ UNCHANGED <<world, inflight, sent, route, directory, profile, evidence>>

DirectoryWaits(k) == directory.waits /\ k = ListKey(directory.sort)
ProfileWaits(k) == profile.waits /\ k = ProfileKey(route[2])
EvidenceWaits(k) == evidence.waits /\ k = RunsKey(evidence.of)

(* setPublicCache, for what withPublicCache fetched. *)
Keeps(r) ==
    IF r.key \in CacheKeys
    THEN [cache EXCEPT ![r.key] = [ver |-> r.got, age |-> "fresh"]]
    ELSE cache

(* What each page does with the answer it waits for.  An answer for a      *)
(* validator the profile no longer shows is dropped (`cancelled`).         *)
DirectoryGets(r) ==
    IF DirectoryWaits(r.key)
    THEN [directory EXCEPT !.kind = "ready", !.refreshing = FALSE, !.waits = FALSE,
                           !.shown = Shows(r.key[2], r.got)]
    ELSE directory

(* Mutant: the answer for the validator shown before is not dropped.       *)
ProfileGetsAny(r) ==
    IF profile.kind # "off" /\ r.key[1] = "profile"
    THEN [profile EXCEPT !.kind = "ok", !.waits = FALSE,
                         !.shown = Shows(r.key[2], r.got)]
    ELSE profile

ProfileGets(r) ==
    IF ProfileWaits(r.key)
    THEN [profile EXCEPT !.kind = "ok", !.waits = FALSE,
                         !.shown = Shows(r.key[2], r.got)]
    ELSE profile

(* The later page is put under what was on the page when it was asked for, *)
(* whatever is there now.                                                  *)
EvidenceGets(e, r) ==
    CASE EvidenceWaits(r.key) ->
           [e EXCEPT !.kind = "ok", !.waits = FALSE, !.cursor = TRUE,
                     !.shown = Shows(r.key[2], r.got)]
      [] r.key[1] = "more" /\ e.more # Nothing ->
           [e EXCEPT !.kind = "ok", !.shown = e.more, !.cursor = FALSE,
                     !.more = Nothing]
      [] OTHER -> e

Answer(r) ==
    /\ Quiet /\ r.got # 0
    /\ cache' = Keeps(r)
    /\ directory' = DirectoryGets(r)
    /\ profile' = ProfileGets(r)
    /\ IF EvidenceWaits(r.key) \/ r.key[1] = "more"
       THEN /\ evidence' = EvidenceGets(evidence, r)
            /\ Sends(inflight \ {r})
       ELSE EvidenceFollows(profile', inflight \ {r})
    /\ UNCHANGED <<world, route>>

(* Every page prefers what it has to an empty one when a refresh fails.    *)
DirectoryFails ==
    [directory EXCEPT !.kind = IF @ = "ready" THEN "ready" ELSE "error",
                      !.refreshing = FALSE, !.waits = FALSE]

(* Mutant: a failed load of a profile is not told.                         *)
ProfileFailsSilently ==
    [profile EXCEPT !.waits = FALSE]

ProfileFails ==
    [profile EXCEPT !.kind = IF profile.kept THEN @ ELSE "error", !.waits = FALSE]

EvidenceFails(k) ==
    CASE EvidenceWaits(k) -> [evidence EXCEPT !.kind = "error", !.waits = FALSE]
      [] k[1] = "more" -> [evidence EXCEPT !.more = Nothing]
      [] OTHER -> evidence

Fail(r) ==
    /\ Quiet
    /\ directory' = IF DirectoryWaits(r.key) THEN DirectoryFails ELSE directory
    /\ profile' = IF ProfileWaits(r.key) THEN ProfileFails ELSE profile
    /\ evidence' = IF MountsEvidence(profile') THEN EvidenceFails(r.key) ELSE NoEvidence
    /\ Sends(inflight \ {r})
    /\ UNCHANGED <<world, cache, route>>

(* 404: the validator is gone, whatever was kept of it. *)
NotFound(r) ==
    /\ Quiet /\ r.got # 0 /\ ProfileWaits(r.key)
    /\ profile' = [profile EXCEPT !.kind = "not-found", !.waits = FALSE]
    /\ EvidenceFollows(profile', inflight \ {r})
    /\ UNCHANGED <<world, cache, route, directory>>

(* The rejection of an aborted request: who waits for it gets an           *)
(* AbortError and returns without a word.                                  *)
Rejects(r) ==
    /\ r.aborted
    /\ directory' = IF DirectoryWaits(r.key)
                     THEN [directory EXCEPT !.waits = FALSE] ELSE directory
    /\ evidence' = IF EvidenceWaits(r.key)
                    THEN [evidence EXCEPT !.waits = FALSE] ELSE evidence
    /\ Sends(inflight \ {r})
    /\ UNCHANGED <<world, cache, route, profile>>

Settles(k) ==
    \E r \in inflight : r.key = k /\ (Answer(r) \/ Fail(r) \/ NotFound(r) \/ Rejects(r))

AllKeys == CacheKeys \cup {MoreKey(a) : a \in Addresses}

ViewsNext ==
    \/ GoHome \/ GoDirectory \/ RetryDirectory \/ RetryProfile
    \/ OpenEvidence \/ RetryEvidence \/ LoadMore \/ ReloadPage \/ ServerChanges
    \/ \E a \in Addresses : GoProfile(a)
    \/ \E s \in Sorts : ChangeSort(s)
    \/ \E k \in CacheKeys : Prefetch(k) \/ Ages(k)
    \/ \E r \in inflight : ServerReads(r)
    \/ \E k \in AllKeys : Settles(k)

(* The browser reports the end of every request, sooner or later. *)
ViewsSpec == ViewsInit /\ [][ViewsNext]_viewsVars /\ \A k \in AllKeys : WF_viewsVars(Settles(k))

-----------------------------------------------------------------------------
Showns(names) == [name : names \cup {"none"}, ver : Versions \cup {0}]

(* The shape of the state: among it, a page waits only for a request that  *)
(* is under way for its key (Directory.tsx:145-206, Profile.tsx:373-432,   *)
(* Evidence.tsx:229-258), and a key has one request at a time              *)
(* (publicDataCache.ts:129-138).                                           *)
ViewsTypeOK ==
    /\ world \in Versions
    /\ cache \in [CacheKeys -> [ver : Versions \cup {0}, age : {"fresh", "stale", "gone"}]]
    /\ \A r \in inflight :
          r \in [key : AllKeys, owner : {"directory", "evidence", "nobody"},
                got : Versions \cup {0}, aborted : BOOLEAN]
    /\ \A r, q \in inflight : r.key = q.key => r = q
    /\ route \in Routes
    /\ directory.shown \in Showns(Sorts)
    /\ profile.shown \in Showns(Addresses)
    /\ evidence.shown \in Showns(Addresses) /\ evidence.more \in Showns(Addresses)
    /\ directory.waits => UnderWay(inflight, ListKey(directory.sort))
    /\ profile.waits => UnderWay(inflight, ProfileKey(route[2]))
    /\ evidence.waits => UnderWay(inflight, RunsKey(evidence.of))

(* A profile page shows the validator its address names: no late answer    *)
(* for the validator visited before is shown under the new address         *)
(* (Profile.tsx:374-401).                                                  *)
ProfileShowsItsOwn ==
    profile.kind = "ok" => route = ProfileKey(profile.shown.name)

(* What the cache holds for a key is never replaced by an older answer     *)
(* while it may still be shown: no two requests of one key overlap         *)
(* (publicDataCache.ts:111-144).                                           *)
CacheNeverGoesBack ==
    [][\A k \in CacheKeys :
         cache'[k] # NoRecord => cache'[k].ver >= cache[k].ver]_viewsVars

(* Blank: nothing kept for the key is young enough to paint.               *)
Blank(k) == cache[k].age = "gone"

(* What can be shown is shown.  A list on the page stays until the visitor *)
(* leaves it, whatever fails.  A profile on the page is never replaced by  *)
(* an error, and by its skeleton only when the visitor asks for it again   *)
(* while nothing is kept of it; and a page first says that it could not    *)
(* load in a moment in which nothing is kept that it could have shown      *)
(* (Directory.tsx:150-201, Profile.tsx:383-426, publicDataCache.ts:68-90). *)
KeepsLastGood ==
    [][/\ route' = route =>
            /\ directory.kind = "ready" => directory'.kind = "ready"
            /\ profile.kind = "ok" =>
                 /\ profile'.kind # "error"
                 /\ profile'.kind = "loading" => Blank(ProfileKey(route[2]))
       /\ directory'.kind = "error" =>
            directory.kind = "error" \/ Blank(ListKey(directory.sort))
       /\ profile'.kind = "error" =>
            profile.kind = "error" \/ Blank(ProfileKey(route[2]))]_viewsVars

(* No page is left loading: the skeleton of the directory and of a profile *)
(* gives way to data, an error or another page, whatever the visitor       *)
(* aborts and whoever's request is shared (Directory.tsx:171-205,          *)
(* Profile.tsx:396-432).                                                   *)
PagesSettle ==
    /\ directory.kind = "loading" ~> directory.kind # "loading"
    /\ profile.kind = "loading" ~> profile.kind # "loading"
=============================================================================
