----------------------------- MODULE RpcClient ------------------------------
(***************************************************************************)
(* The server's gateway to the chain (server/src/nimiq-rpc.ts): a logical  *)
(* call asks an endpoint up to MaxAttempts times, fails over to the other  *)
(* one, and all calls share the sticky endpoint, which the next call asks  *)
(* first.                                                                  *)
(*                                                                         *)
(* The answer to a request is awaited, so calls interleave between any two *)
(* requests, and between the answer of a node and its arrival, when the    *)
(* node may be down again.  The pause between two attempts is part of      *)
(* waiting for the second one.  Of an answer the model keeps what the      *)
(* client tells apart.                                                     *)
(***************************************************************************)
EXTENDS Integers, Sequences, SequencesExt

CONSTANTS
  Primary, Fallback,  \* NIMIQ_RPC_URL, NIMIQ_RPC_URL_FALLBACK
  Null,               \* no endpoint, no outcome, no try
  Calls,              \* bound: logical calls in flight together
  MaxAttempts         \* maxAttempts

Endpoints == {Primary, Fallback}

(* What the caller gets: the data, null for a transaction the node does    *)
(* not know, or the code of the error.                                     *)
Outcomes == {"data", "null", "RPC_METHOD_ERROR", "RPC_MALFORMED", "RPC_UNAVAILABLE"}

VARIABLES
  up,       \* the endpoints that can be reached
  sticky,   \* stickyUrl
  call,     \* the logical calls
  steady    \* history: of the endpoints a call may ask, those up since it began

rpcVars == <<up, sticky, call, steady>>

(* requestOnce: a node that is reached answers with data (of a shape the   *)
(* caller accepts, or not), an error of the method, or something that is   *)
(* no JSON-RPC answer; one that is not reached times out, drops the        *)
(* connection or answers 408, 429 or 5xx (lost), or turns the request down *)
(* with another status (refused).                                          *)
Reached == {"data", "misshapen", "methodError", "malformed"}
Unreached == {"lost", "refused"}

ASSUME RpcAssumption ==
  /\ Null \notin Endpoints \cup Outcomes \cup Reached /\ Primary # Fallback
  /\ MaxAttempts \in Nat \ {0}

(* An error is retried on its endpoint if retriable, and then handed to    *)
(* the next endpoint if isFailoverEligible.                                *)
IsRetriable(a) == a = "lost"
IsFailoverEligible(a) == a \in Unreached
IsData(a) == a \in {"data", "misshapen"}

(* The typed readers check the shape of the data; fetchTransaction turns a *)
(* transaction that was not found into null.                               *)
OutcomesOf(a) ==
  CASE a = "data" -> {"data"}
    [] a \in {"misshapen", "malformed"} -> {"RPC_MALFORMED"}
    [] a = "methodError" -> {"RPC_METHOD_ERROR", "null"}
    [] OTHER -> {"RPC_UNAVAILABLE"}

(* resolveRpcEndpoints: a caller names no url, or one of the endpoints.    *)
Resolved(url) == IF url = Fallback THEN <<Fallback>> ELSE <<Primary, Fallback>>

(* Mutant: only the sticky endpoint is asked.                              *)
OrderedStickyOnly(es) == IF sticky \in ToSet(es) THEN <<sticky>> ELSE es

(* orderEndpoints, of the one or two there are: the sticky one first.    *)
Ordered(es) == IF Len(es) = 2 /\ sticky = es[2] THEN <<es[2], es[1]>> ELSE es

(* reply is the answer of the node that is on its way.                     *)
Idle == [ pc |-> "idle", order |-> <<>>, at |-> 1, attempt |-> 1, reply |-> Null,
          outcome |-> Null ]

RpcInit ==
  /\ up \in SUBSET Endpoints
  /\ sticky = Null
  /\ call = [c \in Calls |-> Idle]
  /\ steady = [c \in Calls |-> {}]

-----------------------------------------------------------------------------
(* requestRpcData, up to the first request.                                *)
BeginCall(c) ==
  /\ call[c].pc = "idle"
  /\ \E url \in Endpoints \cup {Null} :
       /\ call' = [call EXCEPT ![c] = [Idle EXCEPT !.pc = "asking",
                                                   !.order = Ordered(Resolved(url))]]
       /\ steady' = [steady EXCEPT ![c] = up \cap ToSet(Resolved(url))]
  /\ UNCHANGED <<up, sticky>>

Endpoint(c) == call[c].order[call[c].at]

(* Mutant: the attempts are counted from zero.                             *)
HasAttemptsFromZero(c) == call[c].attempt <= MaxAttempts

HasAttempts(c) == call[c].attempt < MaxAttempts

HasEndpoints(c) == call[c].at < Len(call[c].order)

(* The node of the endpoint answers; the answer is on its way.             *)
NodeAnswers(c, a) ==
  /\ call[c].pc = "asking" /\ call[c].reply = Null
  /\ Endpoint(c) \in up
  /\ call' = [call EXCEPT ![c].reply = a]
  /\ UNCHANGED <<up, sticky, steady>>

(* The call learns a: the answer that was on its way, or, of an endpoint   *)
(* that is down, that it is not reached.                                   *)
Learns(c, a) ==
  /\ call[c].pc = "asking"
  /\ IF a \in Reached THEN a = call[c].reply ELSE Endpoint(c) \notin up

End(c, a) ==
  /\ \E o \in OutcomesOf(a) :
       call' = [call EXCEPT ![c] = [Idle EXCEPT !.outcome = o]]
  /\ steady' = [steady EXCEPT ![c] = {}]
  /\ UNCHANGED up

(* requestOnEndpointWithRetries goes round.                                *)
Retry(c) ==
  \E a \in Reached \cup Unreached :
    /\ Learns(c, a) /\ IsRetriable(a) /\ HasAttempts(c)
    /\ call' = [call EXCEPT ![c].attempt = @ + 1, ![c].reply = Null]
    /\ UNCHANGED <<up, sticky, steady>>

(* Mutant: the endpoint that failed stays preferred.                       *)
UnstickNever(c) == UNCHANGED sticky

(* The endpoint is given up: it is sticky no longer.                       *)
Unstick(c) == sticky' = IF sticky = Endpoint(c) THEN Null ELSE sticky

(* Mutant: the endpoints are asked round-robin.                            *)
FailoverRound(c) ==
  \E a \in Unreached :
    /\ Learns(c, a)
    /\ ~(IsRetriable(a) /\ HasAttempts(c))
    /\ Unstick(c)
    /\ call' = [call EXCEPT ![c].at = (@ % Len(call[c].order)) + 1, ![c].attempt = 1, ![c].reply = Null]
    /\ UNCHANGED <<up, steady>>

Failover(c) ==
  \E a \in Reached \cup Unreached :
    /\ Learns(c, a) /\ IsFailoverEligible(a) /\ HasEndpoints(c)
    /\ ~(IsRetriable(a) /\ HasAttempts(c))
    /\ Unstick(c)
    /\ call' = [call EXCEPT ![c].at = @ + 1, ![c].attempt = 1, ![c].reply = Null]
    /\ UNCHANGED <<up, steady>>

Succeed(c) ==
  \E a \in Reached \cup Unreached :
    /\ Learns(c, a) /\ IsData(a)
    /\ sticky' = Endpoint(c)
    /\ End(c, a)

FailCall(c) ==
  \E a \in Reached \cup Unreached :
    /\ Learns(c, a) /\ ~IsData(a)
    /\ ~(IsRetriable(a) /\ HasAttempts(c))
    /\ ~(IsFailoverEligible(a) /\ HasEndpoints(c))
    /\ Unstick(c)
    /\ End(c, a)

(* An endpoint goes down or comes back.                                    *)
Change(e) ==
  /\ up' = IF e \in up THEN up \ {e} ELSE up \cup {e}
  /\ steady' = [c \in Calls |-> steady[c] \ {e}]
  /\ UNCHANGED <<sticky, call>>

RpcNext ==
  \/ \E c \in Calls, a \in Reached : NodeAnswers(c, a)
  \/ \E c \in Calls : BeginCall(c) \/ Retry(c) \/ Failover(c) \/ Succeed(c) \/ FailCall(c)
  \/ \E e \in Endpoints : Change(e)

RpcSpec == RpcInit /\ [][RpcNext]_rpcVars

(* Every request is answered or timed out after timeoutMs.                 *)
RpcFairSpec ==
  /\ RpcSpec
  /\ \A c \in Calls :
       WF_rpcVars(\/ \E a \in Reached : NodeAnswers(c, a)
                  \/ Retry(c) \/ Failover(c) \/ Succeed(c) \/ FailCall(c))

-----------------------------------------------------------------------------
CallStates == [ pc      : {"idle", "asking"},
                order   : {<<>>} \cup {Resolved(u) : u \in Endpoints} \cup {<<Fallback, Primary>>},
                at      : {1, 2},
                attempt : 1 .. MaxAttempts,
                reply   : Reached \cup {Null},
                outcome : Outcomes \cup {Null} ]

(* Type invariant.                                                         *)
RpcTypeOK ==
  /\ up \in SUBSET Endpoints
  /\ sticky \in Endpoints \cup {Null}
  /\ call \in [Calls -> CallStates]
  /\ steady \in [Calls -> SUBSET up]

(* An endpoint that stays down is not preferred for ever, as long as calls *)
(* that may ask both go on being made.  It may well become the sticky one  *)
(* again after it failed a call: an answer it gave before it went down can *)
(* arrive late, in another call.                                           *)
DeadIsDropped ==
  \A e \in Endpoints :
    /\ <>[](e \notin up)
    /\ []<>(\E c \in Calls : call[c].pc = "asking" /\ Len(call[c].order) = 2)
    => <>[](sticky # e)

(* Failover: a call ends as unavailable only when none of the endpoints it *)
(* may ask could be reached throughout the call.                           *)
ReachableIsServed ==
  [][\A c \in Calls :
       call[c].pc = "asking" /\ call'[c].outcome = "RPC_UNAVAILABLE"
         => steady[c] = {}]_rpcVars

(* A call ends, with data or an error, however the endpoints come and go.  *)
EveryCallEnds == \A c \in Calls : call[c].pc = "asking" ~> call[c].pc = "idle"

=============================================================================
