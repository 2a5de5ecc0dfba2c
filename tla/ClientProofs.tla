----------------------------- MODULE ClientProofs ---------------------------
(***************************************************************************)
(* Proofs about the clients: the server's client of the chain (RpcClient), *)
(* the wallet session of a browser tab (WalletSession) and the public      *)
(* pages (PublicViews), for every value of their constants.                *)
(***************************************************************************)
EXTENDS RpcClient, WalletSession, PublicViews, TLAPS

-----------------------------------------------------------------------------
(* The JSON-RPC client with failover.                                      *)

(* An endpoint that was up throughout a call is still before it; and until *)
(* it ends, a call has no outcome.                                         *)
Ahead(c) ==
  call[c].pc = "asking" =>
    /\ call[c].outcome = Null
    /\ call[c].at \in 1 .. Len(call[c].order)
    /\ \A e \in steady[c] :
         \E i \in DOMAIN call[c].order : i >= call[c].at /\ call[c].order[i] = e

SteadyAreAhead == \A c \in Calls : Ahead(c)

RpcInv == RpcTypeOK /\ SteadyAreAhead

LEMMA ResolvedAre ==
  {Resolved(u) : u \in Endpoints} = {<<Fallback>>, <<Primary, Fallback>>}
BY RpcAssumption DEF Resolved, Endpoints

LEMMA RpcOrders ==
  ASSUME RpcTypeOK, NEW c \in Calls
  PROVE  /\ call[c] \in CallStates
         /\ call[c].order \in {<<>>, <<Fallback>>, <<Primary, Fallback>>, <<Fallback, Primary>>}
         /\ \A i \in DOMAIN call[c].order : call[c].order[i] \in {Primary, Fallback}
<1>1. call[c] \in CallStates
  BY DEF RpcTypeOK
<1>2. call[c].order \in {<<>>, <<Fallback>>, <<Primary, Fallback>>, <<Fallback, Primary>>}
  BY <1>1 DEF CallStates, Resolved, Endpoints
<1> QED  BY <1>1, <1>2
LEMMA RpcStarts ==
  ASSUME RpcInit
  PROVE  RpcInv
<1> USE DEF RpcInit
<1>1. Idle \in CallStates /\ Idle.pc = "idle"
  BY RpcAssumption DEF Idle, CallStates
<1>2. RpcTypeOK
  BY <1>1 DEF RpcTypeOK
<1>3. SteadyAreAhead
  BY <1>1 DEF SteadyAreAhead, Ahead
<1> QED  BY <1>2, <1>3 DEF RpcInv

(* A call begins with all the endpoints it may ask ahead of it.            *)
LEMMA BeginCallStep ==
  ASSUME RpcInv, NEW c \in Calls, BeginCall(c)
  PROVE  RpcInv'
<1> USE DEF RpcInv
<1>1. PICK named \in {Primary, Fallback, Null} :
        /\ call' = [call EXCEPT ![c] =
                      [Idle EXCEPT !.pc = "asking",
                                       !.order = Ordered(Resolved(named))]]
        /\ steady' = [steady EXCEPT ![c] = up \cap ToSet(Resolved(named))]
        /\ UNCHANGED <<up, sticky>>
  BY DEF BeginCall, Endpoints
<1> DEFINE es == Resolved(named)
           order == Ordered(es)
           begun == [Idle EXCEPT !.pc = "asking", !.order = order]
<1>2. /\ es \in {<<Fallback>>, <<Primary, Fallback>>}
      /\ order \in {<<Fallback>>, <<Primary, Fallback>>, <<Fallback, Primary>>}
      /\ \A e \in ToSet(es) : \E i \in DOMAIN order : i >= 1 /\ order[i] = e
      /\ 1 \in 1 .. Len(order)
  <2>1. CASE named = Fallback
    <3>1. es = <<Fallback>> /\ order = <<Fallback>>
      BY <2>1 DEF Resolved, Ordered
    <3>2. ToSet(es) = {Fallback}
      BY <3>1 DEF ToSet
    <3> HIDE DEF es, order
    <3>3. DOMAIN order = {1} /\ order[1] = Fallback /\ Len(order) = 1
      BY <3>1
    <3> QED  BY <3>1, <3>2, <3>3
  <2>2. CASE named # Fallback
    <3>1. es = <<Primary, Fallback>>
      BY <2>2 DEF Resolved
    <3>2. order \in {<<Primary, Fallback>>, <<Fallback, Primary>>}
      BY <3>1 DEF Ordered
    <3>3. ToSet(es) = {Primary, Fallback}
      BY <3>1 DEF ToSet
    <3> HIDE DEF es, order
    <3>4. DOMAIN order = {1, 2} /\ {order[1], order[2]} = {Primary, Fallback} /\ Len(order) = 2
      BY <3>2
    <3>6. \A e \in ToSet(es) : \E i \in DOMAIN order : i >= 1 /\ order[i] = e
      BY <3>3, <3>4
    <3>7. es \in {<<Fallback>>, <<Primary, Fallback>>}
      BY <3>1
    <3>8. 1 \in 1 .. Len(order)
      BY <3>4
    <3> QED  BY <3>2, <3>6, <3>7, <3>8
  <2> QED  BY <2>1, <2>2
<1> HIDE DEF es, order
<1>3. /\ begun \in CallStates /\ begun.order = order /\ begun.at = 1
      /\ begun.pc = "asking" /\ begun.outcome = Null
  <2>1. /\ begun.order = order /\ begun.at = 1 /\ begun.pc = "asking" /\ begun.outcome = Null
        /\ Idle \in CallStates
    BY RpcAssumption DEF Idle, CallStates
  <2>2. order \in {<<>>} \cup {Resolved(u) : u \in Endpoints} \cup {<<Fallback, Primary>>}
    BY <1>2, ResolvedAre
  <2>3. begun \in CallStates
    BY <2>1, <2>2 DEF CallStates
  <2> QED  BY <2>1, <2>3
<1> HIDE DEF begun
<1>4. call' = [call EXCEPT ![c] = begun]
      /\ steady' = [steady EXCEPT ![c] = up \cap ToSet(es)]
  BY <1>1 DEF begun, order, es
<1>5. RpcTypeOK'
  BY <1>1, <1>3, <1>4 DEF RpcTypeOK
<1>6. SteadyAreAhead'
  <2> SUFFICES ASSUME NEW d \in Calls PROVE Ahead(d)'
    BY DEF SteadyAreAhead
  <2>1. CASE d = c
    <3>1. call'[c] = begun /\ steady'[c] = up \cap ToSet(es)
      BY <1>4 DEF RpcTypeOK
    <3> QED  BY <1>2, <1>3, <2>1, <3>1 DEF Ahead
  <2>2. CASE d # c
    <3>1. call'[d] = call[d] /\ steady'[d] = steady[d]
      BY <1>4, <2>2 DEF RpcTypeOK
    <3> QED  BY <3>1 DEF SteadyAreAhead, Ahead
  <2> QED  BY <2>1, <2>2
<1> QED  BY <1>5, <1>6

(* The call that asks, and the endpoint it asks.                           *)
LEMMA Asked ==
  ASSUME RpcInv, NEW c \in Calls, NEW a, Learns(c, a)
  PROVE  /\ call[c].pc = "asking" /\ call[c].at \in DOMAIN call[c].order
         /\ call[c].at \in {1, 2} /\ Len(call[c].order) \in {1, 2} /\ call[c].outcome = Null
         /\ Endpoint(c) = call[c].order[call[c].at]
         /\ Endpoint(c) \in Endpoints
         /\ a \in Unreached => Endpoint(c) \notin steady[c]
<1> USE DEF RpcInv
<1>1. /\ call[c].pc = "asking"
      /\ IF a \in Reached THEN a = call[c].reply ELSE Endpoint(c) \notin up
  BY DEF Learns
<1>2. call[c].at \in 1 .. Len(call[c].order) /\ call[c].outcome = Null
  BY <1>1 DEF SteadyAreAhead, Ahead
<1>3. /\ Len(call[c].order) \in {0, 1, 2} /\ DOMAIN call[c].order = 1 .. Len(call[c].order)
      /\ call[c].at \in {1, 2}
  BY RpcOrders DEF CallStates
<1>4. call[c].at \in DOMAIN call[c].order /\ Len(call[c].order) \in {1, 2}
  BY <1>2, <1>3
<1>5. Endpoint(c) = call[c].order[call[c].at] /\ Endpoint(c) \in Endpoints
  BY <1>4, RpcOrders DEF Endpoint, Endpoints
<1>6. steady[c] \subseteq up
  BY DEF RpcTypeOK
<1>7. a \in Unreached => Endpoint(c) \notin up
  BY <1>1 DEF Reached, Unreached
<1> QED  BY <1>1, <1>2, <1>3, <1>4, <1>5, <1>6, <1>7

LEMMA RetryStep ==
  ASSUME RpcInv, NEW c \in Calls, Retry(c)
  PROVE  RpcInv'
<1> USE DEF RpcInv
<1>1. /\ call' = [call EXCEPT ![c].attempt = @ + 1, ![c].reply = Null]
      /\ call[c].attempt < MaxAttempts
      /\ UNCHANGED <<up, sticky, steady>>
  BY DEF Retry, HasAttempts
<1>2. call[c] \in CallStates
  BY RpcOrders
<1> DEFINE again == [call[c] EXCEPT !.attempt = @ + 1, !.reply = Null]
<1>3. /\ again \in CallStates /\ again.order = call[c].order /\ again.at = call[c].at
      /\ again.pc = call[c].pc /\ again.outcome = call[c].outcome
  <2>1. call[c].attempt + 1 \in 1 .. MaxAttempts /\ Null \in Reached \cup {Null}
    BY <1>1, <1>2, RpcAssumption DEF CallStates
  <2> QED  BY <1>2, <2>1 DEF CallStates
<1>4. call' = [call EXCEPT ![c] = again]
  BY <1>1
<1> HIDE DEF again
<1>5. RpcTypeOK'
  BY <1>1, <1>3, <1>4 DEF RpcTypeOK
<1>6. SteadyAreAhead'
  <2> SUFFICES ASSUME NEW d \in Calls PROVE Ahead(d)'
    BY DEF SteadyAreAhead
  <2>1. /\ call'[d].pc = call[d].pc /\ call'[d].at = call[d].at
        /\ call'[d].order = call[d].order /\ call'[d].outcome = call[d].outcome
        /\ steady'[d] = steady[d]
    BY <1>1, <1>3, <1>4 DEF RpcTypeOK
  <2>2. Ahead(d)
    BY DEF SteadyAreAhead
  <2> HIDE DEF RpcInv
  <2> QED  BY <2>1, <2>2 DEF Ahead
<1> QED  BY <1>5, <1>6

(* The answer of a node changes nothing but what is on its way.            *)
LEMMA NodeAnswersStep ==
  ASSUME RpcInv, NEW c \in Calls, NEW a \in Reached, NodeAnswers(c, a)
  PROVE  RpcInv'
<1> USE DEF RpcInv
<1> DEFINE told == [call[c] EXCEPT !.reply = a]
<1>1. call' = [call EXCEPT ![c] = told] /\ UNCHANGED <<up, sticky, steady>>
  BY DEF NodeAnswers
<1>2. call[c] \in CallStates
  BY RpcOrders
<1>3. /\ told \in CallStates /\ told.order = call[c].order /\ told.at = call[c].at
      /\ told.pc = call[c].pc /\ told.outcome = call[c].outcome
  BY <1>2 DEF CallStates
<1> HIDE DEF told
<1>4. RpcTypeOK'
  BY <1>1, <1>3 DEF RpcTypeOK
<1>5. SteadyAreAhead'
  <2> SUFFICES ASSUME NEW d \in Calls PROVE Ahead(d)'
    BY DEF SteadyAreAhead
  <2>1. /\ call'[d].pc = call[d].pc /\ call'[d].at = call[d].at
        /\ call'[d].order = call[d].order /\ call'[d].outcome = call[d].outcome
        /\ steady'[d] = steady[d]
    BY <1>1, <1>3 DEF RpcTypeOK
  <2>2. Ahead(d)
    BY DEF SteadyAreAhead
  <2> HIDE DEF RpcInv
  <2> QED  BY <2>1, <2>2 DEF Ahead
<1> QED  BY <1>4, <1>5

(* The endpoint that is given up was down for a moment of the call: those  *)
(* that were up throughout are among the next.                             *)
LEMMA FailoverStep ==
  ASSUME RpcInv, NEW c \in Calls, Failover(c)
  PROVE  RpcInv'
<1> USE DEF RpcInv
<1>1. PICK a \in Reached \cup Unreached :
        /\ Learns(c, a) /\ a \in Unreached
        /\ call[c].at < Len(call[c].order)
        /\ sticky' = IF sticky = Endpoint(c) THEN Null ELSE sticky
        /\ call' = [call EXCEPT ![c].at = @ + 1, ![c].attempt = 1, ![c].reply = Null]
        /\ UNCHANGED <<up, steady>>
  BY DEF Failover, IsFailoverEligible, HasEndpoints, Unstick
<1> DEFINE next == [call[c] EXCEPT !.at = @ + 1, !.attempt = 1, !.reply = Null]
<1>2. /\ call[c].pc = "asking" /\ call[c].at \in {1, 2} /\ Len(call[c].order) \in {1, 2}
      /\ Endpoint(c) = call[c].order[call[c].at] /\ Endpoint(c) \notin steady[c]
      /\ Endpoint(c) \in Endpoints /\ call[c].outcome = Null
  BY <1>1, Asked
<1>3. /\ next \in CallStates /\ next.order = call[c].order /\ next.at = call[c].at + 1
      /\ next.pc = "asking" /\ next.at \in 1 .. Len(next.order) /\ next.outcome = Null
  <2>1. call[c] \in CallStates
    BY RpcOrders
  <2>2. call[c].at = 1 /\ Len(call[c].order) = 2
    <3> DEFINE at == call[c].at
               length == Len(call[c].order)
    <3>1. at < length /\ at \in {1, 2} /\ length \in {1, 2}
      BY <1>1, <1>2
    <3> HIDE DEF at, length
    <3>2. at = 1 /\ length = 2
      BY <3>1
    <3> QED  BY <3>2 DEF at, length
  <2>3. call[c].at + 1 = 2 /\ 1 \in 1 .. MaxAttempts
    BY <2>2, RpcAssumption
  <2>4. next.order = call[c].order /\ next.at = 2 /\ next.pc = "asking" /\ next.outcome = Null
    BY <1>2, <2>1, <2>3 DEF CallStates
  <2>5. next \in CallStates
    BY <2>1, <2>3 DEF CallStates
  <2> HIDE DEF next
  <2>6. Len(next.order) = 2
    BY <2>2, <2>4
  <2>7. next.at \in 1 .. Len(next.order)
    BY <2>4, <2>6
  <2> QED  BY <2>2, <2>4, <2>5, <2>7
<1>4. call' = [call EXCEPT ![c] = next]
  BY <1>1
<1> HIDE DEF next
<1>5. RpcTypeOK'
  <2>1. sticky' \in Endpoints \cup {Null}
    BY <1>1 DEF RpcTypeOK
  <2>2. next \in CallStates /\ UNCHANGED <<up, steady>>
    BY <1>1, <1>3
  <2>3. call' \in [Calls -> CallStates]
    BY <1>4, <2>2 DEF RpcTypeOK
  <2> QED  BY <2>1, <2>2, <2>3 DEF RpcTypeOK
<1>6. SteadyAreAhead'
  <2> SUFFICES ASSUME NEW d \in Calls PROVE Ahead(d)'
    BY DEF SteadyAreAhead
  <2>1. CASE d # c
    <3>1. call'[d] = call[d] /\ steady'[d] = steady[d]
      BY <1>1, <1>4, <2>1 DEF RpcTypeOK
    <3> QED  BY <3>1 DEF SteadyAreAhead, Ahead
  <2>2. CASE d = c
    <3>1. call'[c] = next /\ steady' = steady
      BY <1>1, <1>4 DEF RpcTypeOK
    <3>2. ASSUME NEW e \in steady[c]
          PROVE  \E i \in DOMAIN next.order : i >= next.at /\ next.order[i] = e
      <4>1. PICK i \in DOMAIN call[c].order : i >= call[c].at /\ call[c].order[i] = e
        BY <1>2 DEF SteadyAreAhead, Ahead
      <4>2. i # call[c].at
        BY <1>2, <4>1
      <4>3. i \in Nat
        BY RpcOrders
      <4>4. i >= call[c].at + 1
        BY <1>2, <4>1, <4>2, <4>3
      <4> QED  BY <1>3, <4>1, <4>4
    <3> QED  BY <1>3, <2>2, <3>1, <3>2 DEF Ahead
  <2> QED  BY <2>1, <2>2
<1> QED  BY <1>5, <1>6

(* A call ends, whatever the sticky endpoint becomes.                      *)
LEMMA EndStep ==
  ASSUME RpcInv, NEW c \in Calls, NEW a, Learns(c, a), End(c, a),
         sticky' = Endpoint(c) \/ Unstick(c)
  PROVE  RpcInv'
<1> USE DEF RpcInv
<1>1. PICK o \in OutcomesOf(a) : call' = [call EXCEPT ![c] = [Idle EXCEPT !.outcome = o]]
  BY DEF End
<1> DEFINE ended == [Idle EXCEPT !.outcome = o]
<1>2. /\ steady' = [steady EXCEPT ![c] = {}]
      /\ UNCHANGED up
  BY DEF End
<1>3. Endpoint(c) \in Endpoints
  BY Asked
<1>4. o \in Outcomes
  BY DEF OutcomesOf, Outcomes
<1>5. ended \in CallStates /\ ended.pc = "idle"
  BY <1>4, RpcAssumption DEF Idle, CallStates
<1> HIDE DEF ended
<1>6. call' = [call EXCEPT ![c] = ended]
  BY <1>1 DEF ended
<1>7. sticky' \in Endpoints \cup {Null}
  BY <1>3 DEF Unstick, RpcTypeOK
<1>8. RpcTypeOK'
  BY <1>2, <1>5, <1>6, <1>7 DEF RpcTypeOK
<1>9. SteadyAreAhead'
  <2> SUFFICES ASSUME NEW d \in Calls PROVE Ahead(d)'
    BY DEF SteadyAreAhead
  <2>1. CASE d = c
    BY <1>5, <1>6, <2>1 DEF Ahead, RpcTypeOK
  <2>2. CASE d # c
    <3>1. call'[d] = call[d] /\ steady'[d] = steady[d]
      BY <1>2, <1>6, <2>2 DEF RpcTypeOK
    <3> QED  BY <3>1 DEF SteadyAreAhead, Ahead
  <2> QED  BY <2>1, <2>2
<1> QED  BY <1>8, <1>9

LEMMA ChangeStep ==
  ASSUME RpcInv, NEW e \in Endpoints, Change(e)
  PROVE  RpcInv'
<1> USE DEF RpcInv
<1>1. /\ up' = IF e \in up THEN up \ {e} ELSE up \cup {e}
      /\ steady' = [c \in Calls |-> steady[c] \ {e}]
      /\ UNCHANGED <<sticky, call>>
  BY DEF Change
<1>2. RpcTypeOK'
  BY <1>1 DEF RpcTypeOK
<1>3. SteadyAreAhead'
  BY <1>1 DEF SteadyAreAhead, Ahead
<1> QED  BY <1>2, <1>3

LEMMA RpcStep ==
  ASSUME RpcInv, [RpcNext]_(rpcVars)
  PROVE  RpcInv'
<1>1. ASSUME NEW c \in Calls, Succeed(c) PROVE RpcInv'
  BY <1>1, EndStep DEF Succeed
<1>2. ASSUME NEW c \in Calls, FailCall(c) PROVE RpcInv'
  BY <1>2, EndStep DEF FailCall
<1>3. CASE UNCHANGED rpcVars
  BY <1>3 DEF rpcVars, RpcInv, RpcTypeOK, SteadyAreAhead, Ahead
<1> QED  BY <1>1, <1>2, <1>3, BeginCallStep, NodeAnswersStep, RetryStep, FailoverStep, ChangeStep DEF RpcNext

(* The invariant holds: every call has its reachable endpoints before it.  *)
THEOREM RpcInvariant == RpcSpec => []RpcInv
<1>1. RpcInit => RpcInv
  BY RpcStarts
<1>2. RpcInv /\ [RpcNext]_(rpcVars) => RpcInv'
  BY RpcStep
<1> QED  BY <1>1, <1>2, PTL DEF RpcSpec

(* Type correctness of the JSON-RPC client.                                *)
THEOREM RpcTypeCorrect == RpcSpec => []RpcTypeOK
<1>1. RpcInv => RpcTypeOK
  BY DEF RpcInv
<1> QED  BY RpcInvariant, <1>1, PTL

(* A call ends as unavailable only when no endpoint it may ask was up      *)
(* throughout: those given up were down when they were asked, and the      *)
(* others are still ahead.                                                 *)
THEOREM ReachableAreServed == RpcSpec => ReachableIsServed
<1>1. RpcInv /\ [RpcNext]_(rpcVars) =>
        [\A c \in Calls : call[c].pc = "asking" /\ call'[c].outcome = "RPC_UNAVAILABLE"
                            => steady[c] = {}]_(rpcVars)
  <2> SUFFICES ASSUME RpcInv, RpcNext,
                      NEW c \in Calls, call[c].pc = "asking",
                      call'[c].outcome = "RPC_UNAVAILABLE"
               PROVE  steady[c] = {}
    OBVIOUS
  <2> USE DEF RpcInv
  <2>1. ASSUME NEW d \in Calls, NEW a \in Reached \cup Unreached, Learns(d, a), End(d, a),
               ~IsData(a), ~(IsFailoverEligible(a) /\ HasEndpoints(d)), d = c
        PROVE  steady[c] = {}
    <3>1. a \in Unreached
      <4>1. PICK o \in OutcomesOf(a) : call' = [call EXCEPT ![c] = [Idle EXCEPT !.outcome = o]]
        BY <2>1 DEF End
      <4>2. call'[c].outcome = o
        BY <4>1 DEF RpcTypeOK, Idle
      <4>3. a \notin {"data", "misshapen", "malformed", "methodError"}
        BY <4>1, <4>2 DEF OutcomesOf
      <4> QED  BY <2>1, <4>3 DEF Reached
    <3>2. ~(call[c].at < Len(call[c].order))
      BY <2>1, <3>1 DEF IsFailoverEligible, HasEndpoints
    <3>3. /\ call[c].at \in DOMAIN call[c].order
          /\ Endpoint(c) = call[c].order[call[c].at] /\ Endpoint(c) \notin steady[c]
      BY <2>1, <3>1, Asked
    <3>4. \A i \in DOMAIN call[c].order : i >= call[c].at => i = call[c].at
      <4>1. DOMAIN call[c].order = 1 .. Len(call[c].order) /\ Len(call[c].order) \in Nat
        BY RpcOrders
      <4> QED  BY <3>2, <3>3, <4>1
    <3>5. \A e \in steady[c] :
            \E i \in DOMAIN call[c].order : i >= call[c].at /\ call[c].order[i] = e
      BY DEF SteadyAreAhead, Ahead
    <3> QED  BY <3>3, <3>4, <3>5
  <2>2. call[c].outcome = Null /\ Null # "RPC_UNAVAILABLE"
    BY RpcAssumption DEF SteadyAreAhead, Ahead, Outcomes
  <2>3. call'[c].outcome # call[c].outcome
    BY <2>2
  <2> HIDE DEF RpcInv
  <2>4. ASSUME NEW d \in Calls, BeginCall(d) PROVE FALSE
    <3>1. d # c
      BY <2>4 DEF BeginCall
    <3> QED  BY <2>3, <2>4, <3>1 DEF BeginCall, RpcInv, RpcTypeOK
  <2>5. ASSUME NEW d \in Calls, Retry(d) \/ Failover(d) PROVE FALSE
    <3>1. call[d] \in CallStates
      BY DEF RpcInv, RpcTypeOK
    <3> DEFINE again == [call[d] EXCEPT !.attempt = @ + 1, !.reply = Null]
               next  == [call[d] EXCEPT !.at = @ + 1, !.attempt = 1, !.reply = Null]
    <3>2. again.outcome = call[d].outcome /\ next.outcome = call[d].outcome
      BY <3>1 DEF CallStates
    <3>3. call' = [call EXCEPT ![d] = again] \/ call' = [call EXCEPT ![d] = next]
      BY <2>5 DEF Retry, Failover
    <3> HIDE DEF again, next
    <3>4. call'[c].outcome = call[c].outcome
      BY <3>2, <3>3 DEF RpcInv, RpcTypeOK
    <3> QED  BY <2>3, <3>4
  <2>6. ASSUME NEW d \in Calls, NEW a \in Reached \cup Unreached, Learns(d, a), End(d, a)
        PROVE  d = c
    BY <2>3, <2>6 DEF End, RpcInv, RpcTypeOK
  <2>7. ASSUME NEW d \in Calls, Succeed(d) PROVE FALSE
    <3>1. PICK a \in Reached \cup Unreached : Learns(d, a) /\ IsData(a) /\ End(d, a)
      BY <2>7 DEF Succeed
    <3>2. d = c
      BY <2>6, <3>1
    <3>3. PICK o \in OutcomesOf(a) : call' = [call EXCEPT ![c] = [Idle EXCEPT !.outcome = o]]
      BY <3>1, <3>2 DEF End
    <3>4. o # "RPC_UNAVAILABLE"
      BY <3>1, <3>3 DEF IsData, OutcomesOf
    <3> QED  BY <3>3, <3>4 DEF RpcInv, RpcTypeOK, Idle
  <2>8. ASSUME NEW d \in Calls, FailCall(d) PROVE steady[c] = {}
    BY <2>1, <2>6, <2>8 DEF FailCall
  <2>9. ASSUME NEW e \in Endpoints, Change(e) PROVE FALSE
    BY <2>3, <2>9 DEF Change
  <2>10. ASSUME NEW d \in Calls, NEW a \in Reached, NodeAnswers(d, a) PROVE FALSE
    <3> DEFINE told == [call[d] EXCEPT !.reply = a]
    <3>1. call[d] \in CallStates
      BY DEF RpcInv, RpcTypeOK
    <3>2. told.outcome = call[d].outcome
      BY <3>1 DEF CallStates
    <3>3. call' = [call EXCEPT ![d] = told]
      BY <2>10 DEF NodeAnswers
    <3> HIDE DEF told
    <3>4. call'[c].outcome = call[c].outcome
      BY <3>2, <3>3 DEF RpcInv, RpcTypeOK
    <3> QED  BY <2>3, <3>4
  <2> QED  BY <2>4, <2>5, <2>7, <2>8, <2>9, <2>10 DEF RpcNext
<1> QED  BY RpcInvariant, <1>1, PTL DEF ReachableIsServed, RpcSpec
-----------------------------------------------------------------------------
(* The wallet session of a browser tab.                                    *)

(* Past the accounts, a login knows its wallet.                            *)
LoginsKnowWallets ==
  \A l \in Logins : login[l].pc \notin {"idle", "accounts"} => login[l].wallet \in Wallets

(* What a claim asks for was approved by a wallet.                         *)
PairIsApproved ==
  /\ pair # None /\ pair.status = "approved" => pair.by \in Wallets
  /\ claim = "asked" => pair # None /\ pair.status = "approved"

(* While the user is at the Hub it is known what was asked there.          *)
HubIsAsked ==
  page = "hub" =>
    /\ requests \in [command : {"choose", "sign"}, wallet : Wallets \cup {None}]
    /\ requests.command = "sign" => requests.wallet \in Wallets

(* Once boot has read the stored session, it is what is shown: a login     *)
(* that ends at any later moment changes both.                             *)
InStep == page # "boot" => address = IF stored = None THEN None ELSE stored.address

StoredWasGranted == stored # None => stored.address \in granted

(* The parts of the type invariant.                                        *)
TabTyped ==
  /\ device \in Devices
  /\ page \in {"boot", "me", "setup", "ready", "hub"}
  /\ connecting \in BOOLEAN /\ timer \in BOOLEAN /\ skip \in BOOLEAN
  /\ status \in {None, "redirecting", "prompt", "opening", "in-progress", "handoff"}
  /\ flight \subseteq {"hub", "connect"}
  /\ deeplink \in {"none", "pending", "left"} /\ (timer => deeplink = "pending")
  /\ auto \in {"idle", "waiting", "over"} /\ claim \in {"none", "asked", "failed"}

LoadsTyped == loads \in 0 .. MaxLoads

SessionTyped ==
  /\ cookie \in Wallets \cup {None} /\ address \in Wallets \cup {None}
  /\ stored \in Sessions \cup {None}
  /\ granted \subseteq Wallets

HubTyped ==
  /\ url \in [ok : BOOLEAN, wallet : Wallets] \cup {None}
  /\ requests \in [command : {"choose", "sign"}, wallet : Wallets \cup {None}] \cup {None}
  /\ url # None => page \in {"boot", "me", "setup"}

LoginStates == [ pc     : {"idle", "accounts", "challenge", "sign", "verify",
                           "hub-challenge", "hub-verify"},
                 wallet : Wallets \cup {None} ]

LoginTyped == login \in [Logins -> LoginStates]

PairTyped == pair \in [status : {"waiting", "approved"}, by : Wallets \cup {None}] \cup {None}

Typed == TabTyped /\ LoadsTyped /\ SessionTyped /\ HubTyped /\ LoginTyped /\ PairTyped

LEMMA TypedParts == Typed <=> WalletTypeOK
BY DEF Typed, TabTyped, LoadsTyped, SessionTyped, HubTyped, LoginTyped, LoginStates, PairTyped, WalletTypeOK

WalletInv ==
  /\ Typed
  /\ LoginsKnowWallets /\ PairIsApproved /\ HubIsAsked /\ InStep /\ StoredWasGranted

LEMMA LoadedLogins ==
  ASSUME login' = [l \in Logins |-> NoLogin]
  PROVE  LoginTyped' /\ LoginsKnowWallets'
BY DEF LoginTyped, LoginStates, LoginsKnowWallets, NoLogin

LEMMA LoginUpdated ==
  ASSUME WalletInv, NEW l \in Logins, NEW r \in LoginStates,
         r.pc \notin {"idle", "accounts"} => r.wallet \in Wallets,
         login' = [login EXCEPT ![l] = r]
  PROVE  LoginTyped' /\ LoginsKnowWallets'
BY DEF WalletInv, Typed, LoginTyped, LoginsKnowWallets

LEMMA NoLoginIs ==
  /\ NoLogin \in LoginStates /\ NoLogin.pc = "idle"
  /\ Logins = {"user", "auto", "hub"}
BY DEF NoLogin, LoginStates, Logins

LEMMA WalletStarts == ASSUME WalletInit PROVE WalletInv
<1> USE DEF WalletInit
<1>1. TabTyped
  BY DEF TabTyped
<1>4. LoadsTyped
  BY WalletAssumption DEF LoadsTyped
<1>5. SessionTyped /\ HubTyped /\ PairTyped
  BY DEF SessionTyped, HubTyped, PairTyped
<1>2. LoginTyped /\ LoginsKnowWallets
  BY DEF LoginTyped, LoginStates, LoginsKnowWallets, NoLogin
<1>3. PairIsApproved /\ HubIsAsked /\ InStep /\ StoredWasGranted
  BY DEF PairIsApproved, HubIsAsked, InStep, StoredWasGranted
<1> QED  BY <1>1, <1>2, <1>3, <1>4, <1>5 DEF WalletInv, Typed

(* What a step leaves alone stays as it should be.                         *)
LEMMA WalletFrames ==
  ASSUME WalletInv
  PROVE  /\ UNCHANGED <<url, requests, page>> => HubTyped' /\ HubIsAsked'
         /\ UNCHANGED login => LoginTyped' /\ LoginsKnowWallets'
         /\ UNCHANGED <<pair, claim>> => PairTyped' /\ PairIsApproved'
         /\ UNCHANGED <<cookie, address, stored, granted>> => SessionTyped' /\ StoredWasGranted'
         /\ UNCHANGED <<page, address, stored>> => InStep'
         /\ UNCHANGED loads => LoadsTyped'
<1> USE DEF WalletInv, Typed
<1>1. UNCHANGED <<url, requests, page>> => HubTyped' /\ HubIsAsked'
  BY DEF HubTyped, HubIsAsked
<1>2. UNCHANGED login => LoginTyped' /\ LoginsKnowWallets'
  BY DEF LoginTyped, LoginStates, LoginsKnowWallets
<1>3. UNCHANGED <<pair, claim>> => PairTyped' /\ PairIsApproved'
  BY DEF PairTyped, PairIsApproved
<1>4. UNCHANGED <<cookie, address, stored, granted>> => SessionTyped' /\ StoredWasGranted'
  BY DEF SessionTyped, StoredWasGranted
<1>5. UNCHANGED <<page, address, stored>> => InStep'
  BY DEF InStep
<1>6. UNCHANGED loads => LoadsTyped'
  BY DEF LoadsTyped
<1> QED  BY <1>1, <1>2, <1>3, <1>4, <1>5, <1>6

(* A session the server gave is stored, and shown.                         *)
LEMMA SessionApplied ==
  ASSUME WalletInv, NEW w \in Wallets, NEW t \in BOOLEAN,
         ApplySession(w, t), page # "boot" \/ page' # "boot"
  PROVE  SessionTyped' /\ StoredWasGranted' /\ InStep' /\ auto' \in {"idle", "waiting", "over"}
<1> USE DEF WalletInv, Typed
<1>1. /\ cookie' = w /\ granted' = granted \cup {w} /\ stored' = Stored(w, t)
      /\ address' = w /\ auto' = AutoAfter(w)
  BY DEF ApplySession
<1>2. Stored(w, t) \in Sessions /\ Stored(w, t).address = w
      /\ Stored(w, t) # None
  BY WalletAssumption DEF Stored, Sessions
<1>3. SessionTyped'
  BY <1>1, <1>2 DEF SessionTyped
<1>4. StoredWasGranted' /\ InStep'
  BY <1>1, <1>2 DEF StoredWasGranted, InStep
<1>5. auto' \in {"idle", "waiting", "over"}
  BY <1>1 DEF AutoAfter, TabTyped
<1> QED  BY <1>3, <1>4, <1>5

(* The session is dropped, and so is what is shown.                        *)
LEMMA SessionDropped ==
  ASSUME WalletInv, stored' = None, address' = None, UNCHANGED <<cookie, granted>>
  PROVE  SessionTyped' /\ StoredWasGranted' /\ InStep'
BY DEF WalletInv, Typed, SessionTyped, StoredWasGranted, InStep

(* A reload forgets the tab and keeps the storage.                         *)
LEMMA ReloadStep ==
  ASSUME WalletInv, Reload
  PROVE  WalletInv'
<1> USE DEF WalletInv, Typed
<1>1. TabTyped'
  BY DEF Reload, shell, hub, TabTyped, Load
<1>2. LoadsTyped'
  BY WalletAssumption DEF Reload, shell, hub, LoadsTyped
<1>3. SessionTyped' /\ StoredWasGranted'
  BY DEF Reload, shell, hub, SessionTyped, StoredWasGranted, Load
<1>4. HubTyped' /\ HubIsAsked'
  BY DEF Reload, shell, hub, HubTyped, HubIsAsked, Load
<1>5. LoginTyped' /\ LoginsKnowWallets'
  BY LoadedLogins DEF Reload, shell, hub, LoginTyped, LoginsKnowWallets, LoginStates, Load
<1>6. PairTyped' /\ PairIsApproved'
  BY DEF Reload, shell, hub, PairTyped, PairIsApproved, Load
<1>7. InStep'
  BY DEF Reload, shell, hub, InStep, Load
<1> QED  BY <1>1, <1>2, <1>3, <1>4, <1>5, <1>6, <1>7

LEMMA BootSessionStep ==
  ASSUME WalletInv, BootSession
  PROVE  WalletInv'
<1> USE DEF WalletInv, Typed
<1>1. TabTyped'
  BY DEF BootSession, shell, hub, qr, TabTyped
<1>2. SessionTyped' /\ StoredWasGranted'
  BY DEF BootSession, shell, hub, qr, SessionTyped, StoredWasGranted, Sessions
<1>3. HubTyped' /\ HubIsAsked'
  BY DEF BootSession, shell, hub, qr, HubTyped, HubIsAsked
<1>4. InStep'
  BY DEF BootSession, shell, hub, qr, InStep
<1>5. LoadsTyped' /\ LoginTyped' /\ LoginsKnowWallets' /\ PairTyped' /\ PairIsApproved'
  BY WalletFrames DEF BootSession, shell, hub, qr
<1> QED  BY <1>1, <1>2, <1>3, <1>4, <1>5

LEMMA MeAnswersStep ==
  ASSUME WalletInv, NEW ok \in BOOLEAN, MeAnswers(ok)
  PROVE  WalletInv'
<1> USE DEF WalletInv, Typed
<1>1. TabTyped'
  BY DEF MeAnswers, shell, hub, qr, TabTyped
<1>2. SessionTyped' /\ StoredWasGranted'
  BY DEF MeAnswers, shell, hub, qr, SessionTyped, StoredWasGranted
<1>3. HubTyped' /\ HubIsAsked'
  BY DEF MeAnswers, shell, hub, qr, HubTyped, HubIsAsked
<1>4. InStep'
  BY DEF MeAnswers, shell, hub, qr, InStep
<1>5. LoadsTyped' /\ LoginTyped' /\ LoginsKnowWallets' /\ PairTyped' /\ PairIsApproved'
  BY WalletFrames DEF MeAnswers, shell, hub, qr
<1> QED  BY <1>1, <1>2, <1>3, <1>4, <1>5

(* The answer of the Hub names a wallet, and the login that goes on knows it. *)
LEMMA SetupStep ==
  ASSUME WalletInv, Setup
  PROVE  WalletInv'
<1> USE DEF WalletInv, Typed
<1>1. TabTyped'
  BY DEF Setup, shell, qr, TabTyped
<1>2. HubTyped' /\ HubIsAsked'
  BY DEF Setup, shell, qr, HubTyped, HubIsAsked
<1>3. LoginTyped' /\ LoginsKnowWallets'
  <2>1. CASE login' = login
    BY <2>1, WalletFrames
  <2>2. CASE login' # login
    <3> DEFINE r == [ pc     |-> IF requests.command = "choose" THEN "hub-challenge"
                                                                ELSE "hub-verify",
                      wallet |-> url.wallet ]
    <3>1. url # None /\ login' = [login EXCEPT !["hub"] = r]
      BY <2>2 DEF Setup
    <3>2. r \in LoginStates /\ r.wallet \in Wallets
      BY <3>1 DEF HubTyped, LoginStates
    <3> HIDE DEF r
    <3> QED  BY <3>1, <3>2, LoginUpdated, NoLoginIs
  <2> QED  BY <2>1, <2>2
<1>4. InStep'
  BY DEF Setup, shell, qr, InStep
<1>5. LoadsTyped' /\ SessionTyped' /\ StoredWasGranted' /\ PairTyped' /\ PairIsApproved'
  BY WalletFrames DEF Setup, shell, qr
<1> QED  BY <1>1, <1>2, <1>3, <1>4, <1>5

(* Nothing but a login, a redirect or the button comes of connect.         *)
LEMMA BeginConnectKeeps ==
  ASSUME WalletInv, page = "ready", NEW l \in Logins, NEW redirect \in BOOLEAN,
         BeginConnect(l, redirect)
  PROVE  /\ page' \in {"ready", "hub"} /\ connecting' \in BOOLEAN /\ timer' \in BOOLEAN
         /\ status' \in {None, "redirecting", "prompt", "opening", "in-progress", "handoff"}
         /\ flight' \subseteq {"hub", "connect"}
         /\ deeplink' \in {"none", "pending", "left"} /\ (timer' => deeplink' = "pending")
         /\ HubTyped' /\ HubIsAsked' /\ LoginTyped' /\ LoginsKnowWallets'
<1> USE DEF WalletInv, Typed
<1> DEFINE r == [pc |-> "accounts", wallet |-> None]
<1>1. CASE UNCHANGED <<page, flight, deeplink, timer, url, requests, login>> /\ connecting' = TRUE
  <2>1. HubTyped' /\ HubIsAsked' /\ LoginTyped' /\ LoginsKnowWallets'
    BY <1>1, WalletFrames
  <2>2. status' \in {None, "redirecting", "prompt", "opening", "in-progress", "handoff"}
    BY DEF BeginConnect, Start, TabTyped
  <2> QED  BY <1>1, <2>1, <2>2 DEF TabTyped
<1>2. CASE Start(l, redirect)
  <2>1. CASE redirect
    <3>1. /\ page' = "hub" /\ connecting' = TRUE /\ status' = "redirecting"
          /\ flight' = {"hub", "connect"} /\ deeplink' = "none" /\ timer' = FALSE
          /\ requests' = [command |-> "choose", wallet |-> None]
          /\ UNCHANGED <<url, login>>
      BY <1>2, <2>1 DEF Start
    <3>2. LoginTyped' /\ LoginsKnowWallets'
      BY <3>1, WalletFrames
    <3>3. HubTyped' /\ HubIsAsked'
      BY <3>1 DEF HubTyped, HubIsAsked
    <3> QED  BY <3>1, <3>2, <3>3
  <2>2. CASE ~redirect
    <3>1. UNCHANGED <<page, url, requests>> /\ HubTyped' /\ HubIsAsked'
      BY <1>2, <2>2, WalletFrames DEF Start, hub
    <3>2. LoginTyped' /\ LoginsKnowWallets'
      <4>1. login' = login \/ login' = [login EXCEPT ![l] = r]
        BY <1>2, <2>2 DEF Start
      <4>2. r \in LoginStates /\ r.pc = "accounts"
        BY DEF LoginStates
      <4> HIDE DEF r
      <4> QED  BY <4>1, <4>2, LoginUpdated, WalletFrames
    <3>3. /\ connecting' \in BOOLEAN /\ timer' \in BOOLEAN
          /\ status' \in {None, "redirecting", "prompt", "opening", "in-progress", "handoff"}
          /\ flight' \subseteq {"hub", "connect"}
          /\ deeplink' \in {"none", "pending", "left"} /\ (timer' => deeplink' = "pending")
      BY <1>2, <2>2 DEF Start
    <3> QED  BY <3>1, <3>2, <3>3
  <2> QED  BY <2>1, <2>2
<1> QED  BY <1>1, <1>2 DEF BeginConnect, hub

LEMMA ConnectStep ==
  ASSUME WalletInv, NEW redirect \in BOOLEAN, Connect(redirect)
  PROVE  WalletInv'
<1> USE DEF WalletInv, Typed
<1>1. TabTyped'
  BY BeginConnectKeeps, NoLoginIs DEF Connect, shell, qr, TabTyped
<1>2. HubTyped' /\ HubIsAsked'
  BY BeginConnectKeeps, NoLoginIs DEF Connect, shell, qr, HubTyped, HubIsAsked
<1>3. LoginTyped' /\ LoginsKnowWallets'
  BY BeginConnectKeeps, NoLoginIs DEF Connect, shell, qr, LoginTyped, LoginsKnowWallets, LoginStates
<1>4. InStep'
  BY BeginConnectKeeps, NoLoginIs DEF Connect, shell, qr, InStep
<1>5. LoadsTyped' /\ SessionTyped' /\ StoredWasGranted' /\ PairTyped' /\ PairIsApproved'
  BY WalletFrames DEF Connect, shell, qr
<1> QED  BY <1>1, <1>2, <1>3, <1>4, <1>5

LEMMA AutoStartStep ==
  ASSUME WalletInv, AutoStart
  PROVE  WalletInv'
<1> USE DEF WalletInv, Typed
<1>1. TabTyped'
  BY DEF AutoStart, shell, hub, qr, TabTyped
<1>2. LoadsTyped' /\ SessionTyped' /\ StoredWasGranted' /\ HubTyped' /\ HubIsAsked' /\ LoginTyped' /\ LoginsKnowWallets' /\ PairTyped' /\ PairIsApproved' /\ InStep'
  BY WalletFrames DEF AutoStart, shell, hub, qr
<1> QED  BY <1>1, <1>2

LEMMA AutoConnectStep ==
  ASSUME WalletInv, NEW visible \in BOOLEAN, AutoConnect(visible)
  PROVE  WalletInv'
<1> USE DEF WalletInv, Typed
<1>1. TabTyped'
  BY BeginConnectKeeps, NoLoginIs DEF AutoConnect, shell, qr, hub, TabTyped
<1>2. HubTyped' /\ HubIsAsked'
  BY BeginConnectKeeps, NoLoginIs, WalletFrames DEF AutoConnect, shell, qr, hub, HubTyped, HubIsAsked
<1>3. LoginTyped' /\ LoginsKnowWallets'
  BY BeginConnectKeeps, NoLoginIs, WalletFrames DEF AutoConnect, shell, qr, hub, LoginTyped, LoginsKnowWallets, LoginStates
<1>4. InStep'
  BY BeginConnectKeeps, NoLoginIs DEF AutoConnect, shell, qr, hub, InStep
<1>5. LoadsTyped' /\ SessionTyped' /\ StoredWasGranted' /\ PairTyped' /\ PairIsApproved'
  BY WalletFrames DEF AutoConnect, shell, qr, hub
<1> QED  BY <1>1, <1>2, <1>3, <1>4, <1>5

LEMMA LoginGoesOnStep ==
  ASSUME WalletInv, NEW l \in Logins, LoginGoesOn(l)
  PROVE  WalletInv'
<1> USE DEF WalletInv, Typed
<1>1. login[l] \in LoginStates
  BY DEF LoginTyped
<1>2. LoginTyped' /\ LoginsKnowWallets'
  <2>1. CASE login[l].pc = "accounts"
    <3>1. PICK w \in Wallets : login' = [login EXCEPT ![l] = [pc |-> "challenge", wallet |-> w]]
      BY <2>1 DEF LoginGoesOn
    <3> DEFINE r == [pc |-> "challenge", wallet |-> w]
    <3>2. r \in LoginStates /\ r.wallet \in Wallets
      BY DEF LoginStates
    <3> HIDE DEF r
    <3> QED  BY <3>1, <3>2, LoginUpdated DEF r
  <2>2. ASSUME NEW next \in {"sign", "verify"}, login[l].pc \in {"challenge", "sign"},
               login' = [login EXCEPT ![l].pc = next]
        PROVE  LoginTyped' /\ LoginsKnowWallets'
    <3> DEFINE r == [login[l] EXCEPT !.pc = next]
    <3>1. r \in LoginStates /\ r.wallet = login[l].wallet
      BY <1>1 DEF LoginStates
    <3>2. login[l].wallet \in Wallets
      BY <2>2 DEF LoginsKnowWallets
    <3>3. login' = [login EXCEPT ![l] = r]
      BY <2>2
    <3> HIDE DEF r
    <3> QED  BY <3>1, <3>2, <3>3, LoginUpdated
  <2> QED  BY <2>1, <2>2 DEF LoginGoesOn
<1>3. TabTyped'
  BY DEF LoginGoesOn, shell, hub, qr, TabTyped
<1>4. LoadsTyped' /\ SessionTyped' /\ StoredWasGranted' /\ HubTyped' /\ HubIsAsked'
      /\ PairTyped' /\ PairIsApproved' /\ InStep'
  BY WalletFrames DEF LoginGoesOn, shell, hub, qr
<1> QED  BY <1>2, <1>3, <1>4

(* A login that was verified shows the wallet that signed.                 *)
LEMMA LoginVerifiedStep ==
  ASSUME WalletInv, NEW l \in Logins, LoginVerified(l)
  PROVE  WalletInv'
<1> USE DEF WalletInv, Typed
<1>1. /\ page = "ready" /\ login[l].wallet \in Wallets
      /\ ApplySession(login[l].wallet, TRUE)
      /\ login' = [login EXCEPT ![l] = NoLogin]
  BY DEF LoginVerified, LoginsKnowWallets
<1>2. SessionTyped' /\ StoredWasGranted' /\ InStep' /\ auto' \in {"idle", "waiting", "over"}
  BY <1>1, SessionApplied
<1>3. LoginTyped' /\ LoginsKnowWallets'
  BY <1>1, NoLoginIs, LoginUpdated
<1>4. TabTyped'
  BY <1>2 DEF LoginVerified, Finally, hub, qr, TabTyped
<1>5. LoadsTyped' /\ HubTyped' /\ HubIsAsked' /\ PairTyped' /\ PairIsApproved'
  BY WalletFrames DEF LoginVerified, hub, qr
<1> QED  BY <1>2, <1>3, <1>4, <1>5

LEMMA LoginFailsStep ==
  ASSUME WalletInv, NEW l \in Logins, LoginFails(l)
  PROVE  WalletInv'
<1> USE DEF WalletInv, Typed
<1>1. TabTyped'
  BY DEF LoginFails, shell, hub, qr, TabTyped, Finally
<1>2. LoginTyped' /\ LoginsKnowWallets'
  BY NoLoginIs, LoginUpdated DEF LoginFails, shell, hub, qr, LoginTyped, LoginsKnowWallets, LoginStates
<1>3. LoadsTyped' /\ SessionTyped' /\ StoredWasGranted' /\ HubTyped' /\ HubIsAsked' /\ PairTyped' /\ PairIsApproved' /\ InStep'
  BY WalletFrames DEF LoginFails, shell, hub, qr
<1> QED  BY <1>1, <1>2, <1>3

(* The Hub answers for the wallet that was asked, or for any.              *)
LEMMA HubReturnsStep ==
  ASSUME WalletInv, NEW ok \in BOOLEAN, NEW kept \in BOOLEAN, HubReturns(ok, kept)
  PROVE  WalletInv'
<1> USE DEF WalletInv, Typed
<1>1. TabTyped'
  BY DEF HubReturns, TabTyped, Load
<1>2. LoadsTyped'
  BY WalletAssumption DEF HubReturns, LoadsTyped
<1>3. SessionTyped' /\ StoredWasGranted'
  BY DEF HubReturns, SessionTyped, StoredWasGranted, Load
<1>4. HubTyped' /\ HubIsAsked'
  BY DEF HubReturns, HubTyped, HubIsAsked, Load
<1>5. LoginTyped' /\ LoginsKnowWallets'
  BY LoadedLogins DEF HubReturns, LoginTyped, LoginsKnowWallets, LoginStates, Load
<1>6. PairTyped' /\ PairIsApproved'
  BY DEF HubReturns, PairTyped, PairIsApproved, Load
<1>7. InStep'
  BY DEF HubReturns, InStep, Load
<1> QED  BY <1>1, <1>2, <1>3, <1>4, <1>5, <1>6, <1>7

LEMMA HubBackStep ==
  ASSUME WalletInv, HubBack
  PROVE  WalletInv'
<1> USE DEF WalletInv, Typed
<1>1. TabTyped'
  BY DEF HubBack, ResetAbandoned, Orphaned, shell, hub, qr, TabTyped
<1>2. HubTyped' /\ HubIsAsked'
  BY DEF HubBack, ResetAbandoned, Orphaned, shell, hub, qr, HubTyped, HubIsAsked
<1>3. InStep'
  BY DEF HubBack, ResetAbandoned, Orphaned, shell, hub, qr, InStep
<1>4. LoadsTyped' /\ SessionTyped' /\ StoredWasGranted' /\ LoginTyped' /\ LoginsKnowWallets' /\ PairTyped' /\ PairIsApproved'
  BY WalletFrames DEF HubBack, ResetAbandoned, Orphaned, shell, hub, qr
<1> QED  BY <1>1, <1>2, <1>3, <1>4

LEMMA HubChallengeStep ==
  ASSUME WalletInv, HubChallenge
  PROVE  WalletInv'
<1> USE DEF WalletInv, Typed
<1>1. TabTyped'
  BY DEF HubChallenge, shell, qr, TabTyped
<1>2. HubTyped' /\ HubIsAsked'
  BY NoLoginIs DEF HubChallenge, shell, qr, HubTyped, HubIsAsked, LoginTyped, LoginStates, LoginsKnowWallets
<1>3. LoginTyped' /\ LoginsKnowWallets'
  BY NoLoginIs, LoginUpdated DEF HubChallenge, shell, qr, LoginTyped, LoginsKnowWallets, LoginStates
<1>4. InStep'
  BY DEF HubChallenge, shell, qr, InStep
<1>5. LoadsTyped' /\ SessionTyped' /\ StoredWasGranted' /\ PairTyped' /\ PairIsApproved'
  BY WalletFrames DEF HubChallenge, shell, qr
<1> QED  BY <1>1, <1>2, <1>3, <1>4, <1>5

LEMMA HubChallengeFailsStep ==
  ASSUME WalletInv, HubChallengeFails
  PROVE  WalletInv'
<1> USE DEF WalletInv, Typed
<1>1. TabTyped'
  BY DEF HubChallengeFails, shell, hub, qr, TabTyped
<1>2. LoginTyped' /\ LoginsKnowWallets'
  BY NoLoginIs, LoginUpdated DEF HubChallengeFails, shell, hub, qr, LoginTyped, LoginsKnowWallets, LoginStates
<1>3. LoadsTyped' /\ SessionTyped' /\ StoredWasGranted' /\ HubTyped' /\ HubIsAsked' /\ PairTyped' /\ PairIsApproved' /\ InStep'
  BY WalletFrames DEF HubChallengeFails, shell, hub, qr
<1> QED  BY <1>1, <1>2, <1>3

LEMMA HubVerifiedStep ==
  ASSUME WalletInv, HubVerified
  PROVE  WalletInv'
<1> USE DEF WalletInv, Typed
<1>1. /\ page = "ready" /\ login["hub"].wallet \in Wallets
      /\ ApplySession(login["hub"].wallet, TRUE)
      /\ login' = [login EXCEPT !["hub"] = NoLogin]
  BY NoLoginIs DEF HubVerified, LoginsKnowWallets
<1>2. SessionTyped' /\ StoredWasGranted' /\ InStep' /\ auto' \in {"idle", "waiting", "over"}
  BY <1>1, SessionApplied
<1>3. LoginTyped' /\ LoginsKnowWallets'
  BY <1>1, NoLoginIs, LoginUpdated
<1>4. TabTyped'
  BY <1>2 DEF HubVerified, qr, TabTyped
<1>5. LoadsTyped' /\ HubTyped' /\ HubIsAsked' /\ PairTyped' /\ PairIsApproved'
  BY WalletFrames DEF HubVerified, hub, qr
<1> QED  BY <1>2, <1>3, <1>4, <1>5

LEMMA HubVerifyFailsStep ==
  ASSUME WalletInv, HubVerifyFails
  PROVE  WalletInv'
<1> USE DEF WalletInv, Typed
<1>1. TabTyped'
  BY DEF HubVerifyFails, shell, hub, qr, TabTyped, AutoAfter
<1>2. SessionTyped' /\ StoredWasGranted'
  BY SessionDropped DEF HubVerifyFails, shell, hub, qr, SessionTyped, StoredWasGranted, shell
<1>3. LoginTyped' /\ LoginsKnowWallets'
  BY NoLoginIs, LoginUpdated DEF HubVerifyFails, shell, hub, qr, LoginTyped, LoginsKnowWallets, LoginStates
<1>4. InStep'
  BY SessionDropped DEF HubVerifyFails, shell, hub, qr, InStep
<1>5. LoadsTyped' /\ HubTyped' /\ HubIsAsked' /\ PairTyped' /\ PairIsApproved'
  BY WalletFrames DEF HubVerifyFails, shell, hub, qr
<1> QED  BY <1>1, <1>2, <1>3, <1>4, <1>5

LEMMA HideStep ==
  ASSUME WalletInv, Hide
  PROVE  WalletInv'
<1> USE DEF WalletInv, Typed
<1>1. TabTyped'
  BY DEF Hide, shell, hub, qr, TabTyped, Handoff
<1>2. LoadsTyped' /\ SessionTyped' /\ StoredWasGranted' /\ HubTyped' /\ HubIsAsked' /\ LoginTyped' /\ LoginsKnowWallets' /\ PairTyped' /\ PairIsApproved' /\ InStep'
  BY WalletFrames DEF Hide, shell, hub, qr
<1> QED  BY <1>1, <1>2

LEMMA ReturnStep ==
  ASSUME WalletInv, Return
  PROVE  WalletInv'
<1> USE DEF WalletInv, Typed
<1>1. TabTyped'
  BY DEF Return, shell, hub, qr, TabTyped, Handoff
<1>2. LoadsTyped' /\ SessionTyped' /\ StoredWasGranted' /\ HubTyped' /\ HubIsAsked' /\ LoginTyped' /\ LoginsKnowWallets' /\ PairTyped' /\ PairIsApproved' /\ InStep'
  BY WalletFrames DEF Return, shell, hub, qr
<1> QED  BY <1>1, <1>2

LEMMA HintFadesStep ==
  ASSUME WalletInv, HintFades
  PROVE  WalletInv'
<1> USE DEF WalletInv, Typed
<1>1. TabTyped'
  BY DEF HintFades, shell, hub, qr, TabTyped
<1>2. LoadsTyped' /\ SessionTyped' /\ StoredWasGranted' /\ HubTyped' /\ HubIsAsked' /\ LoginTyped' /\ LoginsKnowWallets' /\ PairTyped' /\ PairIsApproved' /\ InStep'
  BY WalletFrames DEF HintFades, shell, hub, qr
<1> QED  BY <1>1, <1>2

LEMMA FallbackStep ==
  ASSUME WalletInv, DeeplinkFallback
  PROVE  WalletInv'
<1> USE DEF WalletInv, Typed
<1>1. TabTyped'
  BY DEF DeeplinkFallback, shell, hub, qr, TabTyped
<1>2. LoadsTyped' /\ SessionTyped' /\ StoredWasGranted' /\ HubTyped' /\ HubIsAsked' /\ LoginTyped' /\ LoginsKnowWallets' /\ PairTyped' /\ PairIsApproved' /\ InStep'
  BY WalletFrames DEF DeeplinkFallback, shell, hub, qr
<1> QED  BY <1>1, <1>2

LEMMA DisconnectStep ==
  ASSUME WalletInv, Disconnect
  PROVE  WalletInv'
<1> USE DEF WalletInv, Typed
<1>1. TabTyped'
  BY DEF Disconnect, shell, hub, qr, TabTyped, AutoAfter
<1>2. SessionTyped' /\ StoredWasGranted'
  BY SessionDropped DEF Disconnect, shell, hub, qr, SessionTyped, StoredWasGranted
<1>3. InStep'
  BY SessionDropped DEF Disconnect, shell, hub, qr, InStep
<1>4. LoadsTyped' /\ HubTyped' /\ HubIsAsked' /\ LoginTyped' /\ LoginsKnowWallets' /\ PairTyped' /\ PairIsApproved'
  BY WalletFrames DEF Disconnect, shell, hub, qr
<1> QED  BY <1>1, <1>2, <1>3, <1>4

LEMMA CookieExpiresStep ==
  ASSUME WalletInv, CookieExpires
  PROVE  WalletInv'
<1> USE DEF WalletInv, Typed
<1>1. TabTyped'
  BY DEF CookieExpires, shell, hub, qr, TabTyped
<1>2. SessionTyped' /\ StoredWasGranted'
  BY DEF CookieExpires, shell, hub, qr, SessionTyped, StoredWasGranted
<1>3. LoadsTyped' /\ HubTyped' /\ HubIsAsked' /\ LoginTyped' /\ LoginsKnowWallets' /\ PairTyped' /\ PairIsApproved' /\ InStep'
  BY WalletFrames DEF CookieExpires, shell, hub, qr
<1> QED  BY <1>1, <1>2, <1>3

LEMMA NewPairStep ==
  ASSUME WalletInv, NewPair
  PROVE  WalletInv'
<1> USE DEF WalletInv, Typed
<1>1. TabTyped'
  BY DEF NewPair, others, hub, TabTyped
<1>2. LoadsTyped'
  BY WalletAssumption DEF NewPair, others, hub, LoadsTyped
<1>3. SessionTyped' /\ StoredWasGranted'
  BY DEF NewPair, others, hub, SessionTyped, StoredWasGranted
<1>4. PairTyped' /\ PairIsApproved'
  BY DEF NewPair, others, hub, PairTyped, PairIsApproved
<1>5. HubTyped' /\ HubIsAsked' /\ LoginTyped' /\ LoginsKnowWallets' /\ InStep'
  BY WalletFrames DEF NewPair, others, hub
<1> QED  BY <1>1, <1>2, <1>3, <1>4, <1>5

LEMMA PhoneApprovesStep ==
  ASSUME WalletInv, PhoneApproves
  PROVE  WalletInv'
<1> USE DEF WalletInv, Typed
<1>1. TabTyped'
  BY DEF PhoneApproves, others, hub, TabTyped
<1>2. PairTyped' /\ PairIsApproved'
  BY DEF PhoneApproves, others, hub, PairTyped, PairIsApproved
<1>3. LoadsTyped' /\ SessionTyped' /\ StoredWasGranted' /\ HubTyped' /\ HubIsAsked' /\ LoginTyped' /\ LoginsKnowWallets' /\ InStep'
  BY WalletFrames DEF PhoneApproves, others, hub
<1> QED  BY <1>1, <1>2, <1>3

LEMMA ClaimStep ==
  ASSUME WalletInv, Claim
  PROVE  WalletInv'
<1> USE DEF WalletInv, Typed
<1>1. TabTyped'
  BY DEF Claim, others, hub, TabTyped
<1>2. PairTyped' /\ PairIsApproved'
  BY DEF Claim, others, hub, PairTyped, PairIsApproved
<1>3. LoadsTyped' /\ SessionTyped' /\ StoredWasGranted' /\ HubTyped' /\ HubIsAsked' /\ LoginTyped' /\ LoginsKnowWallets' /\ InStep'
  BY WalletFrames DEF Claim, others, hub
<1> QED  BY <1>1, <1>2, <1>3

LEMMA ClaimFailsStep ==
  ASSUME WalletInv, ClaimFails
  PROVE  WalletInv'
<1> USE DEF WalletInv, Typed
<1>1. TabTyped'
  BY DEF ClaimFails, others, hub, TabTyped
<1>2. PairTyped' /\ PairIsApproved'
  BY DEF ClaimFails, others, hub, PairTyped, PairIsApproved
<1>3. LoadsTyped' /\ SessionTyped' /\ StoredWasGranted' /\ HubTyped' /\ HubIsAsked' /\ LoginTyped' /\ LoginsKnowWallets' /\ InStep'
  BY WalletFrames DEF ClaimFails, others, hub
<1> QED  BY <1>1, <1>2, <1>3

(* A claim gives the session of the wallet that approved the pair, whether *)
(* or not the code is still shown.                                         *)
LEMMA ClaimedStep ==
  ASSUME WalletInv, Claimed
  PROVE  WalletInv'
<1> USE DEF WalletInv, Typed
<1>1. page = "ready" /\ pair.by \in Wallets
  BY DEF Claimed, PairIsApproved
<1>2. SessionTyped' /\ StoredWasGranted' /\ InStep' /\ auto' \in {"idle", "waiting", "over"}
  <2>1. CASE Shown
    BY <1>1, <2>1, SessionApplied DEF Claimed
  <2>2. CASE ~Shown
    <3>1. /\ cookie' = pair.by /\ granted' = granted \cup {pair.by}
          /\ UNCHANGED <<stored, address, auto, page>>
      BY <2>2 DEF Claimed, others
    <3> QED  BY <1>1, <3>1 DEF SessionTyped, StoredWasGranted, InStep, TabTyped
  <2> QED  BY <2>1, <2>2
<1>3. TabTyped'
  BY <1>2 DEF Claimed, others, hub, TabTyped
<1>4. PairTyped' /\ PairIsApproved'
  BY DEF Claimed, PairTyped, PairIsApproved
<1>5. LoadsTyped' /\ HubTyped' /\ HubIsAsked' /\ LoginTyped' /\ LoginsKnowWallets'
  BY WalletFrames DEF Claimed, others, hub
<1> QED  BY <1>2, <1>3, <1>4, <1>5

(* The invariant holds: an identity is known wherever it passes through.   *)
THEOREM WalletInvariant == WalletSpec => []WalletInv
<1>1. WalletInit => WalletInv
  BY WalletStarts
<1>2. WalletInv /\ [WalletNext]_(walletVars) => WalletInv'
  <2> SUFFICES ASSUME WalletInv, [WalletNext]_(walletVars) PROVE WalletInv'
    OBVIOUS
  <2>1. CASE Reload \/ Boot
    BY <2>1, ReloadStep, BootSessionStep, MeAnswersStep, SetupStep DEF Boot
  <2>2. CASE \E redirect \in BOOLEAN : Connect(redirect)
    BY <2>2, ConnectStep
  <2>3. CASE AutoStart \/ \E visible \in BOOLEAN : AutoConnect(visible)
    BY <2>3, AutoStartStep, AutoConnectStep
  <2>4. ASSUME NEW l \in {"user", "auto"}, LoginGoesOn(l) \/ LoginEnds(l)
        PROVE  WalletInv'
    BY <2>4, NoLoginIs, LoginGoesOnStep, LoginVerifiedStep, LoginFailsStep DEF LoginEnds
  <2>5. CASE HubStep \/ HubBack
    BY <2>5, HubChallengeStep, HubChallengeFailsStep, HubVerifiedStep, HubVerifyFailsStep,
       HubBackStep DEF HubStep
  <2>6. CASE \E ok, kept \in BOOLEAN : HubReturns(ok, kept)
    BY <2>6, HubReturnsStep
  <2>7. CASE Hide \/ Return \/ HintFades \/ DeeplinkFallback
    BY <2>7, HideStep, ReturnStep, HintFadesStep, FallbackStep
  <2>8. CASE Disconnect \/ CookieExpires
    BY <2>8, DisconnectStep, CookieExpiresStep
  <2>9. CASE NewPair \/ PhoneApproves \/ Claim \/ Claimed
             \/ ClaimFails
    BY <2>9, NewPairStep, PhoneApprovesStep, ClaimStep, ClaimedStep, ClaimFailsStep
  <2>10. CASE UNCHANGED walletVars
    <3>1. TabTyped'
      BY <2>10 DEF walletVars, WalletInv, Typed, TabTyped
    <3>2. /\ SessionTyped' /\ StoredWasGranted' /\ HubTyped' /\ HubIsAsked' /\ LoginTyped'
          /\ LoginsKnowWallets' /\ PairTyped' /\ PairIsApproved' /\ InStep' /\ LoadsTyped'
      BY <2>10, WalletFrames DEF walletVars
    <3> QED  BY <3>1, <3>2 DEF WalletInv, Typed
  <2> QED  BY <2>1, <2>2, <2>3, <2>4, <2>5, <2>6, <2>7, <2>8, <2>9, <2>10 DEF WalletNext
<1> QED  BY <1>1, <1>2, PTL DEF WalletSpec

(* Type correctness of the wallet session.                                 *)
THEOREM WalletTypeCorrect == WalletSpec => []WalletTypeOK
<1>1. WalletInv => WalletTypeOK
  BY TypedParts DEF WalletInv
<1> QED  BY WalletInvariant, <1>1, PTL

(* The tab shows, and stores, only a wallet the server gave this browser a *)
(* session for, and a ready page shows what is stored.                     *)
THEOREM ShownWalletsWereGranted ==
  WalletSpec => []ShownWasGranted
<1>1. WalletInv => ShownWasGranted
  BY DEF WalletInv, InStep, StoredWasGranted, ShownWasGranted
<1> QED  BY WalletInvariant, <1>1, PTL

-----------------------------------------------------------------------------
(* The public pages and their cache.                                       *)

RequestTypes == [ key : AllKeys, owner : {"directory", "evidence", "nobody"},
                  got : Versions \cup {0}, aborted : BOOLEAN ]

CacheRecords == [ver : Versions \cup {0}, age : {"fresh", "stale", "gone"}]

Directories == [ kind : {"off", "loading", "ready", "error"}, sort : Sorts,
                 reloaded : BOOLEAN, shown : Showns(Sorts), refreshing : BOOLEAN,
                 waits : BOOLEAN ]

Profiles == [ kind : {"off", "loading", "ok", "error", "not-found"}, reloaded : BOOLEAN,
              shown : Showns(Addresses), kept : BOOLEAN, waits : BOOLEAN,
              opened : BOOLEAN ]

Evidences == [ kind : {"off", "loading", "ok", "error"}, of : Addresses \cup {"none"},
               shown : Showns(Addresses), cursor : BOOLEAN, waits : BOOLEAN,
               more : Showns(Addresses) ]

(* Of the requests rs, over the cache c and the version w of the data: a   *)
(* key has one at a time, nobody aborts the request of a profile, and an   *)
(* answer on its way is as new as what is kept.                            *)
OneForAKey(rs) == \A r, q \in rs : r.key = q.key => r = q

OwnersAbort(rs) ==
  \A r \in rs : /\ r.key[1] = "profile" => r.owner = "nobody"
                /\ r.aborted => r.owner # "nobody"

AnswersAreNew(rs, c, w) ==
  \A r \in rs : /\ r.got <= w
                /\ r.key \in CacheKeys /\ r.got # 0 => c[r.key].ver <= r.got

Good(rs, c, w) ==
  /\ rs \subseteq RequestTypes
  /\ OneForAKey(rs)
  /\ OwnersAbort(rs)
  /\ AnswersAreNew(rs, c, w)

CacheGood(c, w) ==
  /\ w \in Versions
  /\ c \in [CacheKeys -> CacheRecords]
  /\ \A k \in CacheKeys : c[k].ver <= w

(* Each page, with the requests rs and the route rt.                       *)
DirectoryGood(d, rs, rt) ==
  /\ d \in Directories
  /\ d.waits => UnderWay(rs, ListKey(d.sort))
  /\ d.kind # "off" \/ d.waits => rt = <<"validators">>

ProfileGood(p, rs, rt) ==
  /\ p \in Profiles
  /\ p.waits => UnderWay(rs, ProfileKey(rt[2]))
  /\ p.kind # "off" \/ p.waits => \E a \in Addresses : rt = ProfileKey(a)
  /\ p.kind = "ok" => rt = ProfileKey(p.shown.name)
  /\ p.kind = "ok" /\ p.waits => p.kept

EvidenceGood(e, rs) ==
  /\ e \in Evidences
  /\ e.waits => UnderWay(rs, RunsKey(e.of))
  /\ e.kind = "off" => e = NoEvidence
  /\ e.kind # "off" => e.of \in Addresses

ViewsInv ==
  /\ CacheGood(cache, world)
  /\ Good(inflight, cache, world)
  /\ route \in Routes
  /\ DirectoryGood(directory, inflight, route)
  /\ ProfileGood(profile, inflight, route)
  /\ EvidenceGood(evidence, inflight)

(* The keys of later pages; the others stay under way through Abort.       *)
Keeping(rs, qs) == \A k \in CacheKeys : UnderWay(rs, k) => UnderWay(qs, k)

-----------------------------------------------------------------------------
LEMMA KeysDiffer ==
  /\ \A s \in Sorts : ListKey(s) \in CacheKeys /\ ListKey(s)[1] = "validators"
                      /\ ListKey(s)[2] = s
  /\ \A a \in Addresses : ProfileKey(a) \in CacheKeys /\ ProfileKey(a)[1] = "profile"
                          /\ ProfileKey(a)[2] = a
  /\ \A a \in Addresses : RunsKey(a) \in CacheKeys /\ RunsKey(a)[1] = "observations"
                          /\ RunsKey(a)[2] = a
  /\ \A a \in Addresses : MoreKey(a) \in AllKeys /\ MoreKey(a)[1] = "more"
  /\ \A k \in CacheKeys : k \in AllKeys /\ k[1] # "more"
BY DEF CacheKeys, AllKeys, ListKey, ProfileKey, RunsKey, MoreKey

LEMMA NothingShown ==
  /\ 0 \in Versions \cup {0}
  /\ Nothing \in Showns(Sorts) /\ Nothing \in Showns(Addresses)
  /\ NoDirectory \in Directories /\ NoDirectory.kind = "off" /\ ~NoDirectory.waits
  /\ NoProfile \in Profiles /\ NoProfile.kind = "off" /\ ~NoProfile.waits
  /\ NoEvidence \in Evidences /\ NoEvidence.kind = "off" /\ ~NoEvidence.waits
  <1>1. Nothing \in Showns(Sorts) /\ Nothing \in Showns(Addresses)
    BY DEF Nothing, Showns
  <1> QED  BY <1>1, ViewAssumption DEF NoDirectory, Directories, NoProfile, Profiles, NoEvidence, Evidences

LEMMA ShowsType ==
  ASSUME NEW names, NEW name \in names, NEW ver \in Versions \cup {0}
  PROVE  /\ Shows(name, ver) \in Showns(names)
         /\ Shows(name, ver).name = name /\ Shows(name, ver).ver = ver
BY DEF Shows, Showns

-----------------------------------------------------------------------------
(* What is done to the requests keeps them good.                           *)

LEMMA FetchGood ==
  ASSUME NEW rs, NEW c, NEW w \in Nat, Good(rs, c, w), NEW k \in AllKeys,
         NEW owner \in {"directory", "evidence", "nobody"},
         k[1] = "profile" => owner = "nobody"
  PROVE  /\ Good(Fetch(rs, k, owner), c, w)
         /\ UnderWay(Fetch(rs, k, owner), k)
         /\ Keeping(rs, Fetch(rs, k, owner))
  <1>1. CASE UnderWay(rs, k)
    BY <1>1 DEF Fetch, Keeping
  <1>2. CASE ~UnderWay(rs, k)
    <2> DEFINE new == Request(k, owner)
    <2>1. /\ new \in RequestTypes /\ new.key = k /\ new.owner = owner
          /\ new.got = 0 /\ ~new.aborted
      BY DEF Request, RequestTypes
    <2>2. Fetch(rs, k, owner) = rs \cup {new}
      BY <1>2 DEF Fetch
    <2> HIDE DEF new
    <2>3. \A r \in rs : r.key # k
      BY <1>2 DEF UnderWay
    <2>4. OneForAKey(rs \cup {new})
      BY <2>1, <2>3 DEF Good, OneForAKey
    <2>5. OwnersAbort(rs \cup {new})
      BY <2>1 DEF Good, OwnersAbort
    <2>6. AnswersAreNew(rs \cup {new}, c, w)
      BY <2>1 DEF Good, AnswersAreNew
    <2>7. UnderWay(rs \cup {new}, k) /\ Keeping(rs, rs \cup {new})
      BY <2>1 DEF UnderWay, Keeping
    <2> QED  BY <2>1, <2>2, <2>4, <2>5, <2>6, <2>7 DEF Good
  <1> QED  BY <1>1, <1>2

LEMMA AbortGood ==
  ASSUME NEW rs, NEW c, NEW w, Good(rs, c, w), NEW owner \in {"directory", "evidence"}
  PROVE  /\ Good(Abort(rs, owner), c, w)
         /\ Keeping(rs, Abort(rs, owner))
  <1> DEFINE done(r) == IF r.owner = owner THEN [r EXCEPT !.aborted = TRUE] ELSE r
             qs == {done(r) : r \in rs}
  <1>1. \A r \in rs : /\ done(r) \in RequestTypes
                      /\ done(r).key = r.key /\ done(r).owner = r.owner /\ done(r).got = r.got
                      /\ done(r).aborted => r.aborted \/ r.owner = owner
    BY DEF Good, RequestTypes
  <1>2. Abort(rs, owner) = qs
    BY DEF Abort
  <1> HIDE DEF done
  <1>3. qs \subseteq RequestTypes
    BY <1>1
  <1>4. OneForAKey(qs)
    BY <1>1 DEF Good, OneForAKey
  <1>5. OwnersAbort(qs)
    BY <1>1 DEF Good, OwnersAbort
  <1>6. AnswersAreNew(qs, c, w)
    BY <1>1 DEF Good, AnswersAreNew
  <1>7. Keeping(rs, qs)
    BY <1>1 DEF Keeping, UnderWay
  <1> QED  BY <1>2, <1>3, <1>4, <1>5, <1>6, <1>7 DEF Good

LEMMA SubsetGood ==
  ASSUME NEW rs, NEW c, NEW w, Good(rs, c, w), NEW qs \in SUBSET rs
  PROVE  Good(qs, c, w)
BY DEF Good, OneForAKey, OwnersAbort, AnswersAreNew

(* The later pages go with the evidence.                                   *)
LEMMA DropMore ==
  ASSUME NEW rs, NEW c, NEW w, Good(rs, c, w)
  PROVE  LET qs == {r \in rs : r.key[1] # "more"} IN
         Good(qs, c, w) /\ Keeping(rs, qs)
BY KeysDiffer, SubsetGood DEF Keeping, UnderWay

LEMMA KeepingTwice ==
  ASSUME NEW rs, NEW qs, NEW ps, Keeping(rs, qs), Keeping(qs, ps)
  PROVE  Keeping(rs, ps)
BY DEF Keeping

(* The request that ends was the only one of its key.                      *)
LEMMA OneLess ==
  ASSUME NEW rs, NEW c, NEW w, Good(rs, c, w), NEW r \in rs
  PROVE  /\ Good(rs \ {r}, c, w)
         /\ \A k : UnderWay(rs, k) /\ k # r.key => UnderWay(rs \ {r}, k)
         /\ \A q \in rs \ {r} : q.key # r.key
BY SubsetGood DEF Good, OneForAKey, UnderWay

-----------------------------------------------------------------------------
(* What the pages do with requests that stay under way.                    *)

LEMMA PagesKeep ==
  ASSUME NEW rs, NEW qs, Keeping(rs, qs), NEW rt
  PROVE  /\ \A d : DirectoryGood(d, rs, rt) => DirectoryGood(d, qs, rt)
         /\ \A p : ProfileGood(p, rs, rt) => ProfileGood(p, qs, rt)
         /\ \A e : EvidenceGood(e, rs) => EvidenceGood(e, qs)
  <1>1. ASSUME NEW d, DirectoryGood(d, rs, rt)
        PROVE  DirectoryGood(d, qs, rt)
    <2>1. d.sort \in Sorts
      BY <1>1 DEF DirectoryGood, Directories
    <2> QED  BY <1>1, <2>1, KeysDiffer DEF DirectoryGood, Keeping
  <1>2. ASSUME NEW p, ProfileGood(p, rs, rt)
        PROVE  ProfileGood(p, qs, rt)
    <2>1. p.waits => ProfileKey(rt[2]) \in CacheKeys
      BY <1>2, KeysDiffer DEF ProfileGood
    <2> QED  BY <1>2, <2>1 DEF ProfileGood, Keeping
  <1>3. ASSUME NEW e, EvidenceGood(e, rs)
        PROVE  EvidenceGood(e, qs)
    <2>1. e.waits => e.of \in Addresses
      BY <1>3, NothingShown DEF EvidenceGood
    <2> QED  BY <1>3, <2>1, KeysDiffer DEF EvidenceGood, Keeping
  <1> QED  BY <1>1, <1>2, <1>3

LEMMA NoPages ==
  ASSUME NEW rs, NEW rt
  PROVE  /\ DirectoryGood(NoDirectory, rs, rt)
         /\ ProfileGood(NoProfile, rs, rt)
         /\ EvidenceGood(NoEvidence, rs)
BY NothingShown DEF DirectoryGood, ProfileGood, EvidenceGood

LEMMA KeptType ==
  ASSUME CacheGood(cache, world), NEW k \in CacheKeys
  PROVE  /\ cache[k].ver \in Versions \cup {0} /\ cache[k].ver <= world
         /\ ~Painted(k) => ~Fresh(k)
         /\ world \in Nat /\ world # 0 /\ world \in Versions
BY ViewAssumption DEF CacheGood, CacheRecords, Painted, Fresh, Versions

LEMMA DirectoryLoadsGood ==
  ASSUME CacheGood(cache, world), NEW rs, NEW c, Good(rs, c, world), NEW d \in Directories
  PROVE  /\ Good(DirectoryFetches(rs, d), c, world)
         /\ Keeping(rs, DirectoryFetches(rs, d))
         /\ DirectoryGood(DirectoryLoads(d), DirectoryFetches(rs, d), <<"validators">>)
         /\ d.kind = "ready" => DirectoryLoads(d).kind = "ready"
  <1> DEFINE k == ListKey(d.sort)
             qs == DirectoryFetches(rs, d)
             painted == [d EXCEPT !.kind = "ready", !.shown = Shows(d.sort, cache[k].ver),
                                  !.refreshing = ~DirectorySkips(d), !.waits = ~DirectorySkips(d)]
             blank == [d EXCEPT !.kind = IF d.kind = "ready" THEN "ready" ELSE "loading",
                                !.refreshing = d.kind = "ready", !.waits = TRUE]
  <1>1. d.sort \in Sorts /\ k \in CacheKeys /\ k \in AllKeys /\ k[1] # "profile"
    BY KeysDiffer DEF Directories
  <1>2. DirectoryLoads(d) = IF Painted(k) THEN painted ELSE blank
    BY DEF DirectoryLoads
  <1>3. DirectorySkips(d) \in BOOLEAN /\ (DirectorySkips(d) => Painted(k))
    <2>1. ~Painted(k) => ~Fresh(k)
      BY <1>1, KeptType
    <2> QED  BY <2>1 DEF DirectorySkips, Fresh
  <1>4. Shows(d.sort, cache[k].ver) \in Showns(Sorts)
    BY <1>1, KeptType, ShowsType
  <1>5. /\ Good(qs, c, world) /\ Keeping(rs, qs)
        /\ ~DirectorySkips(d) => UnderWay(qs, k)
    <2>1. CASE DirectorySkips(d)
      BY <2>1 DEF DirectoryFetches, Keeping
    <2>2. CASE ~DirectorySkips(d)
      <3>1. qs = Fetch(rs, k, "directory")
        BY <2>2 DEF DirectoryFetches
      <3>2. world \in Nat
        BY <1>1, KeptType
      <3> HIDE DEF qs, k
      <3> QED  BY <1>1, <3>1, <3>2, FetchGood
    <2> QED  BY <2>1, <2>2
  <1> HIDE DEF k, qs
  <1>6. /\ painted \in Directories /\ painted.sort = d.sort /\ painted.kind = "ready"
        /\ painted.waits = ~DirectorySkips(d)
    BY <1>3, <1>4 DEF Directories
  <1>7. /\ blank \in Directories /\ blank.sort = d.sort /\ blank.waits
        /\ d.kind = "ready" => blank.kind = "ready"
    BY DEF Directories
  <1> HIDE DEF painted, blank
  <1>8. DirectoryGood(painted, qs, <<"validators">>)
    BY <1>5, <1>6 DEF DirectoryGood, k
  <1>9. ~Painted(k) => DirectoryGood(blank, qs, <<"validators">>)
    BY <1>3, <1>5, <1>7 DEF DirectoryGood, k
  <1>10. DirectoryGood(DirectoryLoads(d), qs, <<"validators">>)
    BY <1>2, <1>8, <1>9
  <1> QED  BY <1>2, <1>5, <1>6, <1>7, <1>10 DEF qs

LEMMA ProfileLoadsGood ==
  ASSUME CacheGood(cache, world), NEW rs, NEW c, Good(rs, c, world), NEW p \in Profiles,
         NEW a \in Addresses
  PROVE  /\ Good(ProfileFetches(rs, p, a), c, world)
         /\ Keeping(rs, ProfileFetches(rs, p, a))
         /\ ProfileGood(ProfileLoads(p, a), ProfileFetches(rs, p, a), ProfileKey(a))
         /\ ProfileLoads(p, a).kind # "error"
  <1> DEFINE k == ProfileKey(a)
             qs == ProfileFetches(rs, p, a)
             painted == [p EXCEPT !.kind = "ok", !.shown = Shows(a, cache[k].ver),
                                  !.kept = TRUE, !.waits = ~ProfileSkips(p, a)]
             blank == [p EXCEPT !.kind = "loading", !.shown = Nothing,
                                !.kept = FALSE, !.waits = TRUE]
  <1>1. k \in CacheKeys /\ k \in AllKeys /\ k[2] = a
    BY KeysDiffer
  <1>2. ProfileLoads(p, a) = IF Painted(k) THEN painted ELSE blank
    BY DEF ProfileLoads
  <1>3. ProfileSkips(p, a) \in BOOLEAN /\ (ProfileSkips(p, a) => Painted(k))
    <2>1. ~Painted(k) => ~Fresh(k)
      BY <1>1, KeptType
    <2> QED  BY <2>1 DEF ProfileSkips, Fresh
  <1>4. Shows(a, cache[k].ver) \in Showns(Addresses) /\ Shows(a, cache[k].ver).name = a
    BY <1>1, KeptType, ShowsType
  <1>5. /\ Good(qs, c, world) /\ Keeping(rs, qs)
        /\ ~ProfileSkips(p, a) => UnderWay(qs, k)
    <2>1. CASE ProfileSkips(p, a)
      BY <2>1 DEF ProfileFetches, Keeping
    <2>2. CASE ~ProfileSkips(p, a)
      <3>1. qs = Fetch(rs, k, "nobody")
        BY <2>2 DEF ProfileFetches
      <3>2. world \in Nat
        BY <1>1, KeptType
      <3> HIDE DEF qs, k
      <3> QED  BY <1>1, <3>1, <3>2, FetchGood
    <2> QED  BY <2>1, <2>2
  <1> HIDE DEF qs, k
  <1>6. /\ painted \in Profiles /\ painted.kind = "ok" /\ painted.kept
        /\ painted.shown.name = a /\ painted.waits = ~ProfileSkips(p, a)
    BY <1>3, <1>4 DEF Profiles
  <1>7. blank \in Profiles /\ blank.kind = "loading" /\ blank.waits
    BY NothingShown DEF Profiles
  <1> HIDE DEF painted, blank
  <1>8. ProfileGood(painted, qs, k)
    BY <1>1, <1>5, <1>6 DEF ProfileGood, k
  <1>9. ~Painted(k) => ProfileGood(blank, qs, k)
    BY <1>1, <1>3, <1>5, <1>7 DEF ProfileGood, k
  <1>10. ProfileGood(ProfileLoads(p, a), qs, k)
    BY <1>2, <1>8, <1>9
  <1> QED  BY <1>2, <1>5, <1>6, <1>7, <1>10 DEF qs, k

LEMMA EvidenceLoadsGood ==
  ASSUME CacheGood(cache, world), NEW rs, NEW c, Good(rs, c, world), NEW e \in Evidences,
         NEW a \in Addresses
  PROVE  /\ Good(EvidenceFetches(rs, a), c, world)
         /\ Keeping(rs, EvidenceFetches(rs, a))
         /\ EvidenceGood(EvidenceLoads(e, a), EvidenceFetches(rs, a))
  <1> DEFINE k == RunsKey(a)
             qs == EvidenceFetches(rs, a)
             filled == [e EXCEPT !.kind = "ok", !.of = a, !.cursor = TRUE, !.waits = FALSE,
                                 !.shown = Shows(a, cache[k].ver)]
             blank == [e EXCEPT !.kind = "loading", !.of = a, !.cursor = FALSE,
                                !.waits = TRUE, !.shown = Nothing]
  <1>1. k \in CacheKeys /\ k \in AllKeys /\ k[1] # "profile"
    BY KeysDiffer
  <1>2. EvidenceLoads(e, a) = IF Fresh(k) THEN filled ELSE blank
    BY DEF EvidenceLoads
  <1>3. Shows(a, cache[k].ver) \in Showns(Addresses)
    BY <1>1, KeptType, ShowsType
  <1>4. Good(qs, c, world) /\ Keeping(rs, qs) /\ (~Fresh(k) => UnderWay(qs, k))
    <2>1. CASE Fresh(k)
      BY <2>1 DEF EvidenceFetches, Keeping
    <2>2. CASE ~Fresh(k)
      <3>1. qs = Fetch(rs, k, "evidence")
        BY <2>2 DEF EvidenceFetches
      <3>2. world \in Nat
        BY <1>1, KeptType
      <3> HIDE DEF qs, k
      <3> QED  BY <1>1, <3>1, <3>2, FetchGood
    <2> QED  BY <2>1, <2>2
  <1> HIDE DEF qs, k
  <1>5. filled \in Evidences /\ filled.kind = "ok" /\ filled.of = a /\ ~filled.waits
    BY <1>3 DEF Evidences
  <1>6. blank \in Evidences /\ blank.kind = "loading" /\ blank.of = a
    BY NothingShown DEF Evidences
  <1> HIDE DEF filled, blank
  <1>7. EvidenceGood(filled, qs)
    BY <1>5 DEF EvidenceGood
  <1>8. ~Fresh(k) => EvidenceGood(blank, qs)
    BY <1>4, <1>6 DEF EvidenceGood, k
  <1> QED  BY <1>2, <1>4, <1>7, <1>8 DEF qs

LEMMA EvidenceFollowsGood ==
  ASSUME CacheGood(cache, world), NEW rs, NEW c, Good(rs, c, world), NEW p,
         EvidenceGood(evidence, rs), p.kind = "ok" => p.shown.name \in Addresses,
         EvidenceFollows(p, rs)
  PROVE  /\ Good(inflight', c, world)
         /\ Keeping(rs, inflight')
         /\ EvidenceGood(evidence', inflight')
  <1>1. CASE ~MountsEvidence(p)
    <2> DEFINE qs == Abort(rs, "evidence")
               ps == {r \in qs : r.key[1] # "more"}
    <2>1. evidence' = NoEvidence /\ inflight' = ps
      BY <1>1 DEF EvidenceFollows, Sends
    <2>2. Good(qs, c, world) /\ Keeping(rs, qs)
      BY AbortGood
    <2> HIDE DEF qs
    <2>3. Good(ps, c, world) /\ Keeping(qs, ps)
      BY <2>2, DropMore
    <2> HIDE DEF ps
    <2> QED  BY <2>1, <2>2, <2>3, KeepingTwice, NoPages
  <1>2. CASE MountsEvidence(p) /\ evidence.of = p.shown.name
    BY <1>2 DEF EvidenceFollows, Sends, Keeping
  <1>3. CASE MountsEvidence(p) /\ evidence.of # p.shown.name
    <2> DEFINE a == p.shown.name
               qs == Abort(rs, "evidence")
               ps == EvidenceFetches(qs, a)
    <2>1. evidence' = EvidenceLoads(evidence, a) /\ inflight' = ps
      BY <1>3 DEF EvidenceFollows, Sends
    <2>2. a \in Addresses /\ evidence \in Evidences
      BY <1>3 DEF MountsEvidence, EvidenceGood
    <2>3. Good(qs, c, world) /\ Keeping(rs, qs)
      BY AbortGood
    <2> HIDE DEF a, qs
    <2>4. Good(ps, c, world) /\ Keeping(qs, ps) /\ EvidenceGood(EvidenceLoads(evidence, a), ps)
      BY <2>2, <2>3, EvidenceLoadsGood
    <2> HIDE DEF ps
    <2> QED  BY <2>1, <2>3, <2>4, KeepingTwice
  <1> QED  BY <1>1, <1>2, <1>3

-----------------------------------------------------------------------------
(* The steps.                                                              *)

LEMMA ViewsStart == ViewsInit => ViewsInv
  <1> SUFFICES ASSUME ViewsInit PROVE ViewsInv
    OBVIOUS
  <1> USE DEF ViewsInit
  <1>1. NoRecord \in CacheRecords /\ NoRecord.ver = 0
    BY DEF NoRecord, CacheRecords
  <1>2. CacheGood(cache, world)
    BY <1>1, ViewAssumption DEF CacheGood, Versions
  <1>3. Good(inflight, cache, world)
    BY DEF Good, OneForAKey, OwnersAbort, AnswersAreNew
  <1>4. route \in Routes
    BY DEF Routes
  <1> QED  BY <1>2, <1>3, <1>4, NoPages DEF ViewsInv

(* The address of a profile that is shown is a validator's.                *)
LEMMA ShownIsOne ==
  ASSUME NEW p, NEW rs, NEW rt, ProfileGood(p, rs, rt), p.kind = "ok"
  PROVE  p.shown.name \in Addresses
  <1>1. PICK a \in Addresses : rt = ProfileKey(a) /\ rt = ProfileKey(p.shown.name)
    BY DEF ProfileGood
  <1>2. a = p.shown.name
    BY <1>1 DEF ProfileKey
  <1> QED  BY <1>2

LEMMA GoHomeStep ==
  ASSUME ViewsInv, GoHome
  PROVE  ViewsInv'
  <1> DEFINE rs == Abort(inflight, "directory")
  <1>1. Good(rs, cache, world) /\ Keeping(inflight, rs)
    BY AbortGood DEF ViewsInv
  <1>2. EvidenceFollows(NoProfile, rs) /\ EvidenceGood(evidence, rs)
    BY <1>1, PagesKeep DEF GoHome, ViewsInv
  <1> HIDE DEF rs
  <1>3. Good(inflight', cache, world) /\ EvidenceGood(evidence', inflight')
    BY <1>1, <1>2, EvidenceFollowsGood, NothingShown DEF ViewsInv
  <1>4. /\ UNCHANGED <<world, cache>> /\ route' \in Routes
        /\ directory' = NoDirectory /\ profile' = NoProfile
    BY DEF GoHome, Routes
  <1>5. DirectoryGood(directory', inflight', route') /\ ProfileGood(profile', inflight', route')
    BY <1>4, NoPages
  <1> QED  BY <1>3, <1>4, <1>5 DEF ViewsInv

LEMMA GoDirectoryStep ==
  ASSUME ViewsInv, GoDirectory
  PROVE  ViewsInv'
  <1> DEFINE rs == DirectoryFetches(inflight, NoDirectory)
             d  == DirectoryLoads(NoDirectory)
  <1>1. /\ Good(rs, cache, world) /\ Keeping(inflight, rs)
        /\ DirectoryGood(d, rs, <<"validators">>)
    BY DirectoryLoadsGood, NothingShown DEF ViewsInv
  <1>2. EvidenceFollows(NoProfile, rs) /\ EvidenceGood(evidence, rs)
    BY <1>1, PagesKeep DEF GoDirectory, ViewsInv
  <1>3. /\ UNCHANGED <<world, cache>> /\ route' = <<"validators">>
        /\ directory' = d /\ profile' = NoProfile
    BY DEF GoDirectory
  <1> HIDE DEF rs, d
  <1>4. /\ Good(inflight', cache, world) /\ Keeping(rs, inflight')
        /\ EvidenceGood(evidence', inflight')
    BY <1>1, <1>2, EvidenceFollowsGood, NothingShown DEF ViewsInv
  <1>5. DirectoryGood(directory', inflight', route') /\ ProfileGood(profile', inflight', route')
    BY <1>1, <1>3, <1>4, NoPages, PagesKeep
  <1>6. route' \in Routes
    BY <1>3 DEF Routes
  <1> QED  BY <1>3, <1>4, <1>5, <1>6 DEF ViewsInv

LEMMA GoProfileStep ==
  ASSUME ViewsInv, NEW a \in Addresses, GoProfile(a)
  PROVE  ViewsInv'
  <1> DEFINE qs == Abort(inflight, "directory")
             rs == ProfileFetches(qs, profile, a)
             p  == ProfileLoads(profile, a)
  <1>1. Good(qs, cache, world) /\ Keeping(inflight, qs)
    BY AbortGood DEF ViewsInv
  <1>2. /\ UNCHANGED <<world, cache>> /\ route' = ProfileKey(a)
        /\ directory' = NoDirectory /\ profile' = p
        /\ EvidenceFollows(profile', rs)
    BY DEF GoProfile, ProfileKey
  <1> HIDE DEF qs
  <1>3. /\ Good(rs, cache, world) /\ Keeping(qs, rs)
        /\ ProfileGood(p, rs, ProfileKey(a))
    BY <1>1, ProfileLoadsGood DEF ViewsInv, ProfileGood
  <1>4. EvidenceGood(evidence, rs)
    <2>1. EvidenceGood(evidence, qs)
      BY <1>1, PagesKeep DEF ViewsInv
    <2> HIDE DEF rs
    <2> QED  BY <1>3, <2>1, PagesKeep
  <1> HIDE DEF rs, p
  <1>5. /\ Good(inflight', cache, world) /\ Keeping(rs, inflight')
        /\ EvidenceGood(evidence', inflight')
    <2>1. profile'.kind = "ok" => profile'.shown.name \in Addresses
      BY <1>2, <1>3, ShownIsOne
    <2> QED  BY <1>2, <1>3, <1>4, <2>1, EvidenceFollowsGood DEF ViewsInv
  <1>6. DirectoryGood(directory', inflight', route') /\ ProfileGood(profile', inflight', route')
    BY <1>2, <1>3, <1>5, NoPages, PagesKeep
  <1>7. route' \in Routes
    BY <1>2 DEF Routes, ProfileKey
  <1> QED  BY <1>2, <1>5, <1>6, <1>7 DEF ViewsInv

LEMMA PrefetchStep ==
  ASSUME ViewsInv, NEW k \in CacheKeys, Prefetch(k)
  PROVE  ViewsInv'
  <1> DEFINE rs == Fetch(inflight, k, "nobody")
  <1>1. inflight' = rs /\ UNCHANGED <<world, cache, route, directory, profile, evidence>>
    BY DEF Prefetch, Sends
  <1>2. world \in Nat
    BY KeptType DEF ViewsInv
  <1>3. Good(rs, cache, world) /\ Keeping(inflight, rs)
    BY <1>2, KeysDiffer, FetchGood DEF ViewsInv
  <1> HIDE DEF rs
  <1> QED  BY <1>1, <1>3, PagesKeep DEF ViewsInv

(* The list of another order, and the list once more.                      *)
LEMMA DirectoryAgain ==
  ASSUME ViewsInv, NEW d \in Directories, route = <<"validators">>,
         directory' = DirectoryLoads(d),
         Sends(DirectoryFetches(Abort(inflight, "directory"), d)),
         UNCHANGED <<world, cache, route, profile, evidence>>
  PROVE  ViewsInv'
  <1> DEFINE qs == Abort(inflight, "directory")
             rs == DirectoryFetches(qs, d)
  <1>1. inflight' = rs
    BY DEF Sends
  <1>2. Good(qs, cache, world) /\ Keeping(inflight, qs)
    BY AbortGood DEF ViewsInv
  <1> HIDE DEF qs
  <1>3. /\ Good(rs, cache, world) /\ Keeping(qs, rs)
        /\ DirectoryGood(DirectoryLoads(d), rs, <<"validators">>)
    BY <1>2, DirectoryLoadsGood DEF ViewsInv
  <1> HIDE DEF rs
  <1>4. Keeping(inflight, rs)
    BY <1>2, <1>3, KeepingTwice
  <1>5. ProfileGood(profile', inflight', route') /\ EvidenceGood(evidence', inflight')
    BY <1>1, <1>4, PagesKeep DEF ViewsInv
  <1>6. DirectoryGood(directory', inflight', route')
    BY <1>1, <1>3
  <1> QED  BY <1>1, <1>3, <1>5, <1>6 DEF ViewsInv

LEMMA ChangeSortStep ==
  ASSUME ViewsInv, NEW s \in Sorts, ChangeSort(s)
  PROVE  ViewsInv'
  <1> DEFINE d == [directory EXCEPT !.sort = s]
  <1>1. d \in Directories
    BY DEF ViewsInv, DirectoryGood, Directories
  <1>2. /\ route = <<"validators">> /\ directory' = DirectoryLoads(d)
        /\ Sends(DirectoryFetches(Abort(inflight, "directory"), d))
        /\ UNCHANGED <<world, cache, route, profile, evidence>>
    BY DEF ChangeSort
  <1> HIDE DEF d
  <1> QED  BY <1>1, <1>2, DirectoryAgain

LEMMA RetryDirectoryStep ==
  ASSUME ViewsInv, RetryDirectory
  PROVE  ViewsInv'
  <1> DEFINE d == [directory EXCEPT !.reloaded = TRUE]
  <1>1. d \in Directories
    BY DEF ViewsInv, DirectoryGood, Directories
  <1>2. /\ route = <<"validators">> /\ directory' = DirectoryLoads(d)
        /\ Sends(DirectoryFetches(Abort(inflight, "directory"), d))
        /\ UNCHANGED <<world, cache, route, profile, evidence>>
    BY DEF RetryDirectory, ViewsInv, DirectoryGood
  <1> HIDE DEF d
  <1> QED  BY <1>1, <1>2, DirectoryAgain

LEMMA RetryProfileStep ==
  ASSUME ViewsInv, RetryProfile
  PROVE  ViewsInv'
  <1>1. PICK a \in Addresses : route = ProfileKey(a)
    BY DEF RetryProfile, ViewsInv, ProfileGood
  <1> DEFINE p  == [profile EXCEPT !.reloaded = TRUE]
             q  == ProfileLoads(p, a)
             rs == ProfileFetches(inflight, p, a)
  <1>2. route[2] = a
    BY <1>1, KeysDiffer
  <1>3. p \in Profiles
    BY DEF ViewsInv, ProfileGood, Profiles
  <1>4. /\ UNCHANGED <<world, cache, route, directory>>
        /\ profile' = q /\ EvidenceFollows(profile', rs)
    BY <1>2 DEF RetryProfile
  <1> HIDE DEF p
  <1>5. Good(rs, cache, world) /\ Keeping(inflight, rs) /\ ProfileGood(q, rs, route)
    BY <1>1, <1>3, ProfileLoadsGood DEF ViewsInv
  <1> HIDE DEF q, rs
  <1>6. EvidenceGood(evidence, rs) /\ DirectoryGood(directory, rs, route)
    BY <1>5, PagesKeep DEF ViewsInv
  <1>7. profile'.kind = "ok" => profile'.shown.name \in Addresses
    BY <1>4, <1>5, ShownIsOne
  <1>8. /\ Good(inflight', cache, world) /\ Keeping(rs, inflight')
        /\ EvidenceGood(evidence', inflight')
    BY <1>4, <1>5, <1>6, <1>7, EvidenceFollowsGood DEF ViewsInv
  <1>9. DirectoryGood(directory', inflight', route') /\ ProfileGood(profile', inflight', route')
    BY <1>4, <1>5, <1>6, <1>8, PagesKeep
  <1> QED  BY <1>4, <1>8, <1>9 DEF ViewsInv

LEMMA OpenEvidenceStep ==
  ASSUME ViewsInv, OpenEvidence
  PROVE  ViewsInv'
  <1> DEFINE p == [profile EXCEPT !.opened = TRUE]
  <1>1. ProfileGood(p, inflight, route)
    BY DEF ViewsInv, ProfileGood, Profiles
  <1>2. /\ UNCHANGED <<world, cache, route, directory>>
        /\ profile' = p /\ EvidenceFollows(profile', inflight)
    BY DEF OpenEvidence
  <1> HIDE DEF p
  <1>3. profile'.kind = "ok" => profile'.shown.name \in Addresses
    BY <1>1, <1>2, ShownIsOne
  <1>4. /\ Good(inflight', cache, world) /\ Keeping(inflight, inflight')
        /\ EvidenceGood(evidence', inflight')
    BY <1>2, <1>3, EvidenceFollowsGood DEF ViewsInv
  <1>5. DirectoryGood(directory', inflight', route') /\ ProfileGood(profile', inflight', route')
    BY <1>1, <1>2, <1>4, PagesKeep DEF ViewsInv
  <1> QED  BY <1>2, <1>4, <1>5 DEF ViewsInv

LEMMA RetryEvidenceStep ==
  ASSUME ViewsInv, RetryEvidence
  PROVE  ViewsInv'
  <1> DEFINE a  == evidence.of
             qs == Abort(inflight, "evidence")
             rs == EvidenceFetches(qs, a)
  <1>1. a \in Addresses /\ evidence \in Evidences
    BY DEF RetryEvidence, ViewsInv, EvidenceGood
  <1>2. /\ UNCHANGED <<world, cache, route, directory, profile>>
        /\ evidence' = EvidenceLoads(evidence, a) /\ inflight' = rs
    BY DEF RetryEvidence, Sends
  <1>3. Good(qs, cache, world) /\ Keeping(inflight, qs)
    BY AbortGood DEF ViewsInv
  <1> HIDE DEF a, qs
  <1>4. /\ Good(rs, cache, world) /\ Keeping(qs, rs)
        /\ EvidenceGood(EvidenceLoads(evidence, a), rs)
    BY <1>1, <1>3, EvidenceLoadsGood DEF ViewsInv
  <1> HIDE DEF rs
  <1>5. Keeping(inflight, rs)
    BY <1>3, <1>4, KeepingTwice
  <1>6. DirectoryGood(directory', inflight', route') /\ ProfileGood(profile', inflight', route')
    BY <1>2, <1>5, PagesKeep DEF ViewsInv
  <1>7. EvidenceGood(evidence', inflight')
    BY <1>2, <1>4
  <1> QED  BY <1>2, <1>4, <1>6, <1>7 DEF ViewsInv

LEMMA LoadMoreStep ==
  ASSUME ViewsInv, LoadMore
  PROVE  ViewsInv'
  <1> DEFINE k  == MoreKey(evidence.of)
             rs == Fetch(inflight, k, "nobody")
             e  == [evidence EXCEPT !.more = evidence.shown]
  <1>1. k \in AllKeys /\ world \in Nat
    BY KeysDiffer, KeptType DEF LoadMore, ViewsInv, EvidenceGood
  <1>2. /\ UNCHANGED <<world, cache, route, directory, profile>>
        /\ evidence' = e /\ inflight' = rs
    BY DEF LoadMore, Sends
  <1> HIDE DEF k
  <1>3. Good(rs, cache, world) /\ Keeping(inflight, rs)
    BY <1>1, FetchGood DEF ViewsInv
  <1>4. EvidenceGood(e, inflight)
    BY DEF LoadMore, ViewsInv, EvidenceGood, Evidences
  <1> HIDE DEF rs, e
  <1>5. DirectoryGood(directory', inflight', route') /\ ProfileGood(profile', inflight', route')
    BY <1>2, <1>3, PagesKeep DEF ViewsInv
  <1>6. EvidenceGood(evidence', inflight')
    BY <1>2, <1>3, <1>4, PagesKeep
  <1> QED  BY <1>2, <1>3, <1>5, <1>6 DEF ViewsInv

LEMMA ReloadPageStep ==
  ASSUME ViewsInv, ReloadPage
  PROVE  ViewsInv'
  <1>1. /\ UNCHANGED <<world, cache>> /\ route' \in Routes /\ inflight' \in SUBSET inflight
        /\ directory' = NoDirectory /\ profile' = NoProfile /\ evidence' = NoEvidence
    BY DEF ReloadPage, Routes
  <1>2. Good(inflight', cache, world)
    BY <1>1, SubsetGood DEF ViewsInv
  <1> QED  BY <1>1, <1>2, NoPages DEF ViewsInv

(* The server and the network.                                             *)
LEMMA ServerChangesStep ==
  ASSUME ViewsInv, ServerChanges
  PROVE  ViewsInv'
  <1>1. /\ world' = world + 1 /\ world' \in Versions /\ world \in Nat
        /\ UNCHANGED <<cache, inflight, route, directory, profile, evidence>>
    BY ViewAssumption DEF ServerChanges, ViewsInv, CacheGood, Versions
  <1>2. CacheGood(cache', world')
    BY <1>1 DEF ViewsInv, CacheGood, CacheRecords, Versions
  <1>3. Good(inflight', cache', world')
    <2>1. \A r \in inflight : r.got \in Nat
      BY DEF ViewsInv, Good, RequestTypes, Versions
    <2> QED  BY <1>1, <2>1 DEF ViewsInv, Good, AnswersAreNew
  <1> QED  BY <1>1, <1>2, <1>3 DEF ViewsInv

LEMMA ServerReadsStep ==
  ASSUME ViewsInv, NEW r \in inflight, ServerReads(r)
  PROVE  ViewsInv'
  <1> DEFINE new == [r EXCEPT !.got = world]
             qs  == inflight \ {r}
             rs  == qs \cup {new}
  <1>1. /\ new \in RequestTypes /\ new.key = r.key /\ new.owner = r.owner
        /\ new.got = world /\ new.aborted = r.aborted
    BY DEF ViewsInv, Good, CacheGood, RequestTypes
  <1>2. inflight' = rs /\ UNCHANGED <<world, cache, route, directory, profile, evidence>>
    BY DEF ServerReads
  <1>3. /\ Good(qs, cache, world) /\ \A q \in qs : q.key # r.key
        /\ \A k : UnderWay(inflight, k) /\ k # r.key => UnderWay(qs, k)
    BY OneLess DEF ViewsInv
  <1> HIDE DEF new, qs
  <1>4. OneForAKey(rs)
    BY <1>1, <1>3 DEF Good, OneForAKey
  <1>5. OwnersAbort(rs)
    BY <1>1, <1>3 DEF ViewsInv, Good, OwnersAbort
  <1>6. AnswersAreNew(rs, cache, world)
    <2>1. \A k \in CacheKeys : cache[k].ver <= world
      BY DEF ViewsInv, CacheGood
    <2>2. world <= world
      BY ViewAssumption DEF ViewsInv, CacheGood, Versions
    <2> QED  BY <1>1, <1>3, <2>1, <2>2 DEF Good, AnswersAreNew
  <1>7. Good(rs, cache, world)
    BY <1>1, <1>3, <1>4, <1>5, <1>6 DEF Good
  <1>8. Keeping(inflight, rs)
    BY <1>1, <1>3 DEF Keeping, UnderWay
  <1> HIDE DEF rs
  <1> QED  BY <1>2, <1>7, <1>8, PagesKeep DEF ViewsInv

LEMMA AgesStep ==
  ASSUME ViewsInv, NEW k \in CacheKeys, Ages(k)
  PROVE  ViewsInv'
  <1> DEFINE old == IF Fresh(k) THEN [cache[k] EXCEPT !.age = "stale"] ELSE NoRecord
  <1>1. /\ UNCHANGED <<world, inflight, route, directory, profile, evidence>>
        /\ cache' = [cache EXCEPT ![k] = old]
    BY DEF Ages, ViewsInv, CacheGood
  <1>2. /\ cache[k] \in CacheRecords /\ world \in Nat /\ world # 0
        /\ cache[k].ver \in Nat /\ cache[k].ver <= world
    BY ViewAssumption DEF ViewsInv, CacheGood, CacheRecords, Versions
  <1>3. old \in CacheRecords /\ old.ver \in {cache[k].ver, 0}
    BY <1>2 DEF CacheRecords, NoRecord
  <1> HIDE DEF old
  <1>4. \A j \in CacheKeys : cache'[j].ver \in {cache[j].ver, 0} /\ cache'[j] \in CacheRecords
    BY <1>1, <1>3 DEF ViewsInv, CacheGood
  <1>5. CacheGood(cache', world')
    <2>1. cache' \in [CacheKeys -> CacheRecords]
      BY <1>1, <1>3 DEF ViewsInv, CacheGood
    <2>2. \A j \in CacheKeys : cache'[j].ver <= world'
      BY <1>1, <1>2, <1>4 DEF ViewsInv, CacheGood
    <2> QED  BY <1>1, <2>1, <2>2 DEF ViewsInv, CacheGood
  <1>6. AnswersAreNew(inflight', cache', world')
    <2>1. \A r \in inflight : r.got \in Nat
      BY DEF ViewsInv, Good, RequestTypes, Versions
    <2> QED  BY <1>1, <1>4, <2>1 DEF ViewsInv, Good, AnswersAreNew
  <1>7. Good(inflight', cache', world')
    BY <1>1, <1>6 DEF ViewsInv, Good
  <1> QED  BY <1>1, <1>5, <1>7 DEF ViewsInv

(* A page that does not wait for the request that ends goes on as before.  *)
LEMMA OthersWait ==
  ASSUME ViewsInv, NEW r \in inflight
  PROVE  /\ Good(inflight \ {r}, cache, world)
         /\ ~DirectoryWaits(r.key) => DirectoryGood(directory, inflight \ {r}, route)
         /\ ~ProfileWaits(r.key) => ProfileGood(profile, inflight \ {r}, route)
         /\ ~EvidenceWaits(r.key) => EvidenceGood(evidence, inflight \ {r})
  <1>1. /\ Good(inflight \ {r}, cache, world)
        /\ \A k : UnderWay(inflight, k) /\ k # r.key => UnderWay(inflight \ {r}, k)
    BY OneLess DEF ViewsInv
  <1> DEFINE qs == inflight \ {r}
  <1> HIDE DEF qs
  <1>2. ~DirectoryWaits(r.key) => DirectoryGood(directory, qs, route)
    BY <1>1 DEF ViewsInv, DirectoryGood, DirectoryWaits, qs
  <1>3. ~ProfileWaits(r.key) => ProfileGood(profile, qs, route)
    BY <1>1 DEF ViewsInv, ProfileGood, ProfileWaits, qs
  <1>4. ~EvidenceWaits(r.key) => EvidenceGood(evidence, qs)
    BY <1>1 DEF ViewsInv, EvidenceGood, EvidenceWaits, qs
  <1> QED  BY <1>1, <1>2, <1>3, <1>4 DEF qs

LEMMA KeepsGood ==
  ASSUME ViewsInv, NEW r \in inflight, r.got # 0
  PROVE  /\ CacheGood(Keeps(r), world)
         /\ Good(inflight \ {r}, Keeps(r), world)
         /\ \A k \in CacheKeys : Keeps(r)[k].ver >= cache[k].ver
  <1> DEFINE kept == [ver |-> r.got, age |-> "fresh"]
             c    == Keeps(r)
             qs   == inflight \ {r}
  <1>1. /\ r.got \in Versions \cup {0} /\ r.got <= world
        /\ r.key \in CacheKeys => cache[r.key].ver <= r.got
    BY DEF ViewsInv, Good, RequestTypes, AnswersAreNew
  <1>2. kept \in CacheRecords /\ kept.ver = r.got
    BY <1>1 DEF CacheRecords
  <1>3. c = IF r.key \in CacheKeys THEN [cache EXCEPT ![r.key] = kept] ELSE cache
    BY DEF Keeps
  <1> HIDE DEF kept, c
  <1>4. c \in [CacheKeys -> CacheRecords]
    BY <1>2, <1>3 DEF ViewsInv, CacheGood
  <1>5. \A k \in CacheKeys : k # r.key => c[k] = cache[k]
    BY <1>3 DEF ViewsInv, CacheGood
  <1>6. r.key \in CacheKeys => c[r.key] = kept
    BY <1>3 DEF ViewsInv, CacheGood
  <1>7. \A k \in CacheKeys : cache[k].ver \in Nat /\ r.got \in Nat
    BY <1>1 DEF ViewsInv, CacheGood, CacheRecords, Versions
  <1>8. \A k \in CacheKeys : c[k].ver <= world /\ c[k].ver >= cache[k].ver
    BY <1>1, <1>2, <1>5, <1>6, <1>7 DEF ViewsInv, CacheGood
  <1>9. CacheGood(c, world)
    BY <1>4, <1>8 DEF ViewsInv, CacheGood
  <1>10. Good(qs, cache, world) /\ \A q \in qs : q.key # r.key
    BY OneLess DEF ViewsInv
  <1> HIDE DEF qs
  <1>11. Good(qs, c, world)
    BY <1>5, <1>10 DEF Good, AnswersAreNew
  <1> QED  BY <1>8, <1>9, <1>11 DEF c, qs

(* What the directory and the profile make of an answer, with the requests *)
(* qs that are left.                                                       *)
LEMMA GetsGood ==
  ASSUME ViewsInv, NEW r \in inflight, NEW qs,
         ~DirectoryWaits(r.key) => DirectoryGood(directory, qs, route),
         ~ProfileWaits(r.key) => ProfileGood(profile, qs, route)
  PROVE  /\ DirectoryGood(DirectoryGets(r), qs, route)
         /\ ProfileGood(ProfileGets(r), qs, route)
  <1>1. r.got \in Versions \cup {0}
    BY DEF ViewsInv, Good, RequestTypes
  <1>2. ASSUME DirectoryWaits(r.key)
        PROVE  DirectoryGood(DirectoryGets(r), qs, route)
    <2> DEFINE d == [directory EXCEPT !.kind = "ready", !.refreshing = FALSE, !.waits = FALSE,
                                      !.shown = Shows(r.key[2], r.got)]
    <2>1. directory \in Directories /\ route = <<"validators">> /\ r.key[2] \in Sorts
      BY <1>2, KeysDiffer DEF ViewsInv, DirectoryGood, DirectoryWaits, Directories
    <2>2. Shows(r.key[2], r.got) \in Showns(Sorts)
      BY <1>1, <2>1, ShowsType
    <2>3. d \in Directories /\ ~d.waits
      BY <2>1, <2>2 DEF Directories
    <2>4. DirectoryGets(r) = d
      BY <1>2 DEF DirectoryGets
    <2> HIDE DEF d
    <2> QED  BY <2>1, <2>3, <2>4 DEF DirectoryGood
  <1>3. ASSUME ProfileWaits(r.key)
        PROVE  ProfileGood(ProfileGets(r), qs, route)
    <2> DEFINE p == [profile EXCEPT !.kind = "ok", !.waits = FALSE,
                                    !.shown = Shows(r.key[2], r.got)]
    <2>1. PICK a \in Addresses : route = ProfileKey(a)
      BY <1>3 DEF ViewsInv, ProfileGood, ProfileWaits
    <2>2. profile \in Profiles /\ r.key[2] = a
      BY <1>3, <2>1, KeysDiffer DEF ViewsInv, ProfileGood, ProfileWaits
    <2>3. Shows(a, r.got) \in Showns(Addresses) /\ Shows(a, r.got).name = a
      BY <1>1, ShowsType
    <2>4. p \in Profiles /\ ~p.waits /\ p.shown.name = a
      BY <2>2, <2>3 DEF Profiles
    <2>5. ProfileGets(r) = p
      BY <1>3 DEF ProfileGets
    <2> HIDE DEF p
    <2> QED  BY <2>1, <2>4, <2>5 DEF ProfileGood
  <1> QED  BY <1>2, <1>3 DEF DirectoryGets, ProfileGets

LEMMA EvidenceGetsGood ==
  ASSUME ViewsInv, NEW r \in inflight, EvidenceWaits(r.key) \/ r.key[1] = "more"
  PROVE  EvidenceGood(EvidenceGets(evidence, r), inflight \ {r})
  <1> DEFINE filled == [evidence EXCEPT !.kind = "ok", !.waits = FALSE, !.cursor = TRUE,
                                        !.shown = Shows(r.key[2], r.got)]
             longer == [evidence EXCEPT !.kind = "ok", !.shown = evidence.more,
                                        !.cursor = FALSE, !.more = Nothing]
  <1>1. evidence \in Evidences /\ r.got \in Versions \cup {0}
    BY DEF ViewsInv, EvidenceGood, Good, RequestTypes
  <1>2. CASE EvidenceWaits(r.key)
    <2>1. evidence.of \in Addresses /\ r.key[2] = evidence.of /\ r.key[1] # "more"
      BY <1>2, KeysDiffer, NothingShown DEF ViewsInv, EvidenceGood, EvidenceWaits
    <2>2. Shows(r.key[2], r.got) \in Showns(Addresses)
      BY <1>1, <2>1, ShowsType
    <2>3. /\ filled \in Evidences /\ ~filled.waits /\ filled.of = evidence.of
          /\ filled.kind = "ok"
      BY <1>1, <2>2 DEF Evidences
    <2>4. EvidenceGets(evidence, r) = filled
      BY <1>2, <2>1 DEF EvidenceGets
    <2> HIDE DEF filled
    <2> QED  BY <2>1, <2>3, <2>4 DEF EvidenceGood
  <1>3. CASE ~EvidenceWaits(r.key) /\ evidence.more # Nothing
    <2>1. evidence.kind # "off" /\ evidence.of \in Addresses
      BY <1>3 DEF ViewsInv, EvidenceGood, NoEvidence
    <2>2. EvidenceGood(evidence, inflight \ {r})
      BY <1>3, OthersWait
    <2>3. /\ longer \in Evidences /\ longer.waits = evidence.waits /\ longer.of = evidence.of
          /\ longer.kind = "ok"
      BY <1>1, NothingShown DEF Evidences
    <2>4. EvidenceGets(evidence, r) = longer
      BY <1>3 DEF EvidenceGets
    <2> HIDE DEF longer
    <2> QED  BY <2>1, <2>2, <2>3, <2>4 DEF EvidenceGood
  <1>4. CASE ~EvidenceWaits(r.key) /\ evidence.more = Nothing
    BY <1>4, OthersWait DEF EvidenceGets
  <1> QED  BY <1>2, <1>3, <1>4

LEMMA AnswerStep ==
  ASSUME ViewsInv, NEW r \in inflight, Answer(r)
  PROVE  ViewsInv'
  <1> DEFINE qs == inflight \ {r}
  <1>1. /\ CacheGood(cache', world') /\ Good(qs, cache', world)
        /\ cache' = Keeps(r) /\ UNCHANGED <<world, route>>
        /\ directory' = DirectoryGets(r) /\ profile' = ProfileGets(r)
    BY KeepsGood DEF Answer
  <1>2. /\ Good(qs, cache, world)
        /\ DirectoryGood(directory', qs, route) /\ ProfileGood(profile', qs, route)
    BY <1>1, OthersWait, GetsGood
  <1>3. CASE EvidenceWaits(r.key) \/ r.key[1] = "more"
    <2>1. evidence' = EvidenceGets(evidence, r) /\ inflight' = qs
      BY <1>3 DEF Answer, Sends
    <2>2. EvidenceGood(evidence', inflight')
      BY <1>3, <2>1, EvidenceGetsGood
    <2> QED  BY <1>1, <1>2, <2>1, <2>2 DEF ViewsInv
  <1>4. CASE ~(EvidenceWaits(r.key) \/ r.key[1] = "more")
    <2>1. EvidenceFollows(profile', qs)
      BY <1>4 DEF Answer
    <2>2. EvidenceGood(evidence, qs)
      BY <1>4, OthersWait
    <2>3. profile'.kind = "ok" => profile'.shown.name \in Addresses
      BY <1>2, ShownIsOne
    <2> HIDE DEF qs
    <2>4. /\ Good(inflight', cache', world) /\ Keeping(qs, inflight')
          /\ EvidenceGood(evidence', inflight')
      BY <1>1, <2>1, <2>2, <2>3, EvidenceFollowsGood DEF ViewsInv
    <2>5. DirectoryGood(directory', inflight', route) /\ ProfileGood(profile', inflight', route)
      BY <1>2, <2>4, PagesKeep
    <2> QED  BY <1>1, <2>4, <2>5 DEF ViewsInv
  <1> QED  BY <1>3, <1>4

LEMMA FailStep ==
  ASSUME ViewsInv, NEW r \in inflight, Fail(r)
  PROVE  ViewsInv'
  <1> DEFINE qs == inflight \ {r}
             e  == EvidenceFails(r.key)
  <1>1. /\ UNCHANGED <<world, cache, route>> /\ inflight' = qs
        /\ directory' = IF DirectoryWaits(r.key) THEN DirectoryFails ELSE directory
        /\ profile' = IF ProfileWaits(r.key) THEN ProfileFails ELSE profile
        /\ evidence' \in {e, NoEvidence}
    BY DEF Fail, Sends
  <1>2. Good(qs, cache, world)
    BY OthersWait
  <1>3. DirectoryGood(directory', qs, route)
    <2>1. CASE DirectoryWaits(r.key)
      <3>1. /\ DirectoryFails \in Directories /\ ~DirectoryFails.waits
            /\ route = <<"validators">>
        BY <2>1 DEF ViewsInv, DirectoryGood, Directories, DirectoryFails, DirectoryWaits
      <3>2. directory' = DirectoryFails
        BY <1>1, <2>1
      <3> QED  BY <3>1, <3>2 DEF DirectoryGood
    <2> QED  BY <1>1, <2>1, OthersWait
  <1>4. ProfileGood(profile', qs, route)
    <2>1. CASE ProfileWaits(r.key)
      <3>1. /\ ProfileFails \in Profiles /\ ~ProfileFails.waits
            /\ ProfileFails.shown = profile.shown
            /\ ProfileFails.kind \in {"error", profile.kind}
        BY DEF ViewsInv, ProfileGood, Profiles, ProfileFails
      <3>2. profile' = ProfileFails
        BY <1>1, <2>1
      <3> QED  BY <2>1, <3>1, <3>2 DEF ViewsInv, ProfileGood, ProfileWaits
    <2> QED  BY <1>1, <2>1, OthersWait
  <1>5. EvidenceGood(e, qs)
    <2> DEFINE failed == [evidence EXCEPT !.kind = "error", !.waits = FALSE]
               lost   == [evidence EXCEPT !.more = Nothing]
    <2>1. evidence \in Evidences
      BY DEF ViewsInv, EvidenceGood
    <2>2. CASE EvidenceWaits(r.key)
      <3>1. evidence.of \in Addresses /\ r.key[1] # "more"
        BY <2>2, KeysDiffer, NothingShown DEF ViewsInv, EvidenceGood, EvidenceWaits
      <3>2. e = failed
        BY <2>2, <3>1 DEF EvidenceFails
      <3>3. failed \in Evidences /\ ~failed.waits /\ failed.of = evidence.of /\ failed.kind = "error"
        BY <2>1 DEF Evidences
      <3> HIDE DEF failed, e
      <3> QED  BY <3>1, <3>2, <3>3 DEF EvidenceGood
    <2>3. CASE ~EvidenceWaits(r.key) /\ r.key[1] = "more"
      <3>1. e = lost
        BY <2>3 DEF EvidenceFails
      <3>2. EvidenceGood(evidence, qs)
        BY <2>3, OthersWait
      <3>3. /\ lost \in Evidences /\ lost.kind = evidence.kind /\ lost.of = evidence.of
            /\ lost.waits = evidence.waits
        BY <2>1, NothingShown DEF Evidences
      <3>4. evidence.kind = "off" => lost = evidence
        BY <3>2 DEF EvidenceGood, NoEvidence
      <3> HIDE DEF lost, e
      <3> QED  BY <3>1, <3>2, <3>3, <3>4 DEF EvidenceGood
    <2>4. CASE ~EvidenceWaits(r.key) /\ r.key[1] # "more"
      BY <2>4, OthersWait DEF EvidenceFails
    <2> QED  BY <2>2, <2>3, <2>4
  <1> HIDE DEF qs, e
  <1> QED  BY <1>1, <1>2, <1>3, <1>4, <1>5, NoPages DEF ViewsInv

LEMMA NotFoundStep ==
  ASSUME ViewsInv, NEW r \in inflight, NotFound(r)
  PROVE  ViewsInv'
  <1> DEFINE qs == inflight \ {r}
             p  == [profile EXCEPT !.kind = "not-found", !.waits = FALSE]
  <1>1. /\ UNCHANGED <<world, cache, route, directory>>
        /\ profile' = p /\ EvidenceFollows(profile', qs) /\ ProfileWaits(r.key)
    BY DEF NotFound
  <1>2. PICK a \in Addresses : route = ProfileKey(a) /\ r.key = ProfileKey(a)
    <2>1. profile.waits /\ r.key = ProfileKey(route[2])
      BY <1>1 DEF ProfileWaits
    <2>2. PICK a \in Addresses : route = ProfileKey(a)
      BY <2>1 DEF ViewsInv, ProfileGood
    <2> QED  BY <2>1, <2>2, KeysDiffer
  <1>3. r.key[1] = "profile"
    BY <1>2, KeysDiffer
  <1>4. ~DirectoryWaits(r.key) /\ ~EvidenceWaits(r.key)
    BY <1>3 DEF DirectoryWaits, EvidenceWaits, ListKey, RunsKey
  <1>5. /\ Good(qs, cache, world) /\ DirectoryGood(directory, qs, route)
        /\ EvidenceGood(evidence, qs)
    BY <1>4, OthersWait
  <1>6. p \in Profiles /\ ~p.waits /\ p.kind = "not-found"
    BY DEF ViewsInv, ProfileGood, Profiles
  <1> HIDE DEF qs, p
  <1>7. ProfileGood(profile', qs, route)
    BY <1>1, <1>2, <1>6 DEF ProfileGood
  <1>8. profile'.kind # "ok"
    BY <1>1, <1>6
  <1>9. /\ Good(inflight', cache, world) /\ Keeping(qs, inflight')
        /\ EvidenceGood(evidence', inflight')
    BY <1>1, <1>5, <1>8, EvidenceFollowsGood DEF ViewsInv
  <1>10. DirectoryGood(directory', inflight', route) /\ ProfileGood(profile', inflight', route)
    BY <1>1, <1>5, <1>7, <1>9, PagesKeep
  <1> QED  BY <1>1, <1>9, <1>10 DEF ViewsInv

LEMMA RejectsStep ==
  ASSUME ViewsInv, NEW r \in inflight, Rejects(r)
  PROVE  ViewsInv'
  <1> DEFINE qs == inflight \ {r}
             d  == [directory EXCEPT !.waits = FALSE]
             e  == [evidence EXCEPT !.waits = FALSE]
  <1>1. /\ UNCHANGED <<world, cache, route, profile>> /\ inflight' = qs
        /\ directory' = IF DirectoryWaits(r.key) THEN d ELSE directory
        /\ evidence' = IF EvidenceWaits(r.key) THEN e ELSE evidence
    BY DEF Rejects, Sends
  <1>2. ~ProfileWaits(r.key)
    <2>1. r.key[1] # "profile"
      BY DEF Rejects, ViewsInv, Good, OwnersAbort
    <2> QED  BY <2>1 DEF ProfileWaits, ProfileKey
  <1>3. /\ d \in Directories /\ ~d.waits /\ d.kind = directory.kind
        /\ e \in Evidences /\ ~e.waits /\ e.kind = evidence.kind /\ e.of = evidence.of
    BY DEF ViewsInv, DirectoryGood, EvidenceGood, Directories, Evidences
  <1>4. EvidenceWaits(r.key) => evidence.kind # "off"
    BY NothingShown DEF ViewsInv, EvidenceGood, EvidenceWaits
  <1> HIDE DEF qs, d, e
  <1>5. DirectoryGood(directory', qs, route)
    <2>1. CASE DirectoryWaits(r.key)
      BY <1>1, <1>3, <2>1 DEF ViewsInv, DirectoryGood, DirectoryWaits
    <2> QED  BY <1>1, <2>1, OthersWait DEF qs
  <1>6. EvidenceGood(evidence', qs)
    <2>1. CASE EvidenceWaits(r.key)
      BY <1>1, <1>3, <1>4, <2>1 DEF ViewsInv, EvidenceGood
    <2> QED  BY <1>1, <2>1, OthersWait DEF qs
  <1>7. Good(qs, cache, world) /\ ProfileGood(profile, qs, route)
    BY <1>2, OthersWait DEF qs
  <1> QED  BY <1>1, <1>5, <1>6, <1>7 DEF ViewsInv

LEMMA ViewsStep ==
  ASSUME ViewsInv, [ViewsNext]_viewsVars
  PROVE  ViewsInv'
  <1>1. CASE UNCHANGED viewsVars
    BY <1>1 DEF viewsVars, ViewsInv
  <1>2. ASSUME NEW k, Settles(k) PROVE ViewsInv'
    BY <1>2, AnswerStep, FailStep, NotFoundStep, RejectsStep DEF Settles
  <1> QED
    BY <1>1, <1>2, GoHomeStep, GoDirectoryStep, RetryDirectoryStep, RetryProfileStep,
       OpenEvidenceStep, RetryEvidenceStep, LoadMoreStep, ReloadPageStep,
       ServerChangesStep, GoProfileStep, ChangeSortStep, PrefetchStep, AgesStep,
       ServerReadsStep DEF ViewsNext

(* The requests under way, the cache and the pages fit each other at all   *)
(* times: a page that waits has its request under way and no answer on its *)
(* way is older than what is kept for its key.                             *)
THEOREM ViewsInvariant == ViewsSpec => []ViewsInv
<1>1. ViewsInit => ViewsInv
  BY ViewsStart
<1>2. ViewsInv /\ [ViewsNext]_viewsVars => ViewsInv'
  BY ViewsStep
<1> QED  BY <1>1, <1>2, PTL DEF ViewsSpec

(* Every variable of the public pages keeps its type, a page waits only    *)
(* for a request that is under way, and a key has one request at a time    *)
(* (Directory.tsx:145-206, Profile.tsx:373-432, publicDataCache.ts:107-144).*)
THEOREM ViewsTypeCorrect == ViewsSpec => []ViewsTypeOK
<1>1. ViewsInv => ViewsTypeOK
  <2> SUFFICES ASSUME ViewsInv PROVE ViewsTypeOK
    OBVIOUS
  <2>1. /\ world \in Versions /\ cache \in [CacheKeys -> CacheRecords] /\ route \in Routes
        /\ inflight \subseteq RequestTypes /\ OneForAKey(inflight)
    BY DEF ViewsInv, CacheGood, Good
  <2>2. /\ directory.shown \in Showns(Sorts)
        /\ directory.waits => UnderWay(inflight, ListKey(directory.sort))
    BY DEF ViewsInv, DirectoryGood, Directories
  <2>3. /\ profile.shown \in Showns(Addresses)
        /\ profile.waits => UnderWay(inflight, ProfileKey(route[2]))
    BY DEF ViewsInv, ProfileGood, Profiles
  <2>4. /\ evidence.shown \in Showns(Addresses) /\ evidence.more \in Showns(Addresses)
        /\ evidence.waits => UnderWay(inflight, RunsKey(evidence.of))
    BY DEF ViewsInv, EvidenceGood, Evidences
  <2> QED  BY <2>1, <2>2, <2>3, <2>4 DEF ViewsTypeOK, CacheRecords, RequestTypes, OneForAKey
<1> QED  BY <1>1, ViewsInvariant, PTL

(* A profile page shows the validator its address names, whatever answers  *)
(* come late (Profile.tsx:374-401).                                        *)
THEOREM ProfilesShowTheirOwn == ViewsSpec => []ProfileShowsItsOwn
<1>1. ViewsInv => ProfileShowsItsOwn
  BY DEF ViewsInv, ProfileGood, ProfileShowsItsOwn
<1> QED  BY <1>1, ViewsInvariant, PTL

(* What the cache holds for a key is never replaced by an older answer     *)
(* while it may still be shown (publicDataCache.ts:111-144).               *)
THEOREM CachesNeverGoBack == ViewsSpec => CacheNeverGoesBack
<1> DEFINE Forward == \A k \in CacheKeys : cache'[k] # NoRecord => cache'[k].ver >= cache[k].ver
<1>1. ASSUME ViewsInv, [ViewsNext]_viewsVars
      PROVE  Forward
  <2>1. \A k \in CacheKeys : cache[k].ver >= cache[k].ver
    BY <1>1 DEF ViewsInv, CacheGood, CacheRecords, Versions
  <2>2. CASE UNCHANGED cache
    BY <2>1, <2>2
  <2>3. ASSUME NEW r \in inflight, Answer(r) PROVE Forward
    BY <1>1, <2>3, KeepsGood DEF Answer
  <2>4. ASSUME NEW k \in CacheKeys, Ages(k) PROVE Forward
    <3>1. PICK old : /\ cache' = [cache EXCEPT ![k] = old]
                     /\ old = NoRecord \/ old = [cache[k] EXCEPT !.age = "stale"]
      BY <1>1, <2>4 DEF Ages, ViewsInv, CacheGood
    <3>2. old = NoRecord \/ old.ver = cache[k].ver
      BY <1>1, <3>1 DEF ViewsInv, CacheGood, CacheRecords
    <3>3. \A j \in CacheKeys : cache'[j] = IF j = k THEN old ELSE cache[j]
      BY <1>1, <3>1 DEF ViewsInv, CacheGood
    <3> QED  BY <2>1, <3>2, <3>3
  <2>5. ASSUME NEW k, Settles(k) PROVE Forward
    <3>1. ASSUME NEW r \in inflight, Fail(r) \/ NotFound(r) \/ Rejects(r) PROVE UNCHANGED cache
      BY <3>1 DEF Fail, NotFound, Rejects
    <3> QED  BY <2>2, <2>3, <2>5, <3>1 DEF Settles
  <2> HIDE DEF Forward
  <2>6. ASSUME \/ GoHome \/ GoDirectory \/ RetryDirectory \/ RetryProfile
               \/ OpenEvidence \/ RetryEvidence \/ LoadMore \/ ReloadPage \/ ServerChanges
               \/ \E a \in Addresses : GoProfile(a)
               \/ \E s \in Sorts : ChangeSort(s)
               \/ \E k \in CacheKeys : Prefetch(k)
               \/ \E r \in inflight : ServerReads(r)
               \/ UNCHANGED viewsVars
        PROVE  Forward
    BY <2>2, <2>6 DEF GoHome, GoDirectory, RetryDirectory, RetryProfile, OpenEvidence,
       RetryEvidence, LoadMore, ReloadPage, ServerChanges, GoProfile, ChangeSort, Prefetch,
       ServerReads, viewsVars
  <2> QED  BY <1>1, <2>4, <2>5, <2>6 DEF ViewsNext
<1> QED  BY <1>1, ViewsInvariant, PTL DEF CacheNeverGoesBack, ViewsSpec

(* A page that waits and shows no data has nothing kept to show: the       *)
(* only answer that could be kept for its key is the one it waits for.     *)
WaitersAreBlank ==
  /\ directory.waits /\ directory.kind # "ready" => Blank(ListKey(directory.sort))
  /\ profile.waits /\ profile.kind # "ok" => Blank(ProfileKey(route[2]))

(* What a load leaves: no data only where nothing is kept.                 *)
LEMMA LoadsAreBlank ==
  /\ \A d \in Directories :
        /\ DirectoryLoads(d).kind # "ready" => Blank(ListKey(DirectoryLoads(d).sort))
        /\ DirectoryLoads(d).kind # "error"
        /\ d.kind = "ready" => DirectoryLoads(d).kind = "ready"
  /\ \A p \in Profiles, a \in Addresses :
        /\ ProfileLoads(p, a).kind # "ok" => Blank(ProfileKey(a))
        /\ ProfileLoads(p, a).kind # "error"
BY DEF DirectoryLoads, ProfileLoads, Directories, Profiles, Painted, Blank

(* What one step, from a state in which waiters are blank, keeps.          *)
KeepsPages ==
  /\ route' = route =>
       /\ directory.kind = "ready" => directory'.kind = "ready"
       /\ profile.kind = "ok" =>
            /\ profile'.kind # "error"
            /\ profile'.kind = "loading" => Blank(ProfileKey(route[2]))
  /\ directory'.kind = "error" =>
       directory.kind = "error" \/ Blank(ListKey(directory.sort))
  /\ profile'.kind = "error" =>
       profile.kind = "error" \/ Blank(ProfileKey(route[2]))

LEMMA QuietPagesKeep ==
  ASSUME ViewsInv, WaitersAreBlank, UNCHANGED <<directory, profile, route>>,
         \/ UNCHANGED cache
         \/ \E k \in CacheKeys : Ages(k)
  PROVE  WaitersAreBlank' /\ KeepsPages
  <1>1. \A k \in CacheKeys : Blank(k) => Blank(k)'
    <2>1. CASE UNCHANGED cache
      BY <2>1 DEF Blank
    <2>2. ASSUME NEW k \in CacheKeys, Ages(k)
          PROVE  \A j \in CacheKeys : Blank(j) => Blank(j)'
      BY <2>2 DEF Ages, Blank, ViewsInv, CacheGood, NoRecord
    <2> QED  BY <2>1, <2>2
  <1>2. ListKey(directory.sort) \in CacheKeys
    BY KeysDiffer DEF ViewsInv, DirectoryGood, Directories
  <1>3. profile.waits => ProfileKey(route[2]) \in CacheKeys
    BY KeysDiffer DEF ViewsInv, ProfileGood
  <1> QED  BY <1>1, <1>2, <1>3 DEF WaitersAreBlank, KeepsPages, Blank

(* A load of the directory, for the order d asks for.                      *)
LEMMA DirectoryLoadKeeps ==
  ASSUME ViewsInv, WaitersAreBlank, NEW d \in Directories, d.kind = directory.kind,
         UNCHANGED <<profile, route, cache>>, directory' = DirectoryLoads(d)
  PROVE  WaitersAreBlank' /\ KeepsPages
  <1>1. /\ directory'.kind # "ready" => Blank(ListKey(directory'.sort))
        /\ directory'.kind # "error"
        /\ directory.kind = "ready" => directory'.kind = "ready"
    BY LoadsAreBlank
  <1> QED  BY <1>1 DEF WaitersAreBlank, KeepsPages, Blank

(* A load of the profile the route names after the step.                   *)
LEMMA ProfileLoadKeeps ==
  ASSUME ViewsInv, WaitersAreBlank, NEW p \in Profiles, NEW a \in Addresses,
         route' = ProfileKey(a), UNCHANGED cache,
         directory' \in {directory, NoDirectory}, route' = route => UNCHANGED directory,
         profile' = ProfileLoads(p, a)
  PROVE  WaitersAreBlank' /\ KeepsPages
  <1>1. route'[2] = a
    BY KeysDiffer
  <1>2. /\ profile'.kind # "ok" => Blank(ProfileKey(a))
        /\ profile'.kind # "error"
    BY LoadsAreBlank
  <1>3. directory'.kind = "error" => directory.kind = "error"
    BY DEF NoDirectory
  <1>4. directory'.waits => UNCHANGED directory
    BY DEF NoDirectory
  <1> QED  BY <1>1, <1>2, <1>3, <1>4 DEF WaitersAreBlank, KeepsPages, Blank

LEMMA AnswerKeeps ==
  ASSUME ViewsInv, WaitersAreBlank, NEW r \in inflight, Answer(r)
  PROVE  WaitersAreBlank' /\ KeepsPages
  <1>1. /\ directory \in Directories /\ profile \in Profiles
        /\ cache \in [CacheKeys -> CacheRecords]
    BY DEF ViewsInv, DirectoryGood, ProfileGood, CacheGood
  <1>2. /\ directory' = DirectoryGets(r) /\ profile' = ProfileGets(r)
        /\ route' = route /\ cache' = Keeps(r)
    BY DEF Answer
  <1>3. \A k \in CacheKeys : k # r.key /\ Blank(k) => Blank(k)'
    BY <1>1, <1>2 DEF Keeps, Blank
  <1>4. /\ DirectoryWaits(r.key) => directory'.kind = "ready" /\ ~directory'.waits
        /\ ~DirectoryWaits(r.key) => directory' = directory
    BY <1>1, <1>2 DEF DirectoryGets, Directories
  <1>5. /\ ProfileWaits(r.key) => profile'.kind = "ok" /\ ~profile'.waits
        /\ ~ProfileWaits(r.key) => profile' = profile
    BY <1>1, <1>2 DEF ProfileGets, Profiles
  <1>6. /\ ListKey(directory.sort) \in CacheKeys
        /\ profile.waits => ProfileKey(route[2]) \in CacheKeys
    BY <1>1, KeysDiffer DEF ViewsInv, ProfileGood, Directories
  <1>7. WaitersAreBlank'
    BY <1>2, <1>3, <1>4, <1>5, <1>6 DEF WaitersAreBlank, Blank, DirectoryWaits, ProfileWaits
  <1>8. KeepsPages
    BY <1>2, <1>4, <1>5 DEF KeepsPages
  <1> QED  BY <1>7, <1>8

LEMMA FailKeeps ==
  ASSUME ViewsInv, WaitersAreBlank, NEW r \in inflight, Fail(r)
  PROVE  WaitersAreBlank' /\ KeepsPages
  <1>1. directory \in Directories /\ profile \in Profiles
    BY DEF ViewsInv, DirectoryGood, ProfileGood
  <1>2. /\ directory' = IF DirectoryWaits(r.key) THEN DirectoryFails ELSE directory
        /\ profile' = IF ProfileWaits(r.key) THEN ProfileFails ELSE profile
        /\ UNCHANGED <<route, cache>>
    BY DEF Fail
  <1>3. /\ directory.kind = "ready" => directory'.kind = "ready"
        /\ directory'.waits => directory' = directory
    BY <1>1, <1>2 DEF DirectoryFails, Directories
  <1>4. profile'.waits => profile' = profile
    BY <1>1, <1>2 DEF ProfileFails, Profiles
  <1>5. WaitersAreBlank'
    BY <1>2, <1>3, <1>4 DEF WaitersAreBlank, Blank
  <1>6. directory'.kind = "error" =>
          directory.kind = "error" \/ Blank(ListKey(directory.sort))
    BY <1>1, <1>2 DEF ViewsInv, DirectoryGood, DirectoryFails, Directories, DirectoryWaits, WaitersAreBlank
  <1>7. profile'.kind = "error" =>
          profile.kind = "error" \/ Blank(ProfileKey(route[2]))
    BY <1>1, <1>2 DEF ViewsInv, ProfileGood, ProfileFails, Profiles, ProfileWaits, WaitersAreBlank
  <1>8. profile.kind = "ok" => profile'.kind = "ok"
    BY <1>1, <1>2 DEF ViewsInv, ProfileGood, ProfileFails, Profiles, ProfileWaits
  <1> QED  BY <1>2, <1>3, <1>5, <1>6, <1>7, <1>8 DEF KeepsPages

LEMMA PagesStep ==
  ASSUME ViewsInv, WaitersAreBlank, [ViewsNext]_viewsVars
  PROVE  WaitersAreBlank' /\ KeepsPages
  <1>1. directory \in Directories /\ profile \in Profiles
    BY DEF ViewsInv, DirectoryGood, ProfileGood
  <1>2. ASSUME ReloadPage \/ GoHome PROVE WaitersAreBlank' /\ KeepsPages
    <2>1. directory' = NoDirectory /\ profile' = NoProfile /\ route' = <<"home">>
      BY <1>2 DEF ReloadPage, GoHome
    <2>2. route' = route => directory.kind = "off" /\ profile.kind = "off"
      BY <2>1, KeysDiffer DEF ViewsInv, DirectoryGood, ProfileGood, ProfileKey
    <2> QED  BY <2>1, <2>2, <1>1 DEF NoDirectory, NoProfile, WaitersAreBlank, KeepsPages,
                Directories, Profiles
  <1>3. ASSUME GoDirectory PROVE WaitersAreBlank' /\ KeepsPages
    <2>1. /\ directory' = DirectoryLoads(NoDirectory) /\ profile' = NoProfile
          /\ route' # route /\ UNCHANGED cache
      BY <1>3 DEF GoDirectory
    <2>2. /\ directory'.kind # "ready" => Blank(ListKey(directory'.sort))
          /\ directory'.kind # "error"
      BY <2>1, LoadsAreBlank, NothingShown
    <2> QED  BY <2>1, <2>2 DEF NoProfile, WaitersAreBlank, KeepsPages, Blank
  <1>4. ASSUME NEW a \in Addresses, GoProfile(a) PROVE WaitersAreBlank' /\ KeepsPages
    <2>1. /\ directory' = NoDirectory /\ profile' = ProfileLoads(profile, a)
          /\ route' = ProfileKey(a) /\ route' # route /\ UNCHANGED cache
      BY <1>4 DEF GoProfile, ProfileKey
    <2> QED  BY <1>1, <2>1, ProfileLoadKeeps
  <1>5. ASSUME NEW s \in Sorts, ChangeSort(s) PROVE WaitersAreBlank' /\ KeepsPages
    <2> DEFINE d == [directory EXCEPT !.sort = s]
    <2>1. d \in Directories /\ d.kind = directory.kind
      BY <1>1 DEF Directories
    <2>2. directory' = DirectoryLoads(d) /\ UNCHANGED <<profile, route, cache>>
      BY <1>5 DEF ChangeSort
    <2> HIDE DEF d
    <2> QED  BY <2>1, <2>2, DirectoryLoadKeeps
  <1>6. ASSUME RetryDirectory PROVE WaitersAreBlank' /\ KeepsPages
    <2> DEFINE d == [directory EXCEPT !.reloaded = TRUE]
    <2>1. d \in Directories /\ d.kind = directory.kind
      BY <1>1 DEF Directories
    <2>2. directory' = DirectoryLoads(d) /\ UNCHANGED <<profile, route, cache>>
      BY <1>6 DEF RetryDirectory
    <2> HIDE DEF d
    <2> QED  BY <2>1, <2>2, DirectoryLoadKeeps
  <1>7. ASSUME RetryProfile PROVE WaitersAreBlank' /\ KeepsPages
    <2> DEFINE p == [profile EXCEPT !.reloaded = TRUE]
    <2>1. PICK a \in Addresses : route = ProfileKey(a)
      BY <1>7 DEF RetryProfile, ViewsInv, ProfileGood
    <2>2. p \in Profiles /\ route[2] = a
      BY <1>1, <2>1, KeysDiffer DEF Profiles
    <2>3. profile' = ProfileLoads(p, a) /\ UNCHANGED <<directory, route, cache>>
      BY <1>7, <2>2 DEF RetryProfile
    <2> HIDE DEF p
    <2> QED  BY <2>1, <2>2, <2>3, ProfileLoadKeeps
  <1>8. ASSUME OpenEvidence PROVE WaitersAreBlank' /\ KeepsPages
    <2>1. /\ profile'.kind = profile.kind /\ profile'.waits = profile.waits
          /\ UNCHANGED <<directory, route, cache>>
      BY <1>1, <1>8 DEF OpenEvidence, Profiles
    <2>2. profile.kind = "ok"
      BY <1>8 DEF OpenEvidence
    <2> QED  BY <2>1, <2>2 DEF WaitersAreBlank, KeepsPages, Blank
  <1>9. ASSUME NEW r \in inflight, NotFound(r) PROVE WaitersAreBlank' /\ KeepsPages
    <2>1. /\ profile'.kind = "not-found" /\ ~profile'.waits
          /\ UNCHANGED <<directory, route, cache>>
      BY <1>1, <1>9 DEF NotFound, Profiles
    <2> QED  BY <2>1 DEF WaitersAreBlank, KeepsPages, Blank
  <1>10. ASSUME NEW r \in inflight, Rejects(r) PROVE WaitersAreBlank' /\ KeepsPages
    <2>1. /\ directory'.kind = directory.kind /\ directory'.sort = directory.sort
          /\ directory'.waits => directory.waits
          /\ UNCHANGED <<profile, route, cache>>
      BY <1>1, <1>10 DEF Rejects, Directories
    <2> QED  BY <2>1 DEF WaitersAreBlank, KeepsPages, Blank
  <1>11. ASSUME NEW k, Settles(k) PROVE WaitersAreBlank' /\ KeepsPages
    BY <1>9, <1>10, <1>11, AnswerKeeps, FailKeeps DEF Settles
  <1>12. ASSUME \/ RetryEvidence \/ LoadMore \/ ServerChanges
                \/ \E k \in CacheKeys : Prefetch(k)
                \/ \E r \in inflight : ServerReads(r)
                \/ UNCHANGED viewsVars
         PROVE  WaitersAreBlank' /\ KeepsPages
    <2>1. UNCHANGED <<directory, profile, route, cache>>
      BY <1>12 DEF RetryEvidence, LoadMore, ServerChanges, Prefetch, ServerReads, viewsVars
    <2> QED  BY <2>1, QuietPagesKeep
  <1>13. ASSUME NEW k \in CacheKeys, Ages(k) PROVE WaitersAreBlank' /\ KeepsPages
    <2>1. UNCHANGED <<directory, profile, route>>
      BY <1>13 DEF Ages
    <2> QED  BY <1>13, <2>1, QuietPagesKeep
  <1> QED
    BY <1>2, <1>3, <1>4, <1>5, <1>6, <1>7, <1>8, <1>11, <1>12, <1>13 DEF ViewsNext

(* What can be shown is shown: a list stays until the visitor leaves it, a *)
(* profile gives way to its skeleton only when it is asked for again with  *)
(* nothing kept of it and never to an error at once, and a page first says *)
(* that it could not load when nothing is kept that it could have shown    *)
(* (Directory.tsx:150-201, Profile.tsx:383-426, publicDataCache.ts:68-90). *)
THEOREM LastGoodIsKept == ViewsSpec => KeepsLastGood
<1>1. ViewsInit => WaitersAreBlank
  BY DEF ViewsInit, NoDirectory, NoProfile, WaitersAreBlank
<1>2. ViewsInv /\ WaitersAreBlank /\ [ViewsNext]_viewsVars => WaitersAreBlank'
  BY PagesStep
<1>3. ViewsInv /\ WaitersAreBlank /\ [ViewsNext]_viewsVars => KeepsPages
  BY PagesStep
<1> QED
  BY <1>1, <1>2, <1>3, ViewsInvariant, PTL DEF KeepsLastGood, KeepsPages, ViewsSpec

=============================================================================
