------------------------ MODULE StakingIntentsProofs ------------------------
(***************************************************************************)
(* Proofs about StakingIntents, for every value of its constants.          *)
(***************************************************************************)
EXTENDS StakingIntents, TLAPS

-----------------------------------------------------------------------------
(* Lemmas about the helpers: what they build is well typed.                *)

(* The record a position read starts with is a call state.                 *)
LEMMA BeginReadType ==
  ASSUME NEW kind \in {"create", "confirm", "position"}, NEW u \in Users,
         NEW body \in Bodies \cup {None}, NEW t \in Nat,
         NEW pending \in BOOLEAN, NEW caching \in BOOLEAN
  PROVE  BeginRead(kind, u, body, t, pending, caching) \in CallStates
BY DEF BeginRead, Idle, CallStates

(* It awaits the staker, with the clock reading it was given.              *)
LEMMA BeginReadFields ==
  ASSUME NEW kind, NEW u, NEW body, NEW t, NEW pending, NEW caching
  PROVE  /\ BeginRead(kind, u, body, t, pending, caching).pc = "staker"
         /\ BeginRead(kind, u, body, t, pending, caching).nowMs = t
BY DEF BeginRead, Idle

(* The idle record is a call state.                                        *)
LEMMA IdleType == Idle \in CallStates
BY DEF Idle, CallStates

(* Expiring a set of existing rows keeps the table well typed.             *)
LEMMA ExpireAllType ==
  ASSUME NEW rows \in [IntentIds -> Rows \cup {None}],
         NEW S \in SUBSET IntentIds, \A i \in S : rows[i] \in Rows
  PROVE  ExpireAll(rows, S) \in [IntentIds -> Rows \cup {None}]
<1>1. ASSUME NEW i \in S PROVE [rows[i] EXCEPT !.status = "expired"] \in Rows
  BY <1>1 DEF Rows, Statuses
<1>2. QED
  BY <1>1 DEF ExpireAll

(* The position state is one of the six.                                   *)
LEMMA NormalizeType ==
  ASSUME NEW s \in Stakers, NEW p \in BOOLEAN
  PROVE  NormalizePositionState(s, p) \in PositionStates
BY DEF NormalizePositionState, PositionStates, Stakers, Luna

(* A new row is well typed.                                                *)
LEMMA NewRowType ==
  ASSUME NEW u \in Users, NEW b \in Bodies, NEW t \in Nat
  PROVE  NewRow(u, b, t) \in Rows
<1>1. b \in Requests
  BY IntentsAssumption
<1>2. b.op \in Operations /\ b.params \in Params
  BY <1>1 DEF Requests
<1>3. t + IntentTTL \in Nat
  BY IntentsAssumption
<1>4. QED
  BY <1>2, <1>3 DEF NewRow, Rows, Statuses

-----------------------------------------------------------------------------
(* TypeOK alone is not inductive: a handler that resumes uses the fields   *)
(* its request filled in, so which are filled at which pc is part of the   *)
(* invariant.                                                              *)
CallShape ==
  \A c \in Calls :
    /\ call[c].pc # "idle" => call[c].user \in Users
    /\ call[c].pc = "tx"   => call[c].intent \in IntentIds /\ call[c].hash \in TxHashes
    /\ call[c].kind = "create" => call[c].body \in Bodies
    /\ call[c].pc = "block" => call[c].staker \in StakerStates

TypeInv == TypeOK /\ CallShape

(* Replacing one call by a well-shaped one keeps the calls well shaped.    *)
LEMMA CallUpdate ==
  ASSUME TypeInv, NEW c \in Calls, NEW k \in CallStates,
         k.pc # "idle" => k.user \in Users,
         k.pc = "tx"   => k.intent \in IntentIds /\ k.hash \in TxHashes,
         k.kind = "create" => k.body \in Bodies,
         k.pc = "block" => k.staker \in StakerStates,
         call' = [call EXCEPT ![c] = k]
  PROVE  call' \in [Calls -> CallStates] /\ CallShape'
BY DEF TypeInv, TypeOK, CallShape

(* Ending a call, likewise.                                                *)
LEMMA CallEnds ==
  ASSUME TypeInv, NEW c \in Calls, call' = [call EXCEPT ![c] = Idle]
  PROVE  call' \in [Calls -> CallStates] /\ CallShape'
<1>1. /\ Idle.pc = "idle"
      /\ Idle.kind = "position"
  BY DEF Idle
<1>2. QED
  BY <1>1, IdleType, CallUpdate

(* Beginning a position read, likewise.                                    *)
LEMMA CallBegins ==
  ASSUME TypeInv, NEW c \in Calls,
         NEW kind \in {"create", "confirm", "position"}, NEW u \in Users,
         NEW body \in Bodies \cup {None}, kind = "create" => body \in Bodies,
         NEW t \in Nat, NEW pending \in BOOLEAN, NEW caching \in BOOLEAN,
         call' = [call EXCEPT ![c] = BeginRead(kind, u, body, t, pending, caching)]
  PROVE  call' \in [Calls -> CallStates] /\ CallShape'
<1> DEFINE k == BeginRead(kind, u, body, t, pending, caching)
<1>1. k \in CallStates
  BY BeginReadType
<1>2. k.pc = "staker" /\ k.user = u /\ k.kind = kind /\ k.body = body
  BY DEF BeginRead, Idle
<1> HIDE DEF k
<1>3. QED
  BY <1>1, <1>2, CallUpdate DEF k

(* Settling a row keeps the table well typed.                              *)
LEMMA SettleRowType ==
  ASSUME TypeOK, NEW i \in IntentIds, NEW status \in Statuses, NEW h \in TxHashes,
         NEW t \in Nat \cup {None}, SettleRow(i, status, h, t)
  PROVE  intents' \in [IntentIds -> Rows \cup {None}]
<1>1. CASE IsPending(i)
  <2>1. intents[i] \in Rows
    BY <1>1 DEF TypeOK, IsPending
  <2>2. [intents[i] EXCEPT !.status = status, !.txHash = h, !.confirmedAt = t] \in Rows
    BY <2>1 DEF Rows
  <2>3. intents' = [intents EXCEPT ![i] = [intents[i] EXCEPT !.status = status, !.txHash = h,
                                                             !.confirmedAt = t]]
    BY <1>1, <2>1 DEF SettleRow, TypeOK, Rows
  <2>4. QED
    BY <2>2, <2>3 DEF TypeOK
<1>2. CASE ~IsPending(i)
  BY <1>2 DEF SettleRow, TypeOK
<1>3. QED
  BY <1>1, <1>2

(* One step keeps the state well typed, whichever handler takes it.        *)
LEMMA TypeStep ==
  ASSUME TypeInv, [Next]_vars
  PROVE  TypeInv'
<1> USE DEF TypeInv, TypeOK
<1>1. ASSUME NEW c \in GetCalls, NEW u \in Users, NEW fresh \in BOOLEAN,
             GetPosition(c, u, fresh)
      PROVE  TypeInv'
  <2>1. c \in Calls /\ now \in Nat
    BY DEF Calls, Times
  <2>2. HasPendingIntent(intents, u, now) \in BOOLEAN
    BY DEF HasPendingIntent
  <2>3. call' \in [Calls -> CallStates] /\ CallShape'
    BY <1>1, <2>1, <2>2, CallBegins DEF GetPosition
  <2>4. QED
    BY <1>1, <2>3 DEF GetPosition
<1>2. ASSUME NEW c \in CreateCalls, NEW u \in Users, NEW b \in Bodies,
             BeginCreate(c, u, b)
      PROVE  TypeInv'
  <2>1. c \in Calls /\ now \in Nat
    BY DEF Calls, Times
  <2>2. intents' \in [IntentIds -> Rows \cup {None}]
    BY <1>2, ExpireAllType DEF BeginCreate, Abandoned, Owns
  <2>3. HasPendingIntent(intents', u, now) \in BOOLEAN
    BY DEF HasPendingIntent
  <2>4. call' \in [Calls -> CallStates] /\ CallShape'
    BY <1>2, <2>1, <2>3, CallBegins DEF BeginCreate
  <2>5. QED
    BY <1>2, <2>2, <2>4 DEF BeginCreate
<1>3. ASSUME NEW c \in Calls, StakerRead(c)
      PROVE  TypeInv'
  <2> DEFINE k == [call[c] EXCEPT !.pc = "block", !.staker = stakers[call[c].user]]
  <2>1. call[c] \in CallStates /\ call[c].user \in Users
    BY <1>3 DEF StakerRead, CallShape
  <2>2. stakers[call[c].user] \in StakerStates
    BY <2>1
  <2>3. k \in CallStates /\ k.pc = "block" /\ k.staker \in StakerStates
        /\ k.user = call[c].user /\ k.kind = call[c].kind /\ k.body = call[c].body
    BY <2>1, <2>2 DEF CallStates
  <2>4. call' = [call EXCEPT ![c] = k]
    BY <1>3 DEF StakerRead
  <2> HIDE DEF k
  <2>5. k.kind = "create" => k.body \in Bodies
    BY <2>3 DEF CallShape
  <2>6. call' \in [Calls -> CallStates] /\ CallShape'
    BY <2>1, <2>3, <2>4, <2>5, CallUpdate
  <2>7. QED
    BY <1>3, <2>6 DEF StakerRead
<1>4. ASSUME NEW c \in Calls, StakerReadFails(c)
      PROVE  TypeInv'
  BY <1>4, CallEnds DEF StakerReadFails
<1>5. ASSUME NEW c \in Calls, NEW blockKnown \in BOOLEAN, FinishRead(c, blockKnown)
      PROVE  TypeInv'
  <2> DEFINE k == call[c]
  <2>1. /\ k \in CallStates /\ k.user \in Users /\ k.staker \in StakerStates
        /\ k.kind = "create" => k.body \in Bodies
    BY <1>5 DEF FinishRead, CallShape
  <2>2. k.nowMs \in Nat /\ k.pending \in BOOLEAN /\ k.nowMs + CacheTTL \in Nat
    BY <2>1, IntentsAssumption DEF CallStates
  <2>3. snapshots' \in SUBSET (Users \X Nat)
    BY <1>5, <2>1, <2>2 DEF FinishRead, WriteSnapshot
  <2>4. [ state     |-> NormalizePositionState(k.staker, k.pending),
          expiresAt |-> k.nowMs + CacheTTL ] \in Envelopes
    BY <2>1, <2>2, NormalizeType, IntentsAssumption DEF Envelopes
  <2>5. cache' \in [Users -> Envelopes \cup {None}]
    BY <1>5, <2>1, <2>4 DEF FinishRead
  <2>6. intents' \in [IntentIds -> Rows \cup {None}]
    <3>1. CASE k.kind = "create"
      BY <1>5, <2>1, <2>2, <3>1, NewRowType DEF FinishRead, FinishCreate
    <3>2. CASE k.kind # "create"
      BY <1>5, <3>2 DEF FinishRead
    <3>3. QED
      BY <3>1, <3>2
  <2>7. call' \in [Calls -> CallStates] /\ CallShape'
    BY <1>5, CallEnds DEF FinishRead
  <2>8. QED
    BY <1>5, <2>3, <2>5, <2>6, <2>7 DEF FinishRead
<1>6. ASSUME NEW c \in ConfirmCalls, NEW u \in Users, NEW i \in IntentIds,
             NEW h \in TxHashes, BeginConfirm(c, u, i, h)
      PROVE  TypeInv'
  <2> DEFINE k == [Idle EXCEPT !.pc = "tx", !.kind = "confirm", !.user = u,
                               !.nowMs = now, !.intent = i, !.hash = h]
  <2>1. c \in Calls /\ now \in Nat
    BY DEF Calls, Times
  <2>2. k \in CallStates /\ k.pc = "tx" /\ k.kind = "confirm" /\ k.user = u
        /\ k.intent = i /\ k.hash = h
    BY <2>1 DEF CallStates, Idle
  <2>3. call' = [call EXCEPT ![c] = k]
    BY <1>6 DEF BeginConfirm
  <2> HIDE DEF k
  <2>4. call' \in [Calls -> CallStates] /\ CallShape'
    BY <2>1, <2>2, <2>3, CallUpdate
  <2>5. QED
    BY <1>6, <2>4 DEF BeginConfirm
<1>7. ASSUME NEW u \in Users, NEW i \in IntentIds,
             ConfirmExpired(u, i) \/ GetOwnedIntent(u, i)
      PROVE  TypeInv'
  <2>1. intents' \in [IntentIds -> Rows \cup {None}]
    BY <1>7, ExpireAllType DEF ConfirmExpired, GetOwnedIntent, Owns
  <2>2. QED
    BY <1>7, <2>1 DEF ConfirmExpired, GetOwnedIntent, CallShape
<1>8. ASSUME NEW u \in Users, CancelPending(u)
      PROVE  TypeInv'
  <2>1. intents' \in [IntentIds -> Rows \cup {None}]
    BY <1>8, ExpireAllType DEF CancelPending, Abandoned, Owns
  <2>2. QED
    BY <1>8, <2>1 DEF CancelPending, CallShape
<1>9. ASSUME NEW c \in Calls, TxUnknown(c)
      PROVE  TypeInv'
  <2>1. call' \in [Calls -> CallStates] /\ CallShape'
    BY <1>9, CallEnds DEF TxUnknown
  <2>2. QED
    BY <1>9, <2>1 DEF TxUnknown
<1>10. ASSUME NEW c \in Calls, TxFetchFails(c) \/ TxMismatch(c)
      PROVE  TypeInv'
  <2>1. call' \in [Calls -> CallStates] /\ CallShape'
    BY <1>10, CallEnds DEF TxFetchFails, TxMismatch
  <2>2. QED
    BY <1>10, <2>1 DEF TxFetchFails, TxMismatch
<1>11. ASSUME NEW c \in Calls, TxFailed(c)
      PROVE  TypeInv'
  <2>1. call[c].intent \in IntentIds /\ call[c].hash \in TxHashes
    BY <1>11 DEF TxFailed, CallShape
  <2>2. intents' \in [IntentIds -> Rows \cup {None}]
    BY <1>11, <2>1, SettleRowType DEF TxFailed, Statuses
  <2>3. call' \in [Calls -> CallStates] /\ CallShape'
    BY <1>11, CallEnds DEF TxFailed
  <2>4. QED
    BY <1>11, <2>2, <2>3 DEF TxFailed
<1>12. ASSUME NEW c \in Calls, TxMatches(c)
      PROVE  TypeInv'
  <2>1. /\ call[c].intent \in IntentIds /\ call[c].hash \in TxHashes
        /\ call[c].user \in Users /\ call[c].nowMs \in Nat
    BY <1>12 DEF TxMatches, CallShape, CallStates
  <2>2. intents' \in [IntentIds -> Rows \cup {None}]
    BY <1>12, <2>1, SettleRowType DEF TxMatches, Statuses
  <2>3. call' \in [Calls -> CallStates] /\ CallShape'
    <3>1. CASE IsPending(call[c].intent)
      <4>1. call' = [call EXCEPT ![c] = BeginRead("confirm", call[c].user, None,
                                                  call[c].nowMs, FALSE, FALSE)]
        BY <1>12, <3>1 DEF TxMatches
      <4>2. QED
        BY <2>1, <4>1, CallBegins
    <3>2. CASE ~IsPending(call[c].intent)
      BY <1>12, <3>2, CallEnds DEF TxMatches
    <3>3. QED
      BY <3>1, <3>2
  <2>4. cache' \in [Users -> Envelopes \cup {None}]
    BY <1>12 DEF TxMatches
  <2>5. QED
    BY <1>12, <2>2, <2>3, <2>4 DEF TxMatches
<1>13. ASSUME NEW h \in TxHashes, NEW tx \in MinedTxs, MineTx(h, tx)
      PROVE  TypeInv'
  BY <1>13, IntentsAssumption DEF MineTx, CallShape
<1>14. ASSUME NEW u \in Users, NEW s \in StakerStates, StakerChanges(u, s)
      PROVE  TypeInv'
  BY <1>14 DEF StakerChanges, CallShape
<1>15. CASE Tick
  BY <1>15, IntentsAssumption DEF Tick, Times, CallShape
<1>16. CASE Restart
  <2>1. Idle.pc = "idle" /\ Idle.kind = "position"
    BY DEF Idle
  <2>2. QED
    BY <1>16, <2>1, IdleType DEF Restart, CallShape
<1>17. CASE UNCHANGED vars
  BY <1>17 DEF vars, CallShape
<1>18. QED
  BY <1>1, <1>2, <1>3, <1>4, <1>5, <1>6, <1>7, <1>8, <1>9, <1>10, <1>11, <1>12,
     <1>13, <1>14, <1>15, <1>16, <1>17
     DEF Next, Request, Answer, Environment

(* The initial state is well typed.                                        *)
LEMMA TypeInit ==
  ASSUME Init
  PROVE  TypeInv
<1>1. TypeOK
  BY IdleType, IntentsAssumption DEF Init, TypeOK, Times
<1>2. CallShape
  BY DEF Init, CallShape, Idle
<1>3. QED
  BY <1>1, <1>2 DEF TypeInv

(* Every reachable state is well typed and every call well shaped.         *)
THEOREM TypeInvariant == Spec => []TypeInv
<1>1. Init => TypeInv
  BY TypeInit
<1>2. TypeInv /\ [Next]_vars => TypeInv'
  BY TypeStep
<1>3. QED
  BY <1>1, <1>2, PTL DEF Spec

(* Every variable stays within its type.                                   *)
THEOREM TypeCorrect == Spec => []TypeOK
BY TypeInvariant, PTL DEF TypeInv

-----------------------------------------------------------------------------
(* What one step may do to one row.  Every theorem about the table follows *)
(* from this description of the statements that touch it.                  *)

Inserted(i) ==
  /\ intents[i] = None
  /\ \E u \in Users, b \in Bodies, t \in Nat : t <= now /\ intents'[i] = NewRow(u, b, t)

Expired(i) == IsPending(i) /\ intents'[i] = [intents[i] EXCEPT !.status = "expired"]

Settled(c, i, status, t) ==
  /\ call[c].pc = "tx" /\ call[c].intent = i
  /\ IsPending(i)
  /\ intents'[i] = [intents[i] EXCEPT !.status = status, !.txHash = call[c].hash,
                                      !.confirmedAt = t]

FailedBy(c, i) ==
  /\ Settled(c, i, "failed", None)
  /\ chain[call[c].hash] # None /\ ~chain[call[c].hash].executionResult

ConfirmedBy(c, i) ==
  /\ Settled(c, i, "confirmed", call[c].nowMs)
  /\ chain[call[c].hash] # None /\ chain[call[c].hash].executionResult
  /\ Matches(intents[i], call[c].user, chain[call[c].hash])

RowStep(i) ==
  \/ intents'[i] = intents[i]
  \/ Inserted(i)
  \/ Expired(i)
  \/ \E c \in Calls : FailedBy(c, i) \/ ConfirmedBy(c, i)

(* The handlers in flight look back on a request that was in order: its    *)
(* clock reading is not in the future, and a confirm that awaits its       *)
(* transaction was sent by the owner of a row, within the row's time.      *)
CallInOrder(c) ==
  /\ call[c].nowMs <= now
  /\ call[c].pc = "tx" =>
       /\ call[c].kind = "confirm"
       /\ Owns(call[c].user, call[c].intent)
       /\ call[c].nowMs < intents[call[c].intent].expiresAt
       /\ call[c].nowMs >= intents[call[c].intent].expiresAt - IntentTTL

CallsInOrder == \A c \in Calls : CallInOrder(c)

(* Setting a set of pending rows to expired is Expired or nothing for each.*)
LEMMA ExpireAllStep ==
  ASSUME NEW S \in SUBSET IntentIds, \A i \in S : IsPending(i),
         intents' = ExpireAll(intents, S), NEW i \in IntentIds
  PROVE  RowStep(i)
BY DEF ExpireAll, RowStep, Expired

(* SettleRow on the row of a call is Settled for that row or nothing.      *)
LEMMA SettleRowStep ==
  ASSUME TypeOK, NEW c \in Calls, call[c].pc = "tx", call[c].intent \in IntentIds,
         NEW status, NEW t, SettleRow(call[c].intent, status, call[c].hash, t),
         NEW i \in IntentIds, intents'[i] # intents[i]
  PROVE  Settled(c, i, status, t)
<1> DEFINE j == call[c].intent
<1>1. IsPending(j) /\ intents' = [intents EXCEPT ![j].status = status,
                                                 ![j].txHash = call[c].hash,
                                                 ![j].confirmedAt = t]
  BY DEF SettleRow
<1>2. intents \in [IntentIds -> Rows \cup {None}] /\ intents[j] \in Rows
  BY <1>1 DEF TypeOK, IsPending
<1>3. i = j
  BY <1>1, <1>2
<1>4. intents'[j] = [intents[j] EXCEPT !.status = status, !.txHash = call[c].hash,
                                       !.confirmedAt = t]
  BY <1>1, <1>2 DEF Rows
<1>5. QED
  BY <1>1, <1>3, <1>4 DEF Settled

(* Every step does to every row one of the five things of RowStep.         *)
LEMMA RowSteps ==
  ASSUME TypeInv, CallsInOrder, [Next]_vars, NEW i \in IntentIds
  PROVE  RowStep(i)
<1> USE DEF TypeInv
<1>1. ASSUME NEW u \in Users, NEW c \in Calls, NEW b \in Bodies, BeginCreate(c, u, b)
      PROVE  RowStep(i)
  BY <1>1, ExpireAllStep DEF BeginCreate, Abandoned
<1>2. ASSUME NEW u \in Users, CancelPending(u)
      PROVE  RowStep(i)
  BY <1>2, ExpireAllStep DEF CancelPending, Abandoned
<1>3. ASSUME NEW u \in Users, NEW j \in IntentIds,
             ConfirmExpired(u, j) \/ GetOwnedIntent(u, j)
      PROVE  RowStep(i)
  BY <1>3, ExpireAllStep DEF ConfirmExpired, GetOwnedIntent
<1>4. ASSUME NEW c \in Calls, NEW blockKnown \in BOOLEAN, FinishRead(c, blockKnown)
      PROVE  RowStep(i)
  <2> DEFINE k == call[c]
  <2>1. /\ k.user \in Users /\ k.nowMs \in Nat /\ k.nowMs <= now
        /\ k.kind = "create" => k.body \in Bodies
    BY <1>4 DEF FinishRead, CallShape, CallsInOrder, CallInOrder, TypeOK, CallStates
  <2>2. CASE intents' = intents
    BY <2>2 DEF RowStep
  <2>3. ASSUME NEW j \in IntentIds, k.kind = "create", intents[j] = None,
               intents' = [intents EXCEPT ![j] = NewRow(k.user, k.body, k.nowMs)]
        PROVE  RowStep(i)
    BY <2>1, <2>3 DEF RowStep, Inserted, TypeOK
  <2>4. QED
    BY <1>4, <2>2, <2>3 DEF FinishRead, FinishCreate
<1>5. ASSUME NEW c \in Calls, TxFailed(c)
      PROVE  RowStep(i)
  BY <1>5, SettleRowStep DEF TxFailed, CallShape, RowStep, FailedBy
<1>6. ASSUME NEW c \in Calls, TxMatches(c)
      PROVE  RowStep(i)
  <2>1. CASE intents'[i] = intents[i]
    BY <2>1 DEF RowStep
  <2>2. CASE intents'[i] # intents[i]
    <3>1. call[c].pc = "tx" /\ call[c].intent \in IntentIds
      BY <1>6 DEF TxMatches, CallShape
    <3>2. Settled(c, i, "confirmed", call[c].nowMs)
      BY <1>6, <2>2, <3>1, SettleRowStep DEF TxMatches
    <3>3. QED
      BY <1>6, <3>2 DEF TxMatches, RowStep, ConfirmedBy, Settled
  <2>3. QED
    BY <2>1, <2>2
<1>7. CASE UNCHANGED intents
  BY <1>7 DEF RowStep
<1>8. QED
  BY <1>1, <1>2, <1>3, <1>4, <1>5, <1>6, <1>7
     DEF Next, Request, Environment, Answer, vars, Calls, GetPosition, BeginConfirm,
         StakerRead, StakerReadFails, TxUnknown, TxFetchFails, TxMismatch,
         MineTx, StakerChanges, Tick, Restart

(* A row is never removed, and keeps its owner, parameters and expiry.     *)
LEMMA RowKept ==
  ASSUME TypeInv, CallsInOrder, [Next]_vars, NEW i \in IntentIds, intents[i] # None
  PROVE  /\ intents'[i] # None
         /\ intents'[i].user = intents[i].user
         /\ intents'[i].op = intents[i].op
         /\ intents'[i].params = intents[i].params
         /\ intents'[i].expiresAt = intents[i].expiresAt
<1>1. intents[i] \in Rows
  BY DEF TypeInv, TypeOK
<1>2. \/ intents'[i] = intents[i]
      \/ intents'[i] = [intents[i] EXCEPT !.status = "expired"]
      \/ \E status \in {"failed", "confirmed"}, h \in TxHashes, t \in Nat \cup {None} :
           intents'[i] = [intents[i] EXCEPT !.status = status, !.txHash = h,
                                            !.confirmedAt = t]
  <2>1. ASSUME NEW c \in Calls, FailedBy(c, i) \/ ConfirmedBy(c, i)
        PROVE  \E status \in {"failed", "confirmed"}, h \in TxHashes, t \in Nat \cup {None} :
                 intents'[i] = [intents[i] EXCEPT !.status = status, !.txHash = h,
                                                  !.confirmedAt = t]
    <3>1. call[c].hash \in TxHashes /\ call[c].nowMs \in Nat \cup {None}
      BY <2>1 DEF FailedBy, ConfirmedBy, Settled, TypeInv, TypeOK, CallShape, CallStates
    <3>2. QED
      BY <2>1, <3>1 DEF FailedBy, ConfirmedBy, Settled
  <2>2. QED
    BY <2>1, RowSteps DEF RowStep, Inserted, Expired
<1>3. intents'[i] \in Rows
  BY <1>1, <1>2 DEF Rows, Statuses
<1>4. QED
  BY <1>1, <1>2, <1>3, IntentsAssumption DEF Rows

(* A transaction in a block stays there, unchanged.                        *)
LEMMA ChainKept ==
  ASSUME TypeInv, [Next]_vars, NEW h \in TxHashes, chain[h] # None
  PROVE  chain'[h] = chain[h]
BY DEF TypeInv, TypeOK, Next, Request, Environment, Answer, vars, GetPosition, BeginCreate,
       BeginConfirm, ConfirmExpired, CancelPending, GetOwnedIntent, StakerRead,
       StakerReadFails, FinishRead, TxUnknown, TxFetchFails, TxFailed, TxMismatch,
       TxMatches, MineTx, StakerChanges, Tick, Restart

(* The clock does not go back.                                             *)
LEMMA ClockKept ==
  ASSUME TypeInv, [Next]_vars
  PROVE  now \in Nat /\ now' \in Nat /\ now <= now'
<1>1. now' = now \/ now' = now + 1
  BY DEF Next, Request, Environment, Answer, vars, GetPosition,
         BeginCreate, BeginConfirm, ConfirmExpired, CancelPending, GetOwnedIntent, StakerRead,
         StakerReadFails, FinishRead, TxUnknown, TxFetchFails, TxFailed, TxMismatch,
         TxMatches, MineTx, StakerChanges, Tick, Restart
<1>2. now \in Nat
  BY IntentsAssumption DEF TypeInv, TypeOK, Times
<1>3. QED
  BY <1>1, <1>2

(* A row's life ends IntentTTL after a moment that has passed.             *)
RowsInOrder ==
  \A i \in IntentIds : intents[i] # None => intents[i].expiresAt - IntentTTL <= now

OrderInv == TypeInv /\ CallsInOrder /\ RowsInOrder

(* What a step may do to one call: leave it, end it, begin a position read *)
(* or a confirm with the present clock, or resume a confirm or read with   *)
(* the clock reading it has.                                               *)
CallStep(c) ==
  \/ call'[c] = call[c]
  \/ call'[c].pc # "tx" /\ call'[c].nowMs \in {0, now, call[c].nowMs}
  \/ \E u \in Users, i \in IntentIds, h \in TxHashes :
       /\ Owns(u, i) /\ intents[i].expiresAt > now
       /\ call'[c].kind = "confirm" /\ call'[c].user = u /\ call'[c].intent = i
       /\ call'[c].nowMs = now

LEMMA CallSteps ==
  ASSUME TypeInv, [Next]_vars, NEW c \in Calls
  PROVE  CallStep(c)
<1> USE DEF TypeInv, TypeOK, CallStep
<1> Idle.pc = "idle" /\ Idle.nowMs = 0
  BY DEF Idle
<1>1. CASE UNCHANGED call
  BY <1>1
<1>2. ASSUME NEW d \in Calls, call' = [call EXCEPT ![d] = Idle]
      PROVE  CallStep(c)
  BY <1>2
<1>3. ASSUME NEW d \in Calls, NEW k, k.pc = "staker", k.nowMs \in {now, call[d].nowMs},
             call' = [call EXCEPT ![d] = k]
      PROVE  CallStep(c)
  BY <1>3
<1>4. ASSUME NEW d \in Calls, StakerRead(d)
      PROVE  CallStep(c)
  BY <1>4 DEF StakerRead, CallStates
<1>5. ASSUME NEW d \in Calls, NEW u \in Users, NEW i \in IntentIds, NEW h \in TxHashes,
             BeginConfirm(d, u, i, h)
      PROVE  CallStep(c)
  BY <1>5 DEF BeginConfirm, Idle
<1>6. CASE Restart
  BY <1>6 DEF Restart
<1>7. ASSUME NEW d \in Calls, TxMatches(d)
      PROVE  CallStep(c)
  <2>1. \/ call' = [call EXCEPT ![d] = Idle]
        \/ call' = [call EXCEPT ![d] = BeginRead("confirm", call[d].user, None,
                                                 call[d].nowMs, FALSE, FALSE)]
    BY <1>7 DEF TxMatches
  <2> DEFINE k == BeginRead("confirm", call[d].user, None, call[d].nowMs, FALSE, FALSE)
  <2>2. k.pc = "staker" /\ k.nowMs = call[d].nowMs
    BY DEF BeginRead, Idle
  <2> HIDE DEF k
  <2>3. call' = [call EXCEPT ![d] = Idle] \/ call' = [call EXCEPT ![d] = k]
    BY <2>1 DEF k
  <2>4. call'[c] = call[c] \/ call'[c] = Idle \/ (call'[c] = k /\ c = d)
    BY <2>3
  <2>5. QED
    BY <2>2, <2>4
<1>8. ASSUME NEW d \in Calls, NEW u \in Users, NEW fresh \in BOOLEAN, GetPosition(d, u, fresh)
      PROVE  CallStep(c)
  <2>1. call' = [call EXCEPT ![d] = BeginRead("position", u, None, now,
                                              HasPendingIntent(intents, u, now), ~fresh)]
    BY <1>8 DEF GetPosition
  <2>2. QED
    BY <1>3, <2>1, BeginReadFields
<1>9. ASSUME NEW d \in Calls, NEW u \in Users, NEW b \in Bodies, BeginCreate(d, u, b)
      PROVE  CallStep(c)
  <2>1. call' = [call EXCEPT ![d] = BeginRead("create", u, b, now,
                                              HasPendingIntent(intents', u, now), FALSE)]
    BY <1>9 DEF BeginCreate
  <2> DEFINE k == BeginRead("create", u, b, now, HasPendingIntent(intents', u, now), FALSE)
  <2>2. k.pc = "staker" /\ k.nowMs = now
    BY DEF BeginRead, Idle
  <2>3. call' = [call EXCEPT ![d] = k]
    BY <2>1
  <2> HIDE DEF k
  <2>4. call'[c] = call[c] \/ call'[c] = k
    BY <2>3
  <2>5. QED
    BY <2>2, <2>4
<1>10. QED
  BY <1>1, <1>2, <1>4, <1>5, <1>6, <1>7, <1>8, <1>9
     DEF Next, Request, Environment, Answer, vars, Calls, ConfirmExpired, CancelPending,
         GetOwnedIntent, StakerReadFails, FinishRead, TxUnknown, TxFetchFails, TxFailed,
         TxMismatch, MineTx, StakerChanges, Tick

(* Calls and rows stay in order.                                           *)
LEMMA OrderStep ==
  ASSUME OrderInv, [Next]_vars
  PROVE  OrderInv'
<1> USE DEF OrderInv
<1>1. TypeInv'
  BY TypeStep
<1>2. RowsInOrder'
  <2> SUFFICES ASSUME NEW i \in IntentIds, intents'[i] # None
               PROVE  intents'[i].expiresAt - IntentTTL <= now'
    BY DEF RowsInOrder
  <2>1. CASE intents[i] # None
    <3>1. intents[i].expiresAt \in Nat /\ IntentTTL \in Nat
      BY <2>1, IntentsAssumption DEF TypeInv, TypeOK, Rows
    <3>2. QED
      BY <2>1, <3>1, RowKept, ClockKept DEF RowsInOrder
  <2>2. CASE intents[i] = None
    <3>1. Inserted(i)
      BY <2>2, RowSteps DEF RowStep, Expired, FailedBy, ConfirmedBy, Settled, IsPending
    <3>2. PICK t \in Nat : t <= now /\ intents'[i].expiresAt = t + IntentTTL
      BY <3>1 DEF Inserted, NewRow
    <3>3. QED
      BY <3>2, ClockKept, IntentsAssumption
  <2>3. QED
    BY <2>1, <2>2
<1>3. CallsInOrder'
  <2> SUFFICES ASSUME NEW c \in Calls PROVE CallInOrder(c)'
    BY DEF CallsInOrder
  <2>1. call[c].nowMs \in Nat /\ call[c].nowMs <= now
    BY DEF TypeInv, TypeOK, CallStates, CallsInOrder, CallInOrder
  <2>2. CASE call'[c] = call[c]
    <3>1. call'[c].nowMs <= now'
      BY <2>1, <2>2, ClockKept
    <3>2. CASE call[c].pc = "tx"
      <4>1. call[c].intent \in IntentIds
        BY <3>2 DEF TypeInv, CallShape
      <4>2. CallInOrder(c) /\ intents[call[c].intent] # None
        BY <3>2 DEF CallsInOrder, CallInOrder, Owns
      <4>3. QED
        BY <2>2, <3>1, <3>2, <4>1, <4>2, RowKept DEF CallInOrder, Owns
    <3>3. QED
      BY <2>2, <3>1, <3>2 DEF CallInOrder
  <2>3. CASE call'[c].pc # "tx" /\ call'[c].nowMs \in {0, now, call[c].nowMs}
    BY <2>1, <2>3, ClockKept DEF CallInOrder
  <2>4. ASSUME NEW u \in Users, NEW i \in IntentIds, NEW h \in TxHashes,
               Owns(u, i), intents[i].expiresAt > now,
               call'[c].kind = "confirm", call'[c].user = u, call'[c].intent = i,
               call'[c].nowMs = now
        PROVE  CallInOrder(c)'
    <3>1. intents[i] # None /\ intents[i].user = u
      BY <2>4 DEF Owns
    <3>2. intents[i].expiresAt \in Nat /\ IntentTTL \in Nat
          /\ intents[i].expiresAt - IntentTTL <= now
      BY <3>1, IntentsAssumption DEF TypeInv, TypeOK, Rows, RowsInOrder
    <3>3. QED
      BY <2>4, <3>1, <3>2, RowKept, ClockKept DEF CallInOrder, Owns
  <2>5. QED
    BY <2>2, <2>3, <2>4, CallSteps DEF CallStep
<1>4. QED
  BY <1>1, <1>2, <1>3

(* Calls and rows are in order in every reachable state.                   *)
THEOREM OrderInvariant == Spec => []OrderInv
<1>1. Init => OrderInv
  <2> SUFFICES ASSUME Init PROVE OrderInv
    OBVIOUS
  <2>1. TypeInv
    BY TypeInit
  <2>2. CallsInOrder
    BY DEF Init, Idle, CallsInOrder, CallInOrder
  <2>3. RowsInOrder
    BY DEF Init, RowsInOrder
  <2>4. QED
    BY <2>1, <2>2, <2>3 DEF OrderInv
<1>2. OrderInv /\ [Next]_vars => OrderInv'
  BY OrderStep
<1>3. QED
  BY <1>1, <1>2, PTL DEF Spec

-----------------------------------------------------------------------------
(* Action properties of the table.                                         *)

(* A settled or expired row is final: no later confirm, cancel, create or  *)
(* expiry changes it (the AND status = 'pending' of every UPDATE).         *)
THEOREM TerminalRowsAreFinal == Spec => TerminalIsFinal
<1>1. ASSUME OrderInv, [Next]_vars, NEW i \in IntentIds,
             intents[i] # None, intents[i].status # "pending"
      PROVE  intents'[i] = intents[i]
  BY <1>1, RowSteps DEF OrderInv, RowStep, Inserted, Expired, FailedBy, ConfirmedBy,
                        Settled, IsPending
<1>2. OrderInv /\ [Next]_vars =>
        [\A i \in IntentIds :
           intents[i] # None /\ intents[i].status # "pending" => intents'[i] = intents[i]]_vars
  BY <1>1
<1>3. QED
  BY <1>2, OrderInvariant, PTL DEF Spec, TerminalIsFinal

(* A row is settled only by a confirm request of its owner for that row.   *)
THEOREM SettledByOwner == Spec => OnlyOwnerSettles
<1>1. ASSUME OrderInv, [Next]_vars, NEW i \in IntentIds, IsPending(i),
             intents'[i].status \in {"confirmed", "failed"}
      PROVE  \E c \in Calls : /\ call[c].kind = "confirm"
                              /\ call[c].intent = i
                              /\ call[c].user = intents[i].user
  <2>1. intents[i] \in Rows /\ intents[i] # None /\ intents[i].status = "pending"
    BY <1>1 DEF OrderInv, TypeInv, TypeOK, IsPending
  <2>2. PICK c \in Calls : FailedBy(c, i) \/ ConfirmedBy(c, i)
    BY <1>1, <2>1, RowSteps DEF OrderInv, RowStep, Inserted, Expired, Rows
  <2>3. call[c].pc = "tx" /\ call[c].intent = i
    BY <2>2 DEF FailedBy, ConfirmedBy, Settled
  <2>4. QED
    BY <1>1, <2>3 DEF OrderInv, CallsInOrder, CallInOrder, Owns
<1>2. OrderInv /\ [Next]_vars =>
        [\A i \in IntentIds :
           IsPending(i) /\ intents'[i].status \in {"confirmed", "failed"} =>
             \E c \in Calls : /\ call[c].kind = "confirm"
                              /\ call[c].intent = i
                              /\ call[c].user = intents[i].user]_vars
  BY <1>1
<1>3. QED
  BY <1>2, OrderInvariant, PTL DEF Spec, OnlyOwnerSettles

-----------------------------------------------------------------------------
(* The trust rule.                                                         *)

ConfirmedSound(i) ==
  intents[i].status = "confirmed" =>
    /\ \E h \in TxHashes : /\ intents[i].txHash = h
                           /\ chain[h] # None
                           /\ chain[h].executionResult
                           /\ Matches(intents[i], intents[i].user, chain[h])
    /\ intents[i].confirmedAt < intents[i].expiresAt
    /\ intents[i].confirmedAt >= intents[i].expiresAt - IntentTTL

FailedSound(i) ==
  intents[i].status = "failed" =>
    \E h \in TxHashes :
      intents[i].txHash = h /\ chain[h] # None /\ ~chain[h].executionResult

RowSound(i) == intents[i] # None => ConfirmedSound(i) /\ FailedSound(i)

SettledInv == \A i \in IntentIds : RowSound(i)

(* A step of the handlers keeps a sound row sound.                         *)
LEMMA SettledStep ==
  ASSUME OrderInv, SettledInv, [Next]_vars
  PROVE  SettledInv'
<1> SUFFICES ASSUME NEW i \in IntentIds, intents'[i] # None
             PROVE  ConfirmedSound(i)' /\ FailedSound(i)'
  BY DEF SettledInv, RowSound
<1> USE DEF OrderInv
<1>1. CASE intents'[i] = intents[i]
  <2>1. ConfirmedSound(i) /\ FailedSound(i)
    BY <1>1 DEF SettledInv, RowSound
  <2>2. ConfirmedSound(i)'
    BY <1>1, <2>1, ChainKept DEF ConfirmedSound, Matches
  <2>3. FailedSound(i)'
    BY <1>1, <2>1, ChainKept DEF FailedSound
  <2>4. QED
    BY <2>2, <2>3
<1>2. CASE Inserted(i)
  BY <1>2 DEF Inserted, NewRow, ConfirmedSound, FailedSound
<1>3. CASE Expired(i)
  <2>1. intents[i] \in Rows
    BY <1>3 DEF Expired, IsPending, TypeInv, TypeOK
  <2>2. intents'[i].status = "expired"
    BY <1>3, <2>1 DEF Expired, Rows
  <2>3. QED
    BY <2>2 DEF ConfirmedSound, FailedSound
<1>4. ASSUME NEW c \in Calls, FailedBy(c, i)
      PROVE  ConfirmedSound(i)' /\ FailedSound(i)'
  <2>1. intents[i] \in Rows /\ call[c].hash \in TxHashes
    BY <1>4 DEF FailedBy, Settled, IsPending, TypeInv, TypeOK, CallShape
  <2>2. intents'[i].status = "failed" /\ intents'[i].txHash = call[c].hash
    BY <1>4, <2>1 DEF FailedBy, Settled, Rows
  <2>3. chain'[call[c].hash] # None /\ ~chain'[call[c].hash].executionResult
    BY <1>4, <2>1, ChainKept DEF FailedBy
  <2>4. QED
    BY <2>1, <2>2, <2>3 DEF ConfirmedSound, FailedSound
<1>5. ASSUME NEW c \in Calls, ConfirmedBy(c, i)
      PROVE  ConfirmedSound(i)' /\ FailedSound(i)'
  <2>0. PICK h \in TxHashes : h = call[c].hash
    BY <1>5 DEF ConfirmedBy, Settled, TypeInv, CallShape
  <2>1. /\ intents[i] \in Rows
        /\ call[c].pc = "tx" /\ call[c].intent = i
    BY <1>5 DEF ConfirmedBy, Settled, IsPending, TypeInv, TypeOK, CallShape
  <2>2. /\ intents'[i].status = "confirmed" /\ intents'[i].txHash = h
        /\ intents'[i].confirmedAt = call[c].nowMs
        /\ intents'[i].expiresAt = intents[i].expiresAt
        /\ intents'[i].user = intents[i].user
        /\ intents'[i].params = intents[i].params
    BY <1>5, <2>0, <2>1 DEF ConfirmedBy, Settled, Rows
  <2>3. /\ call[c].user = intents[i].user
        /\ call[c].nowMs < intents[i].expiresAt
        /\ call[c].nowMs >= intents[i].expiresAt - IntentTTL
    BY <2>1 DEF CallsInOrder, CallInOrder, Owns
  <2>4. chain[h] # None /\ chain[h].executionResult /\ chain'[h] = chain[h]
    BY <1>5, <2>0, ChainKept DEF ConfirmedBy
  <2>5. Matches(intents[i], intents[i].user, chain[h])
    BY <1>5, <2>0, <2>3 DEF ConfirmedBy
  <2>6. Matches(intents[i], intents[i].user, chain[h])'
    BY <2>2, <2>4, <2>5 DEF Matches
  <2>7. ConfirmedSound(i)'
    BY <2>1, <2>2, <2>3, <2>4, <2>6 DEF ConfirmedSound
  <2>8. FailedSound(i)'
    BY <2>2 DEF FailedSound
  <2>9. QED
    BY <2>7, <2>8
<1>6. QED
  BY <1>1, <1>2, <1>3, <1>4, <1>5, RowSteps DEF RowStep

(* A confirmed row has a successful transaction in a block, sent by the    *)
(* row's owner, of the recorded amount; a failed one an unsuccessful one;  *)
(* and a confirm counts only when it came in before the expiry.            *)
THEOREM SettledSafety == Spec => [](ConfirmedIsOnChain /\ FailedIsOnChain /\ ConfirmedInTime)
<1>1. Init => SettledInv
  BY DEF Init, SettledInv, RowSound
<1>2. OrderInv /\ SettledInv /\ [Next]_vars => SettledInv'
  BY SettledStep
<1>3. SettledInv => ConfirmedIsOnChain /\ FailedIsOnChain /\ ConfirmedInTime
  BY DEF SettledInv, Matches, RowSound, ConfirmedSound, FailedSound, ConfirmedIsOnChain,
         FailedIsOnChain, ConfirmedInTime
<1>4. QED
  BY <1>1, <1>2, <1>3, OrderInvariant, PTL DEF Spec

(* A confirmed row was in time when its confirm came in, however long the  *)
(* node took to answer and whatever expired meanwhile (stakingIntents.ts,  *)
(* the check of expires_at before the fetch).                              *)
COROLLARY ConfirmationsAreInTime == Spec => []ConfirmedInTime
BY SettledSafety, PTL

-----------------------------------------------------------------------------
(* Snapshots.                                                              *)

(* Two snapshots of an address are more than the throttle apart: the one   *)
(* written last was written only because no older-or-equal one lies within *)
(* the throttle of the clock reading it carries.                           *)
THEOREM SnapshotsAreSpaced == Spec => []SnapshotSpacing
<1>1. Init => SnapshotSpacing
  BY DEF Init, SnapshotSpacing
<1>2. TypeInv /\ SnapshotSpacing /\ [Next]_vars => SnapshotSpacing'
  <2> SUFFICES ASSUME TypeInv, SnapshotSpacing, [Next]_vars PROVE SnapshotSpacing'
    OBVIOUS
  <2>1. CASE UNCHANGED snapshots
    BY <2>1 DEF SnapshotSpacing
  <2>2. ASSUME NEW c \in Calls, NEW blockKnown \in BOOLEAN, FinishRead(c, blockKnown)
        PROVE  SnapshotSpacing'
    <3> DEFINE u == call[c].user
               t == call[c].nowMs
    <3>1. t \in Nat /\ Throttle \in Nat /\ snapshots \in SUBSET (Users \X Nat)
      BY IntentsAssumption DEF TypeInv, TypeOK, CallStates
    <3>2. CASE snapshots' = snapshots
      BY <3>2 DEF SnapshotSpacing
    <3>3. CASE snapshots' = snapshots \cup {<<u, t>>} /\ ~RecentSnapshot(u, t)
      <4>1. \A s \in snapshots : s[1] = u => s[2] < t - Throttle
        BY <3>1, <3>3 DEF RecentSnapshot
      <4>2. SUFFICES ASSUME NEW r \in snapshots', NEW s \in snapshots',
                            r[1] = s[1], r[2] < s[2]
                     PROVE  s[2] - r[2] > Throttle
        BY DEF SnapshotSpacing
      <4>3. CASE r \in snapshots /\ s \in snapshots
        BY <4>2, <4>3 DEF SnapshotSpacing
      <4>4. CASE s = <<u, t>> /\ r \in snapshots
        BY <3>1, <4>1, <4>2, <4>4
      <4>5. CASE r = <<u, t>> /\ s \in snapshots
        BY <3>1, <4>1, <4>2, <4>5
      <4>6. CASE r = <<u, t>> /\ s = <<u, t>>
        BY <3>1, <4>2, <4>6
      <4>7. QED
        BY <3>3, <4>3, <4>4, <4>5, <4>6
    <3>4. QED
      BY <2>2, <3>2, <3>3 DEF FinishRead, WriteSnapshot
  <2>3. QED
    BY <2>1, <2>2
       DEF Next, Request, Environment, Answer, vars, GetPosition, BeginCreate, BeginConfirm,
           ConfirmExpired, CancelPending, GetOwnedIntent, StakerRead, StakerReadFails,
           TxUnknown, TxFetchFails, TxFailed, TxMismatch, TxMatches, MineTx,
           StakerChanges, Tick, Restart
<1>3. QED
  BY <1>1, <1>2, TypeInvariant, PTL DEF Spec

-----------------------------------------------------------------------------
(* Implementation of the abstract life cycle.                              *)

(* An entry of the book is a record, so it is not None, and an intent is   *)
(* unsettled in the book exactly when its row is pending.                  *)
LEMMA BookFacts ==
  ASSUME OrderInv, NEW i \in IntentIds
  PROVE  /\ intents[i] = None => Book[i] = None
         /\ intents[i] # None => Book[i] = Entry(intents[i])
         /\ IsPending(i) => Lifecycle!Unsettled(i)
<1>1. /\ intents[i] = None => Book[i] = None
      /\ intents[i] # None => Book[i] = Entry(intents[i])
  BY DEF Book
<1>2. ASSUME IsPending(i) PROVE Lifecycle!Unsettled(i)
  <2>1. intents[i] \in Rows /\ intents[i] # None /\ intents[i].status = "pending"
    BY <1>2 DEF OrderInv, TypeInv, TypeOK, IsPending
  <2>2. Entry(intents[i]) \in BookRows /\ Entry(intents[i]).status = "pending"
    BY <2>1 DEF Entry, Rows, BookRows
  <2>3. QED
    BY <1>1, <2>1, <2>2, IntentsAssumption DEF Lifecycle!Unsettled
<1>3. QED
  BY <1>1, <1>2

(* Expiring pending rows of one owner is one Lapse.                        *)
LEMMA LapseStep ==
  ASSUME OrderInv, NEW u \in Users, NEW S \in SUBSET IntentIds,
         \A i \in S : Owns(u, i) /\ IsPending(i),
         intents' = ExpireAll(intents, S), UNCHANGED chain
  PROVE  Lifecycle!LNext
<1>1. ASSUME NEW i \in S
      PROVE  Lifecycle!Unsettled(i) /\ Book[i].owner = u
  <2>1. Book[i] = Entry(intents[i]) /\ intents[i].user = u
    BY BookFacts DEF Owns
  <2>2. QED
    BY <2>1, BookFacts DEF Entry
<1>2. ASSUME NEW i \in IntentIds
      PROVE  Book'[i] = IF i \in S THEN [Book[i] EXCEPT !.status = "expired"] ELSE Book[i]
  <2>1. CASE i \in S
    <3>1. intents[i] \in Rows /\ intents[i] # None
      BY <2>1 DEF OrderInv, TypeInv, TypeOK, Owns
    <3>2. intents'[i] = [intents[i] EXCEPT !.status = "expired"]
      BY <2>1 DEF ExpireAll
    <3>3. intents'[i] \in Rows
      BY <3>1, <3>2 DEF Rows, Statuses
    <3>4. Book'[i] = Entry(intents'[i])
      BY <3>3, IntentsAssumption DEF Book
    <3>5. Entry(intents'[i]) = [Entry(intents[i]) EXCEPT !.status = "expired"]
      BY <3>1, <3>2 DEF Entry, Rows
    <3>6. QED
      BY <2>1, <3>1, <3>4, <3>5, BookFacts
  <2>2. CASE i \notin S
    BY <2>2 DEF Book, ExpireAll
  <2>3. QED
    BY <2>1, <2>2
<1>3. Book' = [i \in IntentIds |-> IF i \in S THEN [Book[i] EXCEPT !.status = "expired"]
                                           ELSE Book[i]]
  BY <1>2 DEF Book
<1>4. Lifecycle!Lapse(S, u)
  BY <1>1, <1>3 DEF Lifecycle!Lapse
<1>5. QED
  BY <1>4 DEF Lifecycle!LNext

(* Settling the row of a call is one Settle.                               *)
LEMMA SettleStep ==
  ASSUME OrderInv, NEW c \in Calls, NEW i \in IntentIds,
         FailedBy(c, i) \/ ConfirmedBy(c, i),
         \A j \in IntentIds : j # i => intents'[j] = intents[j], UNCHANGED chain
  PROVE  Lifecycle!LNext
<1>0. PICK h \in TxHashes : h = call[c].hash
  BY DEF FailedBy, ConfirmedBy, Settled, OrderInv, TypeInv, CallShape
<1>1. PICK status \in {"failed", "confirmed"}, t \in Nat \cup {None} :
        /\ intents'[i] = [intents[i] EXCEPT !.status = status, !.txHash = h,
                                            !.confirmedAt = t]
        /\ status = "failed" => ~chain[h].executionResult
        /\ status = "confirmed" => /\ chain[h].executionResult
                                   /\ Matches(intents[i], call[c].user, chain[h])
  <2>1. call[c].nowMs \in Nat \cup {None}
    BY DEF OrderInv, TypeInv, TypeOK, CallStates
  <2>2. QED
    BY <1>0, <2>1 DEF FailedBy, ConfirmedBy, Settled
<1>2. /\ IsPending(i) /\ chain[h] # None
      /\ call[c].pc = "tx" /\ call[c].intent = i
  BY <1>0 DEF FailedBy, ConfirmedBy, Settled
<1>3. intents[i] \in Rows /\ intents[i] # None /\ call[c].user = intents[i].user
  BY <1>2 DEF OrderInv, TypeInv, TypeOK, IsPending, CallsInOrder, CallInOrder, Owns
<1>4. intents'[i] \in Rows
  BY <1>1, <1>3 DEF Rows, Statuses
<1>5. Book'[i] = Lifecycle!Outcome(Book[i], status, h)
  <2>1. Book'[i] = Entry(intents'[i])
    BY <1>4, IntentsAssumption DEF Book
  <2>2. /\ intents'[i].user = intents[i].user /\ intents'[i].params = intents[i].params
        /\ intents'[i].status = status /\ intents'[i].txHash = h
    BY <1>1, <1>3 DEF Rows
  <2>3. Book[i].owner = intents[i].user /\ Book[i].params = intents[i].params
    <3>1. Book[i] = Entry(intents[i])
      BY <1>3, BookFacts
    <3>2. QED
      BY <3>1 DEF Entry
  <2>4. QED
    BY <2>1, <2>2, <2>3 DEF Entry, Lifecycle!Outcome
<1>6. Book' = [Book EXCEPT ![i] = Lifecycle!Outcome(Book[i], status, h)]
  <2>1. ASSUME NEW j \in IntentIds, j # i PROVE Book'[j] = Book[j]
    BY <2>1 DEF Book
  <2>2. Book' = [Book EXCEPT ![i] = Book'[i]]
    BY <2>1 DEF Book
  <2>3. QED
    BY <1>5, <2>2
<1>7. Book[i].owner = intents[i].user /\ Book[i].params = intents[i].params
  <2>1. Book[i] = Entry(intents[i])
    BY <1>3, BookFacts
  <2>2. QED
    BY <2>1 DEF Entry
<1>8. Lifecycle!Settle(i, h)
  <2>1. Lifecycle!Unsettled(i)
    BY <1>2, BookFacts
  <2>2. CASE status = "failed"
    BY <1>1, <1>2, <1>6, <2>1, <2>2 DEF Lifecycle!Settle
  <2>3. CASE status = "confirmed"
    BY <1>1, <1>2, <1>3, <1>6, <1>7, <2>1, <2>3 DEF Lifecycle!Settle, Matches, MatchAmount, Lifecycle!MatchAmount
  <2>4. QED
    BY <2>2, <2>3
<1>9. QED
  BY <1>8 DEF Lifecycle!LNext

(* Every step of the handlers is a step of the life cycle or hidden.       *)
LEMMA LifecycleStep ==
  ASSUME OrderInv, [Next]_vars
  PROVE  [Lifecycle!LNext]_(Lifecycle!lifecycleVars)
<1> USE DEF OrderInv
<1>1. CASE UNCHANGED <<chain, intents>>
  BY <1>1 DEF Lifecycle!lifecycleVars, Book
<1>2. ASSUME NEW h \in TxHashes, NEW tx \in MinedTxs, MineTx(h, tx)
      PROVE  Lifecycle!LNext
  <2>1. Lifecycle!Record(tx, h)
    BY <1>2 DEF MineTx, Lifecycle!Record, Book
  <2>2. QED
    BY <2>1 DEF Lifecycle!LNext
<1>3. ASSUME NEW u \in Users, NEW c \in Calls, NEW b \in Bodies, BeginCreate(c, u, b)
      PROVE  Lifecycle!LNext
  BY <1>3, LapseStep DEF BeginCreate, Abandoned
<1>4. ASSUME NEW u \in Users, CancelPending(u)
      PROVE  Lifecycle!LNext
  BY <1>4, LapseStep DEF CancelPending, Abandoned
<1>5. ASSUME NEW u \in Users, NEW i \in IntentIds,
             ConfirmExpired(u, i) \/ GetOwnedIntent(u, i)
      PROVE  Lifecycle!LNext
  BY <1>5, LapseStep DEF ConfirmExpired, GetOwnedIntent
<1>6. ASSUME NEW c \in Calls, NEW blockKnown \in BOOLEAN, FinishRead(c, blockKnown)
      PROVE  [Lifecycle!LNext]_(Lifecycle!lifecycleVars)
  <2> DEFINE k == call[c]
  <2>1. CASE intents' = intents
    BY <1>6, <1>1, <2>1 DEF FinishRead
  <2>2. ASSUME NEW i \in IntentIds, k.kind = "create", intents[i] = None,
               intents' = [intents EXCEPT ![i] = NewRow(k.user, k.body, k.nowMs)]
        PROVE  Lifecycle!LNext
    <3>1. k.user \in Users /\ k.body \in Bodies /\ k.nowMs \in Nat
      BY <1>6, <2>2 DEF FinishRead, TypeInv, TypeOK, CallShape, CallStates
    <3>2. PICK u \in Users, b \in Bodies, t \in Nat : u = k.user /\ b = k.body /\ t = k.nowMs
      BY <3>1
    <3>3. intents' = [intents EXCEPT ![i] = NewRow(u, b, t)] /\ NewRow(u, b, t) # None
      BY <2>2, <3>2, NewRowType, IntentsAssumption
    <3>4. Entry(NewRow(u, b, t)) = [owner |-> u, params |-> b.params,
                                    status |-> "pending", txHash |-> None]
      BY DEF Entry, NewRow
    <3>5. Book' = [Book EXCEPT ![i] = [owner |-> u, params |-> b.params,
                                       status |-> "pending", txHash |-> None]]
      BY <3>3, <3>4 DEF Book, TypeInv, TypeOK
    <3>6. Lifecycle!Open(i, u, b)
      BY <1>6, <2>2, <3>5, BookFacts DEF FinishRead, Lifecycle!Open
    <3>7. QED
      BY <3>6 DEF Lifecycle!LNext
  <2>3. QED
    BY <1>6, <2>1, <2>2 DEF FinishRead, FinishCreate
<1>7. ASSUME NEW c \in Calls, TxFailed(c) \/ TxMatches(c)
      PROVE  [Lifecycle!LNext]_(Lifecycle!lifecycleVars)
  <2>1. call[c].intent \in IntentIds
    BY <1>7 DEF TxFailed, TxMatches, TypeInv, CallShape
  <2>2. PICK i \in IntentIds : i = call[c].intent
    BY <2>1
  <2>3. UNCHANGED chain
    BY <1>7 DEF TxFailed, TxMatches
  <2>4. \A j \in IntentIds : j # i => intents'[j] = intents[j]
    BY <1>7, <2>2 DEF TxFailed, TxMatches, SettleRow, TypeInv, TypeOK
  <2>5. CASE intents'[i] = intents[i]
    BY <2>3, <2>4, <2>5 DEF Book, Lifecycle!lifecycleVars
  <2>6. CASE intents'[i] # intents[i]
    <3>1. FailedBy(c, i) \/ ConfirmedBy(c, i)
      <4>1. call[c].pc = "tx"
        BY <1>7 DEF TxFailed, TxMatches
      <4>2. CASE TxFailed(c)
        BY <2>1, <2>6, <4>1, <4>2, SettleRowStep DEF TxFailed, TypeInv, FailedBy
      <4>3. CASE TxMatches(c)
        <5>1. Settled(c, i, "confirmed", call[c].nowMs)
          BY <2>1, <2>6, <4>1, <4>3, SettleRowStep DEF TxMatches, TypeInv
        <5>2. QED
          BY <2>2, <4>3, <5>1 DEF TxMatches, ConfirmedBy
      <4>4. QED
        BY <1>7, <4>2, <4>3
    <3>2. QED
      BY <2>3, <2>4, <3>1, SettleStep
  <2>7. QED
    BY <2>5, <2>6
<1>8. QED
  BY <1>1, <1>2, <1>3, <1>4, <1>5, <1>6, <1>7
     DEF Next, Request, Environment, Answer, vars, Calls, GetPosition, BeginConfirm,
         StakerRead, StakerReadFails, TxUnknown, TxFetchFails, TxMismatch,
         StakerChanges, Tick, Restart

(* The write path implements the promised life cycle of an intent.         *)
THEOREM Implementation == Spec => ImplementsLifecycle
<1>1. Init => Lifecycle!LInit
  BY DEF Init, Lifecycle!LInit, Book
<1>2. OrderInv /\ [Next]_vars => [Lifecycle!LNext]_(Lifecycle!lifecycleVars)
  BY LifecycleStep
<1>3. QED
  BY <1>1, <1>2, OrderInvariant, PTL DEF Spec, ImplementsLifecycle, Lifecycle!LSpec

-----------------------------------------------------------------------------
(***************************************************************************)
(* Proofs about the position read of StakingIntents: what the Pending      *)
(* overlay of a cached position rests on.                                  *)
(***************************************************************************)

(* An intent of u that was in time at t, in this state and in the next.    *)
Backed(u, t) == \E i \in IntentIds : Owns(u, i) /\ intents[i].expiresAt > t

BackedNext(u, t) ==
  \E i \in IntentIds : /\ intents'[i] # None
                       /\ intents'[i].user = u
                       /\ intents'[i].expiresAt > t

(* The invariant: the overlay a read captured is backed at the clock it    *)
(* captured, for as long as the read is in flight.  The intent may be      *)
(* settled or expired meanwhile; its row keeps owner and expiry.           *)
ReadsBacked ==
  \A c \in Calls : call[c].pending => Backed(call[c].user, call[c].nowMs)

OverlayInv == ReadsBacked /\ PendingOverlayIsBacked

LEMMA BackedKept ==
  ASSUME OrderInv, [Next]_vars, NEW u, NEW t, Backed(u, t)
  PROVE  BackedNext(u, t)
  BY RowKept DEF OrderInv, Backed, BackedNext, Owns

(* Normalisation answers Pending only under the overlay.                   *)
LEMMA PendingNeedsOverlay ==
  ASSUME NEW s \in Stakers, NEW pending \in BOOLEAN,
         NormalizePositionState(s, pending) = "Pending"
  PROVE  pending
  BY DEF NormalizePositionState, Stakers, Luna

(* hasPendingStakingIntent, on the rows a step leaves.                     *)
LEMMA OverlayIsBacked ==
  ASSUME NEW u, NEW t, HasPendingIntent(intents', u, t)
  PROVE  BackedNext(u, t)
  BY DEF HasPendingIntent, BackedNext

(* What a step may do to the overlay of one call: drop it, carry it with   *)
(* user and clock, or capture it anew.                                     *)
OverlayStep(c) ==
  \/ ~call'[c].pending
  \/ /\ call'[c].pending = call[c].pending
     /\ call'[c].user = call[c].user
     /\ call'[c].nowMs = call[c].nowMs
  \/ BackedNext(call'[c].user, call'[c].nowMs)

LEMMA OverlaySteps ==
  ASSUME TypeInv, [Next]_vars, NEW c \in Calls
  PROVE  OverlayStep(c)
<1> USE DEF TypeInv, TypeOK, OverlayStep
<1> ~Idle.pending
  BY DEF Idle
<1>1. CASE UNCHANGED call
  BY <1>1
<1>2. ASSUME NEW d \in Calls, call' = [call EXCEPT ![d] = Idle]
      PROVE  OverlayStep(c)
  BY <1>2
<1>3. ASSUME NEW d \in Calls, StakerRead(d)
      PROVE  OverlayStep(c)
  BY <1>3 DEF StakerRead, CallStates
<1>4. ASSUME NEW d \in Calls, NEW u \in Users, NEW i \in IntentIds, NEW h \in TxHashes,
             BeginConfirm(d, u, i, h)
      PROVE  OverlayStep(c)
  BY <1>4 DEF BeginConfirm, Idle
<1>5. CASE Restart
  BY <1>5 DEF Restart
<1>6. ASSUME NEW d \in Calls, TxMatches(d)
      PROVE  OverlayStep(c)
  <2> DEFINE k == BeginRead("confirm", call[d].user, None, call[d].nowMs, FALSE, FALSE)
  <2>1. call' = [call EXCEPT ![d] = Idle] \/ call' = [call EXCEPT ![d] = k]
    BY <1>6 DEF TxMatches
  <2>2. ~k.pending
    BY DEF BeginRead, Idle
  <2> HIDE DEF k
  <2>3. call'[c] = call[c] \/ call'[c] = Idle \/ call'[c] = k
    BY <2>1
  <2>4. QED
    BY <2>2, <2>3
<1>7. ASSUME NEW d \in Calls, NEW u \in Users, NEW fresh \in BOOLEAN, GetPosition(d, u, fresh)
      PROVE  OverlayStep(c)
  <2> DEFINE pending == HasPendingIntent(intents, u, now)
             k == BeginRead("position", u, None, now, pending, ~fresh)
  <2>1. call' = [call EXCEPT ![d] = k] /\ intents' = intents
    BY <1>7 DEF GetPosition
  <2>2. k.pending = pending /\ k.user = u /\ k.nowMs = now
    BY DEF BeginRead, Idle
  <2>3. pending => BackedNext(u, now)
    BY <2>1, OverlayIsBacked
  <2> HIDE DEF k, pending
  <2>4. call'[c] = call[c] \/ call'[c] = k
    BY <2>1
  <2>5. QED
    BY <2>2, <2>3, <2>4
<1>8. ASSUME NEW d \in Calls, NEW u \in Users, NEW b \in Bodies, BeginCreate(d, u, b)
      PROVE  OverlayStep(c)
  <2> DEFINE pending == HasPendingIntent(intents', u, now)
             k == BeginRead("create", u, b, now, pending, FALSE)
  <2>1. call' = [call EXCEPT ![d] = k]
    BY <1>8 DEF BeginCreate
  <2>2. k.pending = pending /\ k.user = u /\ k.nowMs = now
    BY DEF BeginRead, Idle
  <2>3. pending => BackedNext(u, now)
    BY OverlayIsBacked
  <2> HIDE DEF k, pending
  <2>4. call'[c] = call[c] \/ call'[c] = k
    BY <2>1
  <2>5. QED
    BY <2>2, <2>3, <2>4
<1>9. QED
  BY <1>1, <1>2, <1>3, <1>4, <1>5, <1>6, <1>7, <1>8
     DEF Next, Request, Environment, Answer, vars, Calls, ConfirmExpired, CancelPending,
         GetOwnedIntent, StakerReadFails, FinishRead, TxUnknown, TxFetchFails, TxFailed,
         TxMismatch, MineTx, StakerChanges, Tick

(* What a step may do to one cache entry: leave it, drop it, or store the  *)
(* outcome of a read.                                                      *)
CacheStep(u) ==
  \/ cache'[u] = cache[u]
  \/ cache'[u] = None
  \/ \E c \in Calls :
       /\ call[c].pc = "block" /\ call[c].user = u
       /\ cache'[u] = [ state     |-> NormalizePositionState(call[c].staker, call[c].pending),
                        expiresAt |-> call[c].nowMs + CacheTTL ]

LEMMA CacheSteps ==
  ASSUME TypeInv, [Next]_vars, NEW u \in Users
  PROVE  CacheStep(u)
<1>1. ASSUME NEW c \in Calls, NEW blockKnown \in BOOLEAN, FinishRead(c, blockKnown)
      PROVE  CacheStep(u)
  BY <1>1 DEF FinishRead, CacheStep, TypeInv, TypeOK
<1>2. CASE UNCHANGED cache
  BY <1>2 DEF CacheStep
<1>3. CASE cache' = [v \in Users |-> None]
  BY <1>3 DEF CacheStep
<1>4. QED
  BY <1>1, <1>2, <1>3
     DEF Next, Request, Environment, Answer, vars, GetPosition, BeginCreate, BeginConfirm,
         ConfirmExpired, CancelPending, GetOwnedIntent, StakerRead, StakerReadFails,
         TxUnknown, TxFetchFails, TxFailed, TxMismatch, TxMatches, MineTx,
         StakerChanges, Tick, Restart

LEMMA OverlayInvStep ==
  ASSUME OrderInv, OverlayInv, [Next]_vars
  PROVE  OverlayInv'
<1> USE DEF OrderInv
<1>1. ReadsBacked'
  <2> SUFFICES ASSUME NEW c \in Calls, call'[c].pending
               PROVE  BackedNext(call'[c].user, call'[c].nowMs)
    BY DEF ReadsBacked, Backed, BackedNext, Owns
  <2>1. CASE /\ call'[c].pending = call[c].pending
             /\ call'[c].user = call[c].user
             /\ call'[c].nowMs = call[c].nowMs
    BY <2>1, BackedKept DEF OverlayInv, ReadsBacked
  <2>2. QED
    BY <2>1, OverlaySteps DEF OverlayStep
<1>2. PendingOverlayIsBacked'
  <2> SUFFICES ASSUME NEW u \in Users, cache'[u] # None, cache'[u].state = "Pending"
               PROVE  BackedNext(u, cache'[u].expiresAt - CacheTTL)
    BY DEF PendingOverlayIsBacked, BackedNext, Owns
  <2>1. CASE cache'[u] = cache[u]
    <3>1. Backed(u, cache[u].expiresAt - CacheTTL)
      BY <2>1 DEF OverlayInv, PendingOverlayIsBacked, Backed
    <3>2. QED
      BY <2>1, <3>1, BackedKept
  <2>2. ASSUME NEW c \in Calls, call[c].pc = "block", call[c].user = u,
               cache'[u] = [ state     |-> NormalizePositionState(call[c].staker, call[c].pending),
                             expiresAt |-> call[c].nowMs + CacheTTL ]
        PROVE  BackedNext(u, cache'[u].expiresAt - CacheTTL)
    <3>1. call[c].pending \in BOOLEAN /\ call[c].nowMs \in Nat /\ call[c].staker \in Stakers
      BY <2>2, IntentsAssumption DEF TypeInv, TypeOK, CallStates, CallShape
    <3>2. call[c].pending
      BY <2>2, <3>1, PendingNeedsOverlay
    <3>3. BackedNext(u, call[c].nowMs)
      BY <2>2, <3>2, BackedKept DEF OverlayInv, ReadsBacked
    <3>4. cache'[u].expiresAt - CacheTTL = call[c].nowMs
      BY <2>2, <3>1, IntentsAssumption
    <3>5. QED
      BY <3>3, <3>4
  <2>3. QED
    BY <2>1, <2>2, CacheSteps DEF CacheStep
<1>3. QED
  BY <1>1, <1>2 DEF OverlayInv

(* A cached Pending overlay comes from an intent of that very address that *)
(* was in time when the read that cached it began, however long the read   *)
(* took and whatever happened to the intent meanwhile.                     *)
THEOREM OverlaysAreBacked == Spec => []PendingOverlayIsBacked
<1>1. Init => OverlayInv
  BY DEF Init, Idle, OverlayInv, ReadsBacked, PendingOverlayIsBacked
<1>2. OrderInv /\ OverlayInv /\ [Next]_vars => OverlayInv'
  BY OverlayInvStep
<1>3. QED
  BY <1>1, <1>2, OrderInvariant, PTL DEF Spec, OverlayInv
=============================================================================
