----------------------------- MODULE RuleProofs -----------------------------
(***************************************************************************)
(* Proofs about the modules of rules, for every content of the tables and  *)
(* every input: the entry form of the client, the personal reads, the      *)
(* timeline, the canaries, the limits and counters, the directory's orders *)
(* and pages, and the payment floors with their state machine.             *)
(***************************************************************************)
EXTENDS PaymentFloors, StakeEntry, ActivityFeed, Canaries, ServerReads, DirectoryReads,
        FiniteSetTheorems, TLAPS

-----------------------------------------------------------------------------
(* What the entry form promises, for every position, balance and input.    *)

LEMMA PresetBounds ==
  ASSUME NEW pool \in Luna, NEW preset \in Presets
  PROVE  PresetOf(pool, preset) \in Luna /\ PresetOf(pool, preset) <= pool
  <1>1. CASE preset = "max-safe"
    BY <1>1 DEF PresetOf, Luna
  <1>2. CASE preset = "25"
    <2>1. pool \div 4 \in Nat /\ pool \div 4 <= pool
      BY DEF Luna
    <2> QED  BY <1>2, <2>1 DEF PresetOf, Luna
  <1>3. CASE preset = "50"
    <2>1. pool \div 2 \in Nat /\ pool \div 2 <= pool
      BY DEF Luna
    <2> QED  BY <1>3, <2>1 DEF PresetOf, Luna
  <1>4. CASE preset = "custom"
    BY <1>4 DEF PresetOf, Luna
  <1> QED  BY <1>1, <1>2, <1>3, <1>4 DEF Presets

LEMMA MaxSafeType ==
  ASSUME NEW available \in Luna \cup {None}
  PROVE  /\ MaxSafeStake(available) \in Luna
         /\ MaxSafeStake(available) > 0 => available \in Luna /\ MaxSafeStake(available) + FeeHeadroom = available
  BY DEF MaxSafeStake, FeeHeadroom, LunaPerNim, Luna

LEMMA PoolType ==
  ASSUME NEW f \in Forms
  PROVE  Pool(f) \in Luna
  BY DEF Pool, MaxRetire, MaxRemove, Forms, Stakers, Luna

LEMMA ValueType ==
  ASSUME NEW f \in Forms
  PROVE  Value(f) \in (Luna \ {0}) \cup {None}
  <1>1. MaxSafeStake(f.available) \in Luna
    BY MaxSafeType DEF Forms
  <1>2. PresetOf(MaxSafeStake(f.available), f.preset) \in Luna
    BY <1>1, PresetBounds DEF Forms
  <1>3. PresetOf(Pool(f), f.preset) \in Luna
    BY PoolType, PresetBounds DEF Forms
  <1>4. Preset(f) \in Luna
    BY <1>2, <1>3 DEF Preset, PresetStake
  <1> QED  BY <1>4 DEF Value, Forms, Luna

(* Whatever amount the form lets through to stake leaves one NIM of the    *)
(* balance behind, be it typed or a preset (amounts.ts:16-46, 67-75).      *)
THEOREM HeadroomStays ==
  ASSUME NEW f \in Forms, ContinueEnabled(f), f.mode = "stake"
  PROVE  /\ Value(f) \in Luna \ {0}
         /\ f.available \in Luna
         /\ Value(f) + FeeHeadroom <= f.available
  <1>1. AmountAllowed(f)
    BY DEF ContinueEnabled
  <1>2. Value(f) \in Luna \ {0}
    BY <1>1, ValueType DEF AmountAllowed
  <1>3. Value(f) <= MaxSafeStake(f.available)
    BY <1>1 DEF AmountAllowed, StakeAmountAllowed
  <1>4. /\ MaxSafeStake(f.available) \in Luna
        /\ MaxSafeStake(f.available) > 0 => /\ f.available \in Luna
                                            /\ MaxSafeStake(f.available) + FeeHeadroom = f.available
    BY MaxSafeType DEF Forms
  <1> HIDE DEF FeeHeadroom
  <1>5. FeeHeadroom \in Nat
    BY DEF FeeHeadroom, LunaPerNim
  <1> QED  BY <1>2, <1>3, <1>4, <1>5 DEF Luna

(* A preset that comes to anything is an amount the form accepts: no       *)
(* button offers what Continue would refuse (amounts.ts:39-51, 105-114).   *)
THEOREM PresetsAreAccepted ==
  ASSUME NEW f \in Forms, f.mode # "update", Preset(f) > 0
  PROVE  AmountAllowed(f)
  <1>1. Value(f) = Preset(f)
    BY DEF Value
  <1>2. CASE f.mode = "stake"
    <2>1. MaxSafeStake(f.available) \in Luna
      BY MaxSafeType DEF Forms
    <2>2. Preset(f) \in Luna /\ Preset(f) <= MaxSafeStake(f.available)
      BY <1>2, <2>1, PresetBounds DEF Preset, PresetStake, Forms
    <2>3. Preset(f) # None
      BY <2>2, NoneAssumption DEF Luna
    <2> QED  BY <1>1, <1>2, <2>2, <2>3 DEF AmountAllowed, StakeAmountAllowed, Luna
  <1>3. CASE f.mode # "stake"
    <2>1. Preset(f) \in Luna /\ Preset(f) <= Pool(f)
      BY <1>3, PoolType, PresetBounds DEF Preset, Forms
    <2>2. Preset(f) # None
      BY <2>1, NoneAssumption DEF Luna
    <2> QED  BY <1>1, <1>3, <2>1, <2>2 DEF AmountAllowed, PoolAmountAllowed, Luna
  <1> QED  BY <1>2, <1>3

(* The button and the handler agree: for a connected wallet Continue is    *)
(* never refused when it is enabled, and what is enabled is refused by no  *)
(* check of the handler that the button does not make                      *)
(* (StakeFlow.tsx:344-433 against 814-831).                                *)
THEOREM EnabledIsNotRefused ==
  ASSUME NEW f \in Forms, f.connected, ContinueEnabled(f)
  PROVE  ~Refused(f)
  BY DEF ContinueEnabled, Refused, StateAllows, Forms, Modes

-----------------------------------------------------------------------------
(* The request of the form.                                                *)

LEMMA RequestFields ==
  ASSUME NEW f \in Forms, ContinueEnabled(f)
  PROVE  /\ f.mode # "update" => Value(f) \in Luna \ {0} /\ Value(f) # None
         /\ f.mode # "update" /\ f.mode # "stake" => Value(f) <= Pool(f)
  <1>1. SUFFICES ASSUME f.mode # "update"
                 PROVE  /\ Value(f) \in Luna \ {0} /\ Value(f) # None
                        /\ f.mode # "stake" => Value(f) <= Pool(f)
    OBVIOUS
  <1>2. AmountAllowed(f)
    BY <1>1 DEF ContinueEnabled
  <1> QED  BY <1>2, ValueType DEF AmountAllowed, PoolAmountAllowed

(* Every request the form makes has the fields its operation needs: the    *)
(* server never answers it with a validation error of the body             *)
(* (StakeFlow.tsx:442-455 against stakingIntents.ts:258-401).              *)
THEOREM RequestsAreValid ==
  ASSUME NEW f \in Forms, f.validator \in Validators, ContinueEnabled(f)
  PROVE  ValidParams(Operation(f), RequestParams(f))
  <1>0. None # 0 /\ TRUE # None /\ f.validator # None
    <2>1. None # 0
      BY NoneAssumption
    <2>2. TRUE # None
      <3>1. TRUE \in BOOLEAN /\ None \notin BOOLEAN
        BY NoneAssumption
      <3> QED  BY <3>1, Zenon
    <2>3. f.validator # None
      BY NoneAssumption, Zenon
    <2> QED  BY <2>1, <2>2, <2>3
  <1>1. CASE f.mode = "update"
    BY <1>0, <1>1 DEF Operation, RequestParams, ValidParams, NoParams
  <1>2. CASE f.mode # "update"
    <2>1. Value(f) # 0 /\ Value(f) # None
      BY <1>2, RequestFields
    <2> HIDE DEF Value
    <2>2. CASE f.mode = "retire"
      BY <1>0, <2>1, <2>2 DEF Operation, RequestParams, ValidParams, NoParams
    <2>3. CASE f.mode = "remove"
      BY <1>0, <2>1, <2>3 DEF Operation, RequestParams, ValidParams, NoParams
    <2>4. CASE f.mode = "stake"
      BY <1>0, <2>1, <2>4 DEF Operation, StakeOperation, RequestParams, ValidParams, NoParams
    <2> QED  BY <1>2, <2>2, <2>3, <2>4 DEF Forms, Modes
  <1> QED  BY <1>1, <1>2

(* The form and the server agree on the position: a request made from the  *)
(* position the server still reads is admitted, unless stake is added to   *)
(* a position that is being retired, withdrawable or pending, where the    *)
(* button is enabled and the server refuses (StakeFlow.tsx:823-831,        *)
(* 1344-1353 against stakingIntents.ts:419-431).                           *)
THEOREM EnabledIsAdmitted ==
  ASSUME NEW f \in Forms, NEW s \in Stakers, NEW hasPendingTx \in BOOLEAN,
         OpenedOn(f, s, hasPendingTx), ContinueEnabled(f),
         f.mode = "stake" => f.state \in {"NotStaked", "Active", "Inactive"}
  PROVE  Admissible(Operation(f), RequestParams(f), s, hasPendingTx)
  <1> DEFINE st == NormalizePositionState(s, hasPendingTx)
  <1>0. f.state = st /\ f.staker = s
    BY DEF OpenedOn
  <1>1. StateAllows(f)
    BY DEF ContinueEnabled
  <1>m. f.mode \in Modes
    BY DEF Forms
  <1> HIDE DEF st
  <1>2. st \in StatesAllowing(Operation(f))
    <2>1. CASE f.mode = "update"
      BY <1>0, <1>1, <2>1 DEF StateAllows, StatesAllowing, Operation
    <2>2. CASE f.mode = "retire"
      BY <1>0, <1>1, <2>2 DEF StateAllows, StatesAllowing, Operation
    <2>3. CASE f.mode = "remove"
      BY <1>0, <1>1, <2>3 DEF StateAllows, StatesAllowing, Operation
    <2>4. CASE f.mode = "stake"
      <3>1. CASE st = "NotStaked"
        BY <1>0, <2>4, <3>1 DEF StatesAllowing, Operation, StakeOperation
      <3>2. CASE st \in {"Active", "Inactive"}
        <4>1. Operation(f) = "stake"
          <5>1. st # None
            BY <3>2, NoneAssumption DEF PositionStates
          <5> QED  BY <1>0, <2>4, <3>2, <5>1 DEF Operation, StakeOperation
        <4> QED  BY <3>2, <4>1 DEF StatesAllowing
      <3> QED  BY <1>0, <2>4, <3>1, <3>2
    <2> QED  BY <1>m, <2>1, <2>2, <2>3, <2>4 DEF Modes
  <1>3. AmountWithinPosition(Operation(f), RequestParams(f), s)
    <2>1. CASE f.mode = "retire"
      <3>1. /\ Value(f) <= s.active + s.inactive
            /\ RequestParams(f).retireStakeLuna = Value(f)
        BY <1>0, <2>1, RequestFields DEF Pool, MaxRetire, RequestParams, NoParams
      <3> QED  BY <2>1, <3>1 DEF AmountWithinPosition, Operation
    <2>2. CASE f.mode = "remove"
      <3>1. Value(f) <= s.retired /\ RequestParams(f).valueLuna = Value(f)
        BY <1>0, <2>2, RequestFields DEF Pool, MaxRemove, RequestParams, NoParams
      <3> QED  BY <2>2, <3>1 DEF AmountWithinPosition, Operation
    <2>3. CASE f.mode \in {"update", "stake"}
      BY <2>3 DEF AmountWithinPosition, Operation, StakeOperation
    <2> QED  BY <1>m, <2>1, <2>2, <2>3 DEF Modes
  <1>4. Operation(f) = "update-staker" /\ RequestParams(f).newDelegation # None
          => RequestParams(f).newDelegation # s.delegation
    <2>1. CASE f.mode = "update"
      <3>1. RequestParams(f).newDelegation = f.validator
        BY <2>1 DEF RequestParams, NoParams
      <3>2. ~SameAsCurrent(f)
        BY <2>1 DEF ContinueEnabled
      <3> QED  BY <1>0, <3>1, <3>2 DEF SameAsCurrent
    <2>2. CASE f.mode # "update"
      BY <1>m, <2>2 DEF Modes, Operation, StakeOperation
    <2> QED  BY <2>1, <2>2
  <1> QED  BY <1>2, <1>3, <1>4 DEF Admissible, st

(* The sheet the user confirms is the request that was stored: whatever    *)
(* the server answers to the form's request, the wallet is asked for the   *)
(* request's operation, amount and validator, and the phone, which reads   *)
(* the stored intent instead, asks for the same                            *)
(* (StakeFlow.tsx:1356-1408, 582-619; PhoneApproveIntent.tsx:82-125).      *)
THEOREM WalletsSendTheRequest ==
  ASSUME NEW f \in Forms, f.validator \in Validators, ContinueEnabled(f),
         NEW from \in PositionStates, NEW delegation \in Validators \cup {None}
  PROVE  LET op      == Operation(f)
             params  == RequestParams(f)
             summary == ServerSummary(op, params, from, delegation)
             sent    == DesktopSends(ReviewSheet(summary, f), f)
         IN  /\ sent = PhoneSends(op, params, summary)
             /\ sent.op = op
             /\ f.mode # "update" => sent.value = Value(f)
             /\ f.mode = "update" => sent.validator = f.validator
             /\ op = "new-staker" => sent.validator = f.validator
  <1> DEFINE op      == Operation(f)
             params  == RequestParams(f)
             summary == ServerSummary(op, params, from, delegation)
             review  == ReviewSheet(summary, f)
  <1> SUFFICES /\ DesktopSends(review, f) = PhoneSends(op, params, summary)
               /\ DesktopSends(review, f).op = op
               /\ f.mode # "update" => DesktopSends(review, f).value = Value(f)
               /\ f.mode = "update" => DesktopSends(review, f).validator = f.validator
               /\ op = "new-staker" => DesktopSends(review, f).validator = f.validator
    OBVIOUS
  <1>0. TRUE # None /\ f.validator # None
    <2>1. TRUE \in BOOLEAN /\ None \notin BOOLEAN /\ None \notin Validators
      BY NoneAssumption
    <2> QED  BY <2>1, Zenon
  <1>1. CASE f.mode = "update"
    <2>1. op = "update-staker"
      BY <1>1 DEF Operation
    <2>2. params.newDelegation = f.validator /\ params.reactivateAllStake = TRUE
      BY <1>1 DEF RequestParams, NoParams
    <2>3. summary.op = op /\ summary.validator = f.validator
      BY <1>0, <2>1, <2>2 DEF ServerSummary, ValidatorFromParams
    <2>4. review.op = op /\ review.validator = f.validator
      BY <1>0, <2>3 DEF ReviewSheet, FirstOf, ServerSummary
    <2> HIDE DEF op, params, summary, review
    <2>5. DesktopSends(review, f) = Sent("update-staker", None, f.validator, TRUE)
      BY <1>0, <2>1, <2>4 DEF DesktopSends, FirstOf
    <2>6. PhoneSends(op, params, summary) = Sent("update-staker", None, f.validator, TRUE)
      BY <1>0, <2>1, <2>2 DEF PhoneSends, FirstOf
    <2> QED  BY <1>1, <2>1, <2>5, <2>6 DEF Sent
  <1>2. CASE f.mode # "update"
    <2>1. Value(f) # None
      BY <1>2, RequestFields
    <2>2. op \in {"new-staker", "stake", "retire", "remove"}
      BY <1>2 DEF Operation, StakeOperation, Forms, Modes
    <2>3. params = IF op = "retire" THEN [NoParams EXCEPT !.retireStakeLuna = Value(f)]
                   ELSE IF op = "new-staker"
                   THEN [NoParams EXCEPT !.valueLuna = Value(f), !.delegation = f.validator]
                   ELSE [NoParams EXCEPT !.valueLuna = Value(f)]
      BY <1>2 DEF RequestParams, Operation, StakeOperation, Forms, Modes
    <2>4. summary.op = op /\ summary.amount = Value(f)
      BY <2>1, <2>3 DEF ServerSummary, AmountFromParams, FirstOf, NoParams
    <2>5. op = "new-staker" => summary.validator = f.validator /\ params.delegation = f.validator
      BY <1>0, <2>3 DEF ServerSummary, ValidatorFromParams, NoParams
    <2>6. review.op = op /\ review.amount = Value(f)
      BY <1>2, <2>1, <2>4 DEF ReviewSheet, FirstOf, ServerSummary
    <2>7. op = "new-staker" => review.validator = f.validator
      BY <1>0, <2>5 DEF ReviewSheet, FirstOf, ServerSummary
    <2>8. /\ op = "retire" => params.retireStakeLuna = Value(f)
          /\ op # "retire" => params.valueLuna = Value(f)
      BY <2>3 DEF NoParams
    <2> HIDE DEF op, params, summary, review
    <2>9. CASE op = "new-staker"
      <3>1. DesktopSends(review, f) = Sent(op, Value(f), f.validator, None)
        BY <1>0, <2>6, <2>7, <2>9 DEF DesktopSends, FirstOf
      <3>2. PhoneSends(op, params, summary) = Sent(op, Value(f), f.validator, None)
        BY <1>0, <2>1, <2>5, <2>8, <2>9 DEF PhoneSends, FirstOf
      <3> QED  BY <1>2, <3>1, <3>2 DEF Sent
    <2>10. CASE op \in {"stake", "retire", "remove"}
      <3>1. DesktopSends(review, f) = Sent(op, Value(f), None, None)
        BY <2>6, <2>10 DEF DesktopSends, FirstOf
      <3>2. PhoneSends(op, params, summary) = Sent(op, Value(f), None, None)
        BY <2>1, <2>8, <2>10 DEF PhoneSends, FirstOf
      <3> QED  BY <1>2, <2>10, <3>1, <3>2 DEF Sent
    <2> QED  BY <2>2, <2>9, <2>10
  <1> QED  BY <1>1, <1>2

-----------------------------------------------------------------------------
(* What the read models promise, for every content of the tables.          *)

-----------------------------------------------------------------------------
(* Continuity.                                                             *)

(* The streak of a wallet is never longer than the number of runs that     *)
(* paid it, nor that than the number of runs; a newest run without the     *)
(* wallet ends the streak (personalContinuity.ts:300-330).                 *)
THEOREM StreakBounds ==
  ASSUME NEW Runs, NEW runs \in Seq(Runs), runs # <<>>, NEW user
  PROVE  /\ ConsecutiveWindows(runs, user) <= WindowsObserved(runs, user)
         /\ WindowsObserved(runs, user) <= Len(runs)
         /\ user \notin runs[Len(runs)].recipients => ConsecutiveWindows(runs, user) = 0
  <1>1. DOMAIN runs = 1 .. Len(runs) /\ Len(runs) \in Nat /\ Len(runs) >= 1
    OBVIOUS
  <1>2. IsFiniteSet(DOMAIN runs) /\ Cardinality(DOMAIN runs) = Len(runs)
    <2>1. /\ IsFiniteSet(1 .. Len(runs))
          /\ Cardinality(1 .. Len(runs)) = IF 1 > Len(runs) THEN 0 ELSE Len(runs) - 1 + 1
      BY <1>1, FS_Interval
    <2> QED  BY <1>1, <2>1
  <1>3. Including(runs, user) \subseteq DOMAIN runs
    BY DEF Including
  <1>4. /\ IsFiniteSet(Including(runs, user))
        /\ Cardinality(Including(runs, user)) \in Nat
        /\ Cardinality(Including(runs, user)) <= Len(runs)
    BY <1>2, <1>3, FS_Subset, FS_CardinalityType
  <1>5. Trailing(runs, user) \subseteq Including(runs, user)
    BY <1>1 DEF Trailing
  <1>6. /\ IsFiniteSet(Trailing(runs, user))
        /\ Cardinality(Trailing(runs, user)) <= Cardinality(Including(runs, user))
    BY <1>4, <1>5, FS_Subset
  <1>7. ASSUME user \notin runs[Len(runs)].recipients
        PROVE  Cardinality(Trailing(runs, user)) = 0
    <2>1. Len(runs) \in DOMAIN runs /\ Len(runs) \notin Including(runs, user)
      BY <1>1, <1>7 DEF Including
    <2>2. Trailing(runs, user) = {}
      BY <1>1, <2>1 DEF Trailing
    <2> QED  BY <2>2, FS_EmptySet
  <1> QED  BY <1>4, <1>6, <1>7 DEF ConsecutiveWindows, WindowsObserved

GrowthAlone(data) ==
  data.growth # None =>
    /\ data.mode = "restake"
    /\ data.lastPaymentAt = None
    /\ data.consecutive = None
    /\ data.inKnownSet = None

Claims(reply, readable) ==
  /\ GrowthAlone(reply.data)
  /\ (reply.status = "unavailable") <=> ~readable
  /\ reply.source # "indexer" => reply.status # "stale"

LEMMA AnswerClaims ==
  ASSUME NEW source, NEW base \in {"ok", "partial", "unavailable"},
         NEW data, NEW depth, NEW db, NEW time, NEW readable \in BOOLEAN,
         GrowthAlone(data), (base = "unavailable") <=> ~readable
  PROVE  Claims(Envelope(source, base, data, depth, db, time), readable)
  <1> DEFINE reply == Envelope(source, base, data, depth, db, time)
  <1>1. /\ reply.data = data /\ reply.source = source
        /\ reply.status \in {base, "stale"}
        /\ base = "unavailable" => reply.status = base
        /\ source # "indexer" => reply.status = base
    BY DEF Envelope, ApplyIndexerStaleStatus, WatermarkStale
  <1> HIDE DEF reply
  <1>2. GrowthAlone(reply.data)
    BY <1>1
  <1>3. (reply.status = "unavailable") <=> ~readable
    <2>1. CASE readable
      BY <1>1, <2>1
    <2>2. CASE ~readable
      BY <1>1, <2>2
    <2> QED  BY <2>1, <2>2
  <1>4. reply.source # "indexer" => reply.status # "stale"
    BY <1>1
  <1>5. Claims(reply, readable)
    BY <1>2, <1>3, <1>4 DEF Claims
  <1> QED  BY <1>5 DEF reply

(* Growth is never told together with a payment or a streak; an answer is  *)
(* unavailable exactly when the staker could not be read; and one that     *)
(* does not come from the indexer never goes stale with it                 *)
(* (personalContinuity.ts:627-862).                                        *)
THEOREM ContinuityClaims ==
  ASSUME NEW user, NEW readable \in BOOLEAN, NEW staker, NEW growth, NEW db, NEW time
  PROVE  Claims(ReadPersonalContinuity(user, readable, staker, growth, db, time), readable)
  <1> DEFINE nothing == EmptyContinuity("not-staked", "NotStaked", None)
             state   == NormalizePositionState(staker, FALSE)
             context == ValidatorContext(db.directory, staker.delegation)
  <1>1. GrowthAlone(nothing)
    BY DEF GrowthAlone, EmptyContinuity
  <1>2. ASSUME ~readable
        PROVE  Claims(Envelope("rpc", "unavailable", nothing, None, db, time), readable)
    BY <1>1, <1>2, AnswerClaims
  <1>3. ASSUME readable
        PROVE  Claims(Envelope("rpc", "ok", nothing, None, db, time), readable)
    BY <1>1, <1>3, AnswerClaims
  <1>4. ASSUME readable
        PROVE  Claims(RestakeContinuity(user, state, staker.delegation, growth, db, time), readable)
    <2> DEFINE data   == [EmptyContinuity("restake", state, staker.delegation)
                            EXCEPT !.growth = growth]
               source == IF growth.latest = None THEN "rpc" ELSE "indexer"
               base   == IF growth.status = "observed" THEN "ok" ELSE "partial"
    <2>1. GrowthAlone(data)
      BY DEF GrowthAlone, EmptyContinuity
    <2>2. base \in {"ok", "partial", "unavailable"} /\ base # "unavailable"
      OBVIOUS
    <2>3. RestakeContinuity(user, state, staker.delegation, growth, db, time)
            = Envelope(source, base, data, growth.depth, db, time)
      BY DEF RestakeContinuity
    <2> HIDE DEF data, source, base, state
    <2> QED  BY <1>4, <2>1, <2>2, <2>3, AnswerClaims
  <1>5. ASSUME readable
        PROVE  Claims(PaymentContinuity(user, state, context, staker.delegation, db, time), readable)
    <2> DEFINE data   == PaymentData(user, state, context, staker.delegation, db, time)
               source == IF Determined(data) THEN "indexer" ELSE "rpc"
               base   == IF Determined(data) \/ data.mode = "direct-payout"
                         THEN "ok" ELSE "partial"
               depth  == IF context = None THEN None
                         ELSE RunsDepth(db.runs[context.address], time)
    <2>1. GrowthAlone(data)
      BY DEF GrowthAlone, PaymentData, EmptyContinuity
    <2>2. base \in {"ok", "partial", "unavailable"} /\ base # "unavailable"
      OBVIOUS
    <2>3. PaymentContinuity(user, state, context, staker.delegation, db, time)
            = Envelope(source, base, data, depth, db, time)
      BY DEF PaymentContinuity
    <2> HIDE DEF data, source, base, depth, state, context
    <2> QED  BY <1>5, <2>1, <2>2, <2>3, AnswerClaims
  <1> HIDE DEF nothing, state, context
  <1> QED  BY <1>2, <1>3, <1>4, <1>5 DEF ReadPersonalContinuity, nothing, state, context

-----------------------------------------------------------------------------
(* The timeline.                                                           *)

LEMMA NewestFacts ==
  ASSUME NEW items, IsFiniteSet(items), NEW n \in Nat, NEW shown \in NewestOf(items, n)
  PROVE  /\ shown \subseteq items /\ IsFiniteSet(shown)
         /\ Cardinality(shown) \in Nat /\ Cardinality(shown) <= n
         /\ shown = items \/ Cardinality(shown) = n
  <1>1. shown \subseteq items /\ IsFiniteSet(shown) /\ Cardinality(shown) \in Nat
    BY FS_Subset, FS_CardinalityType DEF NewestOf
  <1>2. Cardinality(items) \in Nat
    BY FS_CardinalityType
  <1>3. Cardinality(shown) = IF Cardinality(items) <= n THEN Cardinality(items) ELSE n
    BY DEF NewestOf
  <1>4. CASE Cardinality(items) <= n
    <2>1. Cardinality(shown) = Cardinality(items)
      BY <1>3, <1>4
    <2>2. shown = items
      BY <1>1, <2>1, FS_Subset
    <2> QED  BY <1>1, <1>2, <1>4, <2>1, <2>2
  <1>5. CASE ~(Cardinality(items) <= n)
    BY <1>1, <1>2, <1>3, <1>5
  <1> QED  BY <1>4, <1>5

(* An item a source leaves out is no newer than anything the merge shows:  *)
(* what the source did give would fill the list before it.                 *)
LEMMA LeftOutBySource ==
  ASSUME NEW source, IsFiniteSet(source), \A x \in source : x.at \in Int,
         NEW m \in Nat, NEW given \in NewestOf(source, m),
         NEW merged, IsFiniteSet(merged), given \subseteq merged,
         \A x \in merged : x.at \in Int,
         NEW n \in Nat, n <= m, NEW shown \in NewestOf(merged, n),
         NEW x \in source \ given, NEW y \in shown
  PROVE  x.at <= y.at
  <1>1. /\ given \subseteq source /\ IsFiniteSet(given)
        /\ Cardinality(given) = m
    BY NewestFacts
  <1>2. /\ shown \subseteq merged /\ IsFiniteSet(shown)
        /\ Cardinality(shown) \in Nat /\ Cardinality(shown) <= n
    BY NewestFacts
  <1>3. \A z \in given : x.at <= z.at
    BY DEF NewestOf
  <1>4. SUFFICES ASSUME y.at < x.at PROVE FALSE
    <2>1. y \in merged /\ x.at \in Int /\ y.at \in Int
      BY <1>2
    <2> QED  BY <2>1
  <1>5. \A z \in given : z \in shown
    <2>1. SUFFICES ASSUME NEW z \in given, z \notin shown PROVE FALSE
      OBVIOUS
    <2>2. z.at <= y.at
      BY <2>1 DEF NewestOf
    <2>3. x.at <= z.at
      BY <1>3
    <2>4. x.at \in Int /\ y.at \in Int /\ z.at \in Int
      BY <1>1, <1>2
    <2> QED  BY <1>4, <2>2, <2>3, <2>4
  <1>6. y \notin given
    <2>1. x.at \in Int /\ y.at \in Int
      BY <1>2
    <2> QED  BY <1>3, <1>4, <2>1
  <1>7. given \cup {y} \subseteq shown
    BY <1>5
  <1>8. IsFiniteSet(given \cup {y}) /\ Cardinality(given \cup {y}) = m + 1
    BY <1>1, <1>6, FS_AddElement
  <1>9. Cardinality(given \cup {y}) <= Cardinality(shown)
    BY <1>2, <1>7, FS_Subset
  <1> QED  BY <1>2, <1>8, <1>9

(* The timeline shows the newest of what the reads of its three sources    *)
(* returned, although each is cut before the merge: no payout, change or   *)
(* intent of theirs that is left out is newer than an item that is shown   *)
(* (activity.ts:425-442).  The changes are those that readObservedPosition-*)
(* Growth makes of the newest snapshots it reads, which are bounded.       *)
THEOREM TimelineShowsTheNewest ==
  ASSUME NEW payouts, NEW changes, NEW intents,
         IsFiniteSet(payouts), IsFiniteSet(changes), IsFiniteSet(intents),
         \A x \in payouts \cup changes \cup intents : x.at \in Int,
         NEW limit \in Nat,
         NEW timeline \in PersonalTimelines(payouts, changes, intents, limit)
  PROVE  timeline \in NewestOf(payouts \cup changes \cup intents, limit)
  <1> DEFINE m == PerSource(limit)
             all == payouts \cup changes \cup intents
  <1>1. m \in Nat /\ limit <= m
    BY DEF PerSource, DefaultActivityLimit
  <1>2. PICK a \in NewestOf(payouts, m), b \in NewestOf(changes, m), c \in NewestOf(intents, m) :
          timeline \in NewestOf(a \cup b \cup c, limit)
    <2> DEFINE cut == { NewestOf(a \cup b \cup c, limit) :
                          a \in NewestOf(payouts, m),
                          b \in NewestOf(changes, m),
                          c \in NewestOf(intents, m) }
    <2>1. \E S \in cut : timeline \in S
      BY DEF PersonalTimelines
    <2>2. \A S \in cut : \E a \in NewestOf(payouts, m), b \in NewestOf(changes, m),
                           c \in NewestOf(intents, m) :
            timeline \in S => timeline \in NewestOf(a \cup b \cup c, limit)
      BY SMTT(60)
    <2> HIDE DEF m, cut
    <2> QED  BY <2>1, <2>2, Zenon
  <1> DEFINE merged == a \cup b \cup c
  <1> HIDE DEF m
  <1>3. a \subseteq payouts /\ b \subseteq changes /\ c \subseteq intents
    BY DEF NewestOf
  <1>4. IsFiniteSet(all) /\ IsFiniteSet(merged) /\ merged \subseteq all
    <2>1. IsFiniteSet(all)
      BY FS_Union
    <2>2. merged \subseteq all
      BY <1>3
    <2> QED  BY <2>1, <2>2, FS_Subset
  <1>5. /\ Cardinality(all) \in Nat /\ Cardinality(merged) \in Nat
        /\ Cardinality(merged) <= Cardinality(all)
    BY <1>4, FS_Subset, FS_CardinalityType
  <1>6. timeline \subseteq merged /\ timeline \subseteq all
    BY <1>2, <1>4 DEF NewestOf
  <1>7. Cardinality(timeline) = IF Cardinality(all) <= limit THEN Cardinality(all) ELSE limit
    <2>1. CASE a = payouts /\ b = changes /\ c = intents
      BY <1>2, <2>1 DEF NewestOf
    <2>2. CASE ~(a = payouts /\ b = changes /\ c = intents)
      <3>1. \E s \in {a, b, c} : Cardinality(s) = m
        BY <1>1, <1>2, <2>2, NewestFacts
      <3>2. m <= Cardinality(merged)
        <4>1. PICK s \in {a, b, c} : Cardinality(s) = m
          BY <3>1
        <4>2. s \subseteq merged
          BY <4>1
        <4>3. Cardinality(s) <= Cardinality(merged)
          BY <1>4, <4>2, FS_Subset
        <4> QED  BY <4>1, <4>3
      <3>3. Cardinality(timeline) = IF Cardinality(merged) <= limit THEN Cardinality(merged)
                                                                     ELSE limit
        BY <1>2 DEF NewestOf
      <3> QED  BY <1>1, <1>5, <3>2, <3>3
    <2> QED  BY <2>1, <2>2
  <1>8. ASSUME NEW x \in all \ timeline, NEW y \in timeline
        PROVE  x.at <= y.at
    <2> HIDE DEF merged
    <2>0. a \subseteq merged /\ b \subseteq merged /\ c \subseteq merged
      BY DEF merged
    <2>z. \A z \in merged : z.at \in Int
      BY <1>4
    <2>t. timeline \in NewestOf(merged, limit)
      BY <1>2 DEF merged
    <2>1. CASE x \in merged
      BY <1>8, <2>1, <2>t DEF NewestOf
    <2>2. CASE x \in payouts \ a
      BY <1>1, <1>2, <1>4, <1>8, <2>0, <2>2, <2>z, <2>t, LeftOutBySource
    <2>3. CASE x \in changes \ b
      BY <1>1, <1>2, <1>4, <1>8, <2>0, <2>3, <2>z, <2>t, LeftOutBySource
    <2>4. CASE x \in intents \ c
      BY <1>1, <1>2, <1>4, <1>8, <2>0, <2>4, <2>z, <2>t, LeftOutBySource
    <2> QED  BY <1>8, <2>1, <2>2, <2>3, <2>4 DEF merged
  <1> QED  BY <1>6, <1>7, <1>8 DEF NewestOf

-----------------------------------------------------------------------------
(* The alerts.                                                             *)

(* Opening the inbox again derives the same events again: nothing changes, *)
(* and in between no alert that was read is unread once more               *)
(* (alerts.ts:108-146, 361-366).                                           *)
THEOREM DerivingAgainChangesNothing ==
  ASSUME NEW alerts, NEW events
  PROVE  /\ DeriveAlerts(DeriveAlerts(alerts, events), events) = DeriveAlerts(alerts, events)
         /\ \A key \in DOMAIN alerts :
              /\ key \in DOMAIN DeriveAlerts(alerts, events)
              /\ DeriveAlerts(alerts, events)[key].readAt = alerts[key].readAt
         /\ Unread(DeriveAlerts(alerts, events)) \cap DOMAIN alerts = Unread(alerts)
  <1> DEFINE once  == DeriveAlerts(alerts, events)
             twice == DeriveAlerts(once, events)
  <1>1. DOMAIN once = DOMAIN alerts \cup KeysOf(events)
    BY DEF DeriveAlerts
  <1>2. DOMAIN twice = DOMAIN once
    BY <1>1 DEF DeriveAlerts
  <1>3. \A key \in DOMAIN once :
          once[key] = [ body   |-> IF key \in KeysOf(events) THEN BodyOf(events, key)
                                                             ELSE alerts[key].body,
                        readAt |-> IF key \in DOMAIN alerts THEN alerts[key].readAt ELSE None ]
    BY <1>1 DEF DeriveAlerts
  <1>4. \A key \in DOMAIN once :
          twice[key] = [ body   |-> IF key \in KeysOf(events) THEN BodyOf(events, key)
                                                              ELSE once[key].body,
                         readAt |-> once[key].readAt ]
    BY <1>1 DEF DeriveAlerts
  <1>5. \A key \in DOMAIN once : twice[key] = once[key]
    BY <1>3, <1>4
  <1>6. twice = once
    BY <1>2, <1>5 DEF DeriveAlerts
  <1>7. ASSUME NEW key \in DOMAIN alerts
        PROVE  key \in DOMAIN once /\ once[key].readAt = alerts[key].readAt
    <2> HIDE DEF once
    <2>1. key \in DOMAIN once
      BY <1>1
    <2> QED  BY <1>3, <2>1
  <1>8. Unread(once) \cap DOMAIN alerts = Unread(alerts)
    <2> HIDE DEF once
    <2> QED  BY <1>7 DEF Unread
  <1> QED  BY <1>6, <1>7, <1>8

-----------------------------------------------------------------------------
(* Canaries.                                                               *)

LEMMA DisjointUnion ==
  ASSUME NEW S, IsFiniteSet(S), NEW T, IsFiniteSet(T), S \cap T = {}
  PROVE  IsFiniteSet(S \cup T) /\ Cardinality(S \cup T) = Cardinality(S) + Cardinality(T)
  <1>1. Cardinality(S) \in Nat /\ Cardinality(T) \in Nat
    BY FS_CardinalityType
  <1>2. Cardinality(S \cap T) = 0
    BY FS_EmptySet
  <1>3. /\ IsFiniteSet(S \cup T)
        /\ Cardinality(S \cup T) = Cardinality(S) + Cardinality(T) - Cardinality(S \cap T)
    BY FS_Union
  <1> QED  BY <1>1, <1>2, <1>3

(* Every probe has one of the three statuses, so the coverage adds up to   *)
(* the roster (probeRoster.ts:544-595).                                    *)
THEOREM CoverageAddsUp ==
  ASSUME NEW Probes, NEW probes \in Seq(Probes), NEW db, NEW rewards
  PROVE  LET s == CanaryCoverage(db, probes, rewards).statuses
         IN  s["observed"] + s["pending"] + s["unavailable"] = Len(probes)
  <1> DEFINE Of(s) == {i \in DOMAIN probes : CoverageStatus(db, probes[i], rewards) = s}
  <1>1. /\ DOMAIN probes = 1 .. Len(probes) /\ Len(probes) \in Nat
        /\ IsFiniteSet(1 .. Len(probes)) /\ Cardinality(1 .. Len(probes)) = Len(probes)
    <2>1. DOMAIN probes = 1 .. Len(probes) /\ Len(probes) \in Nat
      OBVIOUS
    <2>2. /\ IsFiniteSet(1 .. Len(probes))
          /\ Cardinality(1 .. Len(probes)) = IF 1 > Len(probes) THEN 0 ELSE Len(probes) - 1 + 1
      BY <2>1, FS_Interval
    <2> QED  BY <2>1, <2>2
  <1>2. \A s : IsFiniteSet(Of(s))
    BY <1>1, FS_Subset
  <1>3. \A s : Cardinality(Of(s)) \in Nat
    BY <1>2, FS_CardinalityType
  <1>4. Of("observed") \cap Of("pending") = {}
    OBVIOUS
  <1>5. (Of("observed") \cup Of("pending")) \cap Of("unavailable") = {}
    OBVIOUS
  <1>6. DOMAIN probes = (Of("observed") \cup Of("pending")) \cup Of("unavailable")
    BY DEF CoverageStatus
  <1> HIDE DEF Of
  <1>7. /\ IsFiniteSet(Of("observed") \cup Of("pending"))
        /\ Cardinality(Of("observed") \cup Of("pending"))
             = Cardinality(Of("observed")) + Cardinality(Of("pending"))
    BY <1>2, <1>4, DisjointUnion
  <1>8. Len(probes) = Cardinality(Of("observed")) + Cardinality(Of("pending"))
                        + Cardinality(Of("unavailable"))
    BY <1>1, <1>2, <1>5, <1>6, <1>7, DisjointUnion
  <1>9. \A s \in CoverageStatuses :
          CanaryCoverage(db, probes, rewards).statuses[s] = Cardinality(Of(s))
    BY DEF CanaryCoverage, Of
  <1> QED  BY <1>8, <1>9 DEF CoverageStatuses

(* A profile calls a probe active exactly when it counts evidence for it,  *)
(* and exactly when the coverage counts the probe as observed              *)
(* (probeRoster.ts:370-437, 487-495, 581-592).                             *)
THEOREM CanaryClaims ==
  ASSUME NEW db, IsFiniteSet(db.txs), IsFiniteSet(db.snapshots),
         NEW probe, probe # None, probe.type \in ProbePayoutTypes,
         NEW rewards, probe.validator \in DOMAIN rewards, NEW time
  PROVE  LET s == CanaryProbeSummary(db, probe, rewards[probe.validator], time)
         IN  /\ s.status = "active" <=> s.count > 0
             /\ s.status = "active" <=> CoverageStatus(db, probe, rewards) = "observed"
  <1> DEFINE reward == rewards[probe.validator]
             paid   == IF probe.type = "restake" THEN {} ELSE ProbePayments(db, probe, reward)
             seen   == IF probe.type = "direct" THEN {} ELSE ProbeSnapshots(db, probe)
             s      == CanaryProbeSummary(db, probe, reward, time)
  <1>1. paid \subseteq db.txs /\ seen \subseteq db.snapshots
    BY DEF ProbePayments, Payments, ProbeSnapshots
  <1>2. /\ IsFiniteSet(paid) /\ IsFiniteSet(seen)
        /\ Cardinality(paid) \in Nat /\ Cardinality(seen) \in Nat
    BY <1>1, FS_Subset, FS_CardinalityType
  <1>3. /\ Cardinality(paid) = 0 <=> paid = {}
        /\ Cardinality(seen) = 0 <=> seen = {}
    BY <1>2, FS_EmptySet
  <1>4. HasObservation(db, probe, reward) <=> paid # {} \/ seen # {}
    BY DEF HasObservation
  <1>5. s.count = Cardinality(paid) + Cardinality(seen)
    BY DEF CanaryProbeSummary, ProbeObservationHistory
  <1>6. s.status = "active" <=> HasObservation(db, probe, reward)
    BY DEF CanaryProbeSummary
  <1>7. CoverageStatus(db, probe, rewards) = "observed" <=> HasObservation(db, probe, reward)
    BY DEF CoverageStatus
  <1> HIDE DEF paid, seen
  <1>8. s.count > 0 <=> paid # {} \/ seen # {}
    BY <1>2, <1>3, <1>5
  <1> QED  BY <1>4, <1>6, <1>7, <1>8

(* One cycle writes at most one snapshot of an address, and none of an     *)
(* address that had one within the hour (probeSnapshots.ts:191-226).       *)
THEOREM OneSnapshotPerCycle ==
  ASSUME NEW Probes, NEW probes \in Seq(Probes), NEW throttled,
         NEW readings \in [DOMAIN probes -> Readings],
         NEW i \in DOMAIN probes, NEW j \in DOMAIN probes,
         SnapshotOutcome(probes, readings, throttled, i) = "written"
  PROVE  /\ probes[i].address \notin throttled
         /\ SnapshotOutcome(probes, readings, throttled, j) = "written"
              /\ probes[i].address = probes[j].address => i = j
  <1>1. DOMAIN probes \subseteq Int
    OBVIOUS
  <1>2. ASSUME NEW k \in DOMAIN probes,
               SnapshotOutcome(probes, readings, throttled, k) = "written"
        PROVE  /\ readings[k] = "staker" /\ probes[k].address \notin throttled
               /\ \A m \in DOMAIN probes : m < k /\ readings[m] = "staker"
                                             => probes[m].address # probes[k].address
    BY <1>2 DEF SnapshotOutcome, Readings
  <1>3. readings[i] = "staker" /\ probes[i].address \notin throttled
    BY <1>2
  <1>4. ASSUME SnapshotOutcome(probes, readings, throttled, j) = "written",
               probes[i].address = probes[j].address
        PROVE  i = j
    <2>1. readings[j] = "staker"
      BY <1>2, <1>4
    <2>2. ~(i < j) /\ ~(j < i)
      BY <1>2, <1>3, <1>4, <2>1
    <2> QED  BY <1>1, <2>2
  <1> QED  BY <1>3, <1>4

-----------------------------------------------------------------------------
(* The server's other reads.                                               *)

(* A bucket never counts more than the limit, and a client that is refused *)
(* and waits as long as it is told is let in by the bucket it met          *)
(* (rate-limit.ts:36-66).                                                  *)
THEOREM RetryAfterIsEnough ==
  ASSUME NEW max \in Nat \ {0}, NEW window \in Nat, NEW time \in Nat,
         NEW bucket \in [count : 1 .. max, resetAt : Nat] \cup {None}
  PROVE  /\ RateLimit(bucket, time, max, window) \in [count : 1 .. max, resetAt : Nat]
         /\ ~Admitted(bucket, time, max)
              => Admitted(bucket, time + 1000 * RetryAfterSeconds(bucket, time), max)
  <1>1. CASE ~WindowOpen(bucket, time)
    BY <1>1 DEF RateLimit, Admitted
  <1>2. CASE WindowOpen(bucket, time)
    <2>1. bucket \in [count : 1 .. max, resetAt : Nat] /\ time < bucket.resetAt
      BY <1>2 DEF WindowOpen
    <2>2. RateLimit(bucket, time, max, window) \in [count : 1 .. max, resetAt : Nat]
      BY <1>2, <2>1 DEF RateLimit, Admitted
    <2> DEFINE wait == bucket.resetAt - time
    <2>3. wait \in Nat /\ wait >= 1
      BY <2>1
    <2>4. \A n \in Nat : 1000 * ((n + 999) \div 1000) >= n
      OBVIOUS
    <2>5. \A n \in Nat : (n + 999) \div 1000 \in Int
      OBVIOUS
    <2>6. RetryAfterSeconds(bucket, time) \in Int /\ 1000 * RetryAfterSeconds(bucket, time) >= wait
      BY <2>3, <2>4, <2>5 DEF RetryAfterSeconds
    <2>7. time + 1000 * RetryAfterSeconds(bucket, time) >= bucket.resetAt
      BY <2>1, <2>6
    <2> QED  BY <2>1, <2>2, <2>6, <2>7 DEF Admitted, WindowOpen
  <1> QED  BY <1>1, <1>2

(* Where every counter was written, the wallets and the repeated sessions  *)
(* together are the connects (auth.ts:398-411).                            *)
THEOREM ConnectsAddUp ==
  ASSUME NEW users, IsFiniteSet(users), NEW address,
         NEW Keys, NEW metrics \in [Keys -> Nat],
         GetMetric(metrics, "auth_connects")
           = Cardinality(users) + GetMetric(metrics, "repeat_sessions")
  PROVE  LET after == CountSignIn(users, metrics, address)
         IN  /\ IsFiniteSet(after.users)
             /\ GetMetric(after.metrics, "auth_connects")
                  = Cardinality(after.users) + GetMetric(after.metrics, "repeat_sessions")
  <1> DEFINE connected == IncrementMetric(metrics, "auth_connects", 1)
             repeated  == IncrementMetric(connected, "repeat_sessions", 1)
  <1>1. \A k : GetMetric(metrics, k) \in Nat
    BY DEF GetMetric
  <1>2. /\ GetMetric(connected, "auth_connects") = GetMetric(metrics, "auth_connects") + 1
        /\ GetMetric(connected, "repeat_sessions") = GetMetric(metrics, "repeat_sessions")
    BY DEF IncrementMetric, GetMetric
  <1> HIDE DEF connected
  <1>3. /\ GetMetric(repeated, "auth_connects") = GetMetric(connected, "auth_connects")
        /\ GetMetric(repeated, "repeat_sessions") = GetMetric(connected, "repeat_sessions") + 1
    BY DEF IncrementMetric, GetMetric
  <1> HIDE DEF repeated
  <1>4. Cardinality(users) \in Nat
    BY FS_CardinalityType
  <1>5. CASE address \in users
    <2>1. users \cup {address} = users
      BY <1>5
    <2>2. CountSignIn(users, metrics, address) = [users |-> users, metrics |-> repeated]
      BY <1>5, <2>1 DEF CountSignIn, connected, repeated
    <2> QED  BY <1>1, <1>2, <1>3, <1>4, <2>2
  <1>6. CASE address \notin users
    <2>1. /\ IsFiniteSet(users \cup {address})
          /\ Cardinality(users \cup {address}) = Cardinality(users) + 1
      BY <1>6, FS_AddElement
    <2>2. CountSignIn(users, metrics, address)
            = [users |-> users \cup {address}, metrics |-> connected]
      BY <1>6 DEF CountSignIn, connected
    <2> QED  BY <1>1, <1>2, <1>4, <2>1, <2>2
  <1> QED  BY <1>5, <1>6

-----------------------------------------------------------------------------
(* What the directory promises of its lists and pages, for every content   *)
(* of the tables.                                                          *)

Rows == [ address    : Int,
          listed     : {0, 1},
          score      : Int \cup {None},
          dominance  : Int \cup {None},
          stake      : Int \cup {None},
          hours      : Int \cup {None},
          updatedAt  : Int \cup {None},
          payoutType : STRING ]

KeySet == Int \cup {None}

-----------------------------------------------------------------------------
(* The orders.                                                             *)

(* Two keys are the same or one is before the other, and None is last. *)
LEMMA KeyOrder ==
  ASSUME NEW a \in KeySet, NEW b \in KeySet
  PROVE  /\ a = b \/ KeyBefore(a, b) \/ KeyBefore(b, a)
         /\ ~(KeyBefore(a, b) /\ KeyBefore(b, a))
         /\ ~KeyBefore(a, a)
         /\ \A c \in KeySet : KeyBefore(a, b) /\ KeyBefore(b, c) => KeyBefore(a, c)
  BY NoneAssumption DEF KeySet, KeyBefore

(* Every sort compares the same number of keys for every row. *)
Width(sort) ==
  CASE sort \in {"score", "dominance", "stake"} -> 1
    [] sort \in {"direct-payout", "restake"}    -> 2
    [] sort = "new"                             -> 3
    [] OTHER                                    -> 6

LEMMA KeysAreOfOneWidth ==
  ASSUME NEW row \in Rows, NEW status, NEW sort \in ValidatorSorts
  PROVE  SortKeys(row, status, sort) \in [1 .. Width(sort) -> KeySet]
  <1>1. /\ Falling(row.score) \in KeySet /\ Falling(row.stake) \in KeySet
        /\ row.dominance \in KeySet
    BY NoneAssumption DEF Rows, KeySet, Falling
  <1>2. /\ Known(row.score) \in KeySet /\ Known(row.hours) \in KeySet
        /\ Unknown(row.hours) \in KeySet
        /\ 1 - row.listed \in KeySet
        /\ (IF row.updatedAt = None THEN 0 ELSE -row.updatedAt) \in KeySet
    BY DEF Rows, KeySet, Known, Unknown
  <1>3. /\ TypeRank(row.payoutType, "direct", "restake") \in KeySet
        /\ TypeRank(row.payoutType, "restake", "direct") \in KeySet
        /\ ObservationTransparencyRank(status) \in KeySet
    BY DEF KeySet, TypeRank, ObservationTransparencyRank
  <1>4. CASE sort \in {"score", "dominance", "stake"}
    BY <1>1, <1>4 DEF SortKeys, Width
  <1>5. CASE sort \in {"direct-payout", "restake"}
    BY <1>1, <1>3, <1>5 DEF SortKeys, Width
  <1>6. CASE sort = "new"
    BY <1>2, <1>6 DEF SortKeys, Width
  <1>7. CASE sort = "recommended"
    BY <1>1, <1>2, <1>3, <1>7 DEF SortKeys, Width
  <1> QED  BY <1>4, <1>5, <1>6, <1>7 DEF ValidatorSorts

(* Keys that differ differ first at one place, which decides.              *)
LEMMA KeysTotal ==
  ASSUME NEW n \in 1 .. 6, NEW k \in [1 .. n -> KeySet], NEW l \in [1 .. n -> KeySet]
  PROVE  k = l \/ KeysBefore(k, l) \/ KeysBefore(l, k)
  <1>1. SUFFICES ASSUME k # l PROVE KeysBefore(k, l) \/ KeysBefore(l, k)
    OBVIOUS
  <1>2. \E i \in 1 .. n : k[i] # l[i]
    BY <1>1
  <1>3. PICK i \in 1 .. n : k[i] # l[i] /\ \A j \in 1 .. n : j < i => k[j] = l[j]
    BY <1>2
  <1>4. KeyBefore(k[i], l[i]) \/ KeyBefore(l[i], k[i])
    BY <1>3, KeyOrder
  <1> QED  BY <1>3, <1>4 DEF KeysBefore

LEMMA KeysStrict ==
  ASSUME NEW n \in 1 .. 6, NEW k \in [1 .. n -> KeySet], NEW l \in [1 .. n -> KeySet]
  PROVE  ~(KeysBefore(k, l) /\ KeysBefore(l, k)) /\ ~KeysBefore(k, k)
  <1>1. ASSUME KeysBefore(k, l), KeysBefore(l, k) PROVE FALSE
    <2>1. PICK i \in 1 .. n : KeyBefore(k[i], l[i]) /\ \A j \in 1 .. n : j < i => k[j] = l[j]
      BY <1>1 DEF KeysBefore
    <2>2. PICK m \in 1 .. n : KeyBefore(l[m], k[m]) /\ \A j \in 1 .. n : j < m => l[j] = k[j]
      BY <1>1 DEF KeysBefore
    <2>3. k[i] \in KeySet /\ l[i] \in KeySet /\ k[m] \in KeySet /\ l[m] \in KeySet
      OBVIOUS
    <2>4. CASE i < m
      BY <2>1, <2>2, <2>3, <2>4, KeyOrder
    <2>5. CASE m < i
      BY <2>1, <2>2, <2>3, <2>5, KeyOrder
    <2>6. CASE i = m
      BY <2>1, <2>2, <2>3, <2>6, KeyOrder
    <2> QED  BY <2>4, <2>5, <2>6
  <1>2. ASSUME KeysBefore(k, k) PROVE FALSE
    <2>1. PICK i \in 1 .. n : KeyBefore(k[i], k[i])
      BY <1>2 DEF KeysBefore
    <2> QED  BY <2>1, KeyOrder
  <1> QED  BY <1>1, <1>2

LEMMA KeysTransitive ==
  ASSUME NEW n \in 1 .. 6, NEW k \in [1 .. n -> KeySet], NEW l \in [1 .. n -> KeySet],
         NEW m \in [1 .. n -> KeySet], KeysBefore(k, l), KeysBefore(l, m)
  PROVE  KeysBefore(k, m)
  <1>1. PICK i \in 1 .. n : KeyBefore(k[i], l[i]) /\ \A j \in 1 .. n : j < i => k[j] = l[j]
    BY DEF KeysBefore
  <1>2. PICK h \in 1 .. n : KeyBefore(l[h], m[h]) /\ \A j \in 1 .. n : j < h => l[j] = m[j]
    BY DEF KeysBefore
  <1>3. /\ k[i] \in KeySet /\ l[i] \in KeySet /\ m[i] \in KeySet
        /\ k[h] \in KeySet /\ l[h] \in KeySet /\ m[h] \in KeySet
    OBVIOUS
  <1>4. CASE i < h
    <2>1. KeyBefore(k[i], m[i]) /\ \A j \in 1 .. n : j < i => k[j] = m[j]
      BY <1>1, <1>2, <1>4
    <2> QED  BY <2>1 DEF KeysBefore
  <1>5. CASE h < i
    <2>1. KeyBefore(k[h], m[h]) /\ \A j \in 1 .. n : j < h => k[j] = m[j]
      BY <1>1, <1>2, <1>5
    <2> QED  BY <2>1 DEF KeysBefore
  <1>6. CASE i = h
    <2>1. KeyBefore(k[i], m[i])
      BY <1>1, <1>2, <1>3, <1>6, KeyOrder
    <2>2. \A j \in 1 .. n : j < i => k[j] = m[j]
      BY <1>1, <1>2, <1>6
    <2> QED  BY <2>1, <2>2 DEF KeysBefore
  <1> QED  BY <1>4, <1>5, <1>6

(* Every order the directory offers is a strict total order of the         *)
(* addresses, null values, ties and an unfinished grade included: two      *)
(* answers never show the same rows in different orders                    *)
(* (validatorSync.ts:551-669).                                             *)
THEOREM OrderIsStrict ==
  ASSUME NEW a \in Rows, NEW b \in Rows, NEW status, NEW sort \in ValidatorSorts
  PROVE  /\ a.address # b.address =>
              Precedes(a, b, status, sort) \/ Precedes(b, a, status, sort)
         /\ ~(Precedes(a, b, status, sort) /\ Precedes(b, a, status, sort))
         /\ ~Precedes(a, a, status, sort)
         /\ \A c \in Rows : Precedes(a, b, status, sort) /\ Precedes(b, c, status, sort)
                              => Precedes(a, c, status, sort)
  <1> DEFINE n      == Width(sort)
             keys(r) == SortKeys(r, status[r.address], sort)
  <1>1. n \in 1 .. 6
    BY DEF Width, ValidatorSorts
  <1>2. \A r \in Rows : keys(r) \in [1 .. n -> KeySet] /\ r.address \in Int
    BY KeysAreOfOneWidth DEF Rows
  <1>3. \A r, s \in Rows : Precedes(r, s, status, sort)
                             <=> \/ KeysBefore(keys(r), keys(s))
                                 \/ keys(r) = keys(s) /\ r.address < s.address
    BY DEF Precedes
  <1> HIDE DEF n, keys
  <1>4. keys(a) = keys(b) \/ KeysBefore(keys(a), keys(b)) \/ KeysBefore(keys(b), keys(a))
    BY <1>1, <1>2, KeysTotal
  <1>5. \A r, s \in Rows : ~(KeysBefore(keys(r), keys(s)) /\ KeysBefore(keys(s), keys(r)))
                             /\ ~KeysBefore(keys(r), keys(r))
    BY <1>1, <1>2, KeysStrict
  <1>6. a.address # b.address =>
          Precedes(a, b, status, sort) \/ Precedes(b, a, status, sort)
    BY <1>2, <1>3, <1>4
  <1>7. ~(Precedes(a, b, status, sort) /\ Precedes(b, a, status, sort))
    <2>1. CASE keys(a) = keys(b)
      BY <1>2, <1>3, <1>5, <2>1
    <2>2. CASE keys(a) # keys(b)
      BY <1>3, <1>5, <2>2
    <2> QED  BY <2>1, <2>2
  <1>8. ~Precedes(a, a, status, sort)
    BY <1>2, <1>3, <1>5
  <1>9. ASSUME NEW c \in Rows, Precedes(a, b, status, sort), Precedes(b, c, status, sort)
        PROVE  Precedes(a, c, status, sort)
    <2>1. CASE KeysBefore(keys(a), keys(b)) /\ KeysBefore(keys(b), keys(c))
      BY <1>1, <1>2, <1>3, <2>1, KeysTransitive
    <2>2. CASE keys(a) = keys(b) /\ keys(b) = keys(c) /\ a.address < b.address /\ b.address < c.address
      BY <1>2, <1>3, <2>2
    <2>3. CASE KeysBefore(keys(a), keys(b)) /\ keys(b) = keys(c)
      BY <1>3, <2>3
    <2>4. CASE keys(a) = keys(b) /\ KeysBefore(keys(b), keys(c))
      BY <1>3, <2>4
    <2> QED  BY <1>3, <1>9, <2>1, <2>2, <2>3, <2>4
  <1> QED  BY <1>6, <1>7, <1>8, <1>9

(* So every validator has a place of its own in the list: none is shown    *)
(* twice, none hides another (validatorSync.ts:752-785).                   *)
THEOREM PlacesAreDistinct ==
  ASSUME NEW rows \in SUBSET Rows, IsFiniteSet(rows),
         NEW a \in rows, NEW b \in rows, a.address # b.address,
         NEW status, NEW sort \in ValidatorSorts
  PROVE  /\ Place(a, rows, status, sort) # Place(b, rows, status, sort)
         /\ Place(a, rows, status, sort) \in 1 .. Cardinality(rows)
  <1> DEFINE before(r) == {s \in rows : Precedes(s, r, status, sort)}
  <1>1. \A r \in rows : /\ IsFiniteSet(before(r)) /\ Cardinality(before(r)) \in Nat
                        /\ before(r) \subseteq rows /\ r \notin before(r)
    <2> SUFFICES ASSUME NEW r \in rows
                 PROVE  /\ IsFiniteSet(before(r)) /\ Cardinality(before(r)) \in Nat
                        /\ before(r) \subseteq rows /\ r \notin before(r)
      OBVIOUS
    <2>1. r \in Rows /\ before(r) \subseteq rows
      OBVIOUS
    <2>2. r \notin before(r)
      BY <2>1, OrderIsStrict
    <2> QED  BY <2>1, <2>2, FS_Subset, FS_CardinalityType
  <1>2. ASSUME NEW r \in rows, NEW s \in rows, Precedes(r, s, status, sort)
        PROVE  Cardinality(before(r)) < Cardinality(before(s))
    <2>1. before(r) \subseteq before(s)
      <3> SUFFICES ASSUME NEW q \in before(r) PROVE q \in before(s)
        OBVIOUS
      <3>1. q \in Rows /\ r \in Rows /\ s \in Rows /\ q \in rows /\ Precedes(q, r, status, sort)
        OBVIOUS
      <3>2. Precedes(q, s, status, sort)
        BY <1>2, <3>1, OrderIsStrict
      <3> QED  BY <3>1, <3>2
    <2>2. r \in before(s) /\ r \notin before(r)
      BY <1>1, <1>2
    <2> HIDE DEF before
    <2>3. /\ Cardinality(before(r)) <= Cardinality(before(s))
          /\ Cardinality(before(r)) = Cardinality(before(s)) => before(r) = before(s)
      BY <1>1, <2>1, FS_Subset
    <2>4. Cardinality(before(r)) # Cardinality(before(s))
      BY <2>2, <2>3
    <2> QED  BY <1>1, <2>3, <2>4
  <1>3. a \in Rows /\ b \in Rows
    OBVIOUS
  <1>4. Precedes(a, b, status, sort) \/ Precedes(b, a, status, sort)
    BY <1>3, OrderIsStrict
  <1>5. Cardinality(before(a)) # Cardinality(before(b))
    <2>1. Cardinality(before(a)) < Cardinality(before(b)) \/ Cardinality(before(b)) < Cardinality(before(a))
      BY <1>2, <1>4
    <2> HIDE DEF before
    <2> QED  BY <1>1, <2>1
  <1>6. Cardinality(before(a)) < Cardinality(rows) /\ Cardinality(rows) \in Nat
    <2> HIDE DEF before
    <2>1. /\ Cardinality(before(a)) <= Cardinality(rows)
          /\ Cardinality(before(a)) = Cardinality(rows) => before(a) = rows
      BY <1>1, FS_Subset
    <2>2. before(a) # rows
      BY <1>1
    <2> QED  BY <1>1, <2>1, <2>2, FS_CardinalityType
  <1>7. \A r \in rows : Place(r, rows, status, sort) = 1 + Cardinality(before(r))
    BY DEF Place
  <1> HIDE DEF before
  <1> QED  BY <1>1, <1>5, <1>6, <1>7

-----------------------------------------------------------------------------
(* The pages and the buckets.                                              *)

(* The page a cursor leads to starts where the one that gave it ended, and *)
(* there is no cursor only when nothing is left: whoever follows the       *)
(* cursors over the same runs sees each run once                           *)
(* (observationsApi.ts:145-182, 293-296).                                  *)
THEOREM PagesMeet ==
  ASSUME NEW Runs, NEW runs \in Seq(Runs), NEW offset \in Nat, NEW limit \in Nat \ {0},
         NEW i \in DOMAIN runs, offset < i
  PROVE  LET next == NextCursor(runs, offset, limit)
         IN  /\ next = None => i \in PageOf(runs, offset, limit)
             /\ next # None => /\ next > offset
                               /\ i \in PageOf(runs, offset, limit) <=> ~(next < i)
  <1>1. Len(runs) \in Nat /\ DOMAIN runs = 1 .. Len(runs) /\ i \in 1 .. Len(runs)
    OBVIOUS
  <1>2. None # offset + limit
    BY NoneAssumption
  <1>3. CASE offset + limit < Len(runs)
    BY <1>1, <1>2, <1>3 DEF NextCursor, PageOf
  <1>4. CASE ~(offset + limit < Len(runs))
    BY <1>1, <1>2, <1>4 DEF NextCursor, PageOf
  <1> QED  BY <1>3, <1>4

(* Every share of the stake counts in one bucket of the summary            *)
(* (observationsApi.ts:414-423, 468-479).                                  *)
THEOREM BucketsPartition ==
  ASSUME NEW dominance \in Int, dominance > -10000
  PROVE  /\ \E b \in DominanceBuckets : InBucket(b, dominance)
         /\ \A b, c \in DominanceBuckets :
              InBucket(b, dominance) /\ InBucket(c, dominance) => b = c
  <1> USE NoneAssumption DEF DominanceBuckets, InBucket
  <1>1. CASE dominance <= 100
    BY <1>1
  <1>2. CASE dominance > 100 /\ dominance <= 500
    BY <1>2
  <1>3. CASE dominance > 500 /\ dominance <= 1000
    BY <1>3
  <1>4. CASE dominance > 1000
    BY <1>4
  <1> QED  BY <1>1, <1>2, <1>3, <1>4

-----------------------------------------------------------------------------
(* What the payment floors promise, for every registry and every ledger.   *)

-----------------------------------------------------------------------------
(* The numbers.                                                            *)

LEMMA DivideBy20 ==
  ASSUME NEW m \in Nat
  PROVE  m \div 20 \in Nat /\ m % 20 \in 0 .. 19 /\ m = 20 * (m \div 20) + (m % 20)
  OBVIOUS

(* The 5th percentile lies between the smallest and the largest payment,   *)
(* so the floor that is shown is never below any payment nor above all of  *)
(* them (paymentFloor.ts:86-94).                                           *)
THEOREM PercentileIsBetween ==
  ASSUME NEW sorted \in Seq(Nat), sorted # << >>,
         \A i, j \in DOMAIN sorted : i <= j => sorted[i] <= sorted[j]
  PROVE  /\ Percentile5(sorted) \in Nat
         /\ 20 * sorted[1] <= Percentile5(sorted)
         /\ Percentile5(sorted) <= 20 * sorted[Len(sorted)]
  <1> DEFINE n    == Len(sorted)
             i    == (n - 1) \div 20
             rest == (n - 1) % 20
             low  == sorted[1]
             high == sorted[n]
  <1>1. n \in Nat /\ n >= 1 /\ DOMAIN sorted = 1 .. n
    OBVIOUS
  <1>2. i \in Nat /\ rest \in 0 .. 19 /\ n - 1 = 20 * i + rest
    <2>1. n - 1 \in Nat
      BY <1>1
    <2> QED  BY <2>1, DivideBy20
  <1>3. i + 1 \in 1 .. n
    BY <1>1, <1>2
  <1>4. low \in Nat /\ high \in Nat /\ sorted[i + 1] \in Nat
    BY <1>1, <1>3
  <1>5. low <= sorted[i + 1] /\ sorted[i + 1] <= high
    BY <1>1, <1>3
  <1>6. CASE rest = 0
    <2>1. Percentile5(sorted) = 20 * sorted[i + 1]
      BY <1>6 DEF Percentile5
    <2> QED  BY <1>4, <1>5, <2>1
  <1>7. CASE rest # 0
    <2> DEFINE a == sorted[i + 1]
               b == sorted[i + 2]
    <2>1. i + 2 \in 1 .. n
      BY <1>1, <1>2, <1>7
    <2>2. b \in Nat /\ low <= b /\ b <= high
      BY <1>1, <2>1
    <2>3. Percentile5(sorted) = (20 - rest) * a + rest * b
      BY <1>7 DEF Percentile5
    <2>4. rest \in 1 .. 19 /\ a \in Nat /\ low <= a /\ a <= high
      BY <1>2, <1>4, <1>5, <1>7
    <2> HIDE DEF a, b, low, high, rest
    <2>5. /\ (20 - rest) * a + rest * b \in Nat
          /\ 20 * low <= (20 - rest) * a + rest * b
          /\ (20 - rest) * a + rest * b <= 20 * high
      BY <1>4, <2>2, <2>4, SMTT(60)
    <2> QED  BY <2>3, <2>5 DEF low, high
  <1> QED  BY <1>6, <1>7

(* The floor of a validator whose reward address is kept by another one is *)
(* the empty floor.                                                        *)
LEMMA FloorOfSharer ==
  ASSUME NEW rows, NEW txs, NEW at,
         \A r, s \in rows : r.address = s.address => r = s,
         NEW row \in rows, row.reward # None, Owner(rows, row.reward) # row.address
  PROVE  ComputePaymentFloors(rows, txs, at)[row.address] = EmptyFloor(at)
  <1>1. row \in Rewarded(rows)
    BY DEF Rewarded
  <1>2. (CHOOSE r \in Rewarded(rows) : r.address = row.address) = row
    BY <1>1 DEF Rewarded
  <1>3. FloorOf({}, at) = EmptyFloor(at)
    BY DEF FloorOf
  <1> QED  BY <1>1, <1>2, <1>3 DEF ComputePaymentFloors, Counted

(* Where two validators name one reward address, its payments count for at *)
(* most one of them: they never both show a floor that was seen            *)
(* (paymentFloor.ts:161-170, 207-213).                                     *)
THEOREM RewardCountsOnce ==
  ASSUME NEW rows, NEW txs, NEW at,
         \A r, s \in rows : r.address = s.address => r = s,
         NEW row \in rows, NEW other \in rows,
         row.reward # None, row.reward = other.reward, row # other
  PROVE  \/ ComputePaymentFloors(rows, txs, at)[row.address].samples = 0
         \/ ComputePaymentFloors(rows, txs, at)[other.address].samples = 0
  <1>1. EmptyFloor(at).samples = 0
    BY DEF EmptyFloor
  <1>2. Owner(rows, row.reward) # row.address \/ Owner(rows, row.reward) # other.address
    OBVIOUS
  <1> QED  BY <1>1, <1>2, FloorOfSharer

-----------------------------------------------------------------------------
(* The table and its copy.                                                 *)

FloorsInv ==
  /\ now \in Nat
  /\ \A v \in DOMAIN table : table[v].at \in Nat
  /\ MemoryIsTheTable
  /\ OneScan

LEMMA FloorIsOfItsScan ==
  ASSUME NEW payments, NEW at
  PROVE  FloorOf(payments, at).at = at
  <1>1. CASE payments = {}
    BY <1>1 DEF FloorOf, EmptyFloor
  <1>2. CASE payments # {}
    BY <1>2 DEF FloorOf
  <1> QED  BY <1>1, <1>2

LEMMA ScanIsOfOneTime ==
  ASSUME NEW rows, NEW txs, NEW at,
         NEW v \in DOMAIN ComputePaymentFloors(rows, txs, at)
  PROVE  ComputePaymentFloors(rows, txs, at)[v].at = at
  BY FloorIsOfItsScan DEF ComputePaymentFloors

LEMMA FloorsInit == Init => FloorsInv
  BY DEF Init, FloorsInv, MemoryIsTheTable, OneScan

LEMMA FloorsStep == FloorsInv /\ [Next]_vars => FloorsInv'
  <1> SUFFICES ASSUME FloorsInv, [Next]_vars PROVE FloorsInv'
    OBVIOUS
  <1> USE DEF FloorsInv
  <1>1. CASE WorldChanges
    BY <1>1 DEF WorldChanges, MemoryIsTheTable, OneScan
  <1>2. CASE Refresh
    <2>1. memory' # None => memory'.floors = table'
      BY <1>2 DEF Refresh, Copy
    <2>2. now' = now /\ table' = ComputePaymentFloors(registry, ledger, now)
      BY <1>2 DEF Refresh
    <2>3. \A v \in DOMAIN table' : table'[v].at = now
      BY <2>2, ScanIsOfOneTime
    <2> QED  BY <2>1, <2>2, <2>3 DEF MemoryIsTheTable, OneScan
  <1>3. CASE RefreshFails
    BY <1>3 DEF RefreshFails, vars, MemoryIsTheTable, OneScan
  <1>4. CASE Load
    <2>1. table' = table /\ now' = now /\ (memory' = memory \/ memory' = Copy(table))
      BY <1>4 DEF Load
    <2> QED  BY <2>1 DEF Copy, MemoryIsTheTable, OneScan
  <1>5. CASE Restart
    BY <1>5 DEF Restart, MemoryIsTheTable, OneScan
  <1>6. CASE Tick
    <2>1. now' \in Nat /\ now' > now /\ table' = table /\ memory' = memory
      BY <1>6 DEF Tick
    <2>2. MemoryIsTheTable'
      BY <2>1 DEF MemoryIsTheTable
    <2>3. ASSUME NEW v \in DOMAIN table
          PROVE  table[v].at <= now'
      <3>1. table[v].at <= now
        BY <2>3 DEF OneScan
      <3> QED  BY <2>1, <2>3, <3>1
    <2> QED  BY <2>1, <2>2, <2>3 DEF OneScan
  <1>7. CASE UNCHANGED vars
    BY <1>7 DEF vars, MemoryIsTheTable, OneScan
  <1> QED  BY <1>1, <1>2, <1>3, <1>4, <1>5, <1>6, <1>7 DEF Next

(* The copy never differs from the table, through restarts, refreshes that *)
(* fail and expiries, and the table is always one scan's                   *)
(* (paymentFloor.ts:268-402).                                              *)
THEOREM FloorsAreOneScan == Spec => [](MemoryIsTheTable /\ OneScan)
  <1>1. FloorsInv => MemoryIsTheTable /\ OneScan
    BY DEF FloorsInv
  <1> QED  BY <1>1, FloorsInit, FloorsStep, PTL DEF Spec

(* Every answer is what the table holds when it is given, be it from the   *)
(* copy or not (paymentFloor.ts:380-402).                                  *)
THEOREM FloorAnswersAreStored == Spec => AnswersAreStored
  <1>1. FloorsInv /\ [Next]_vars => [Load => answer' = table]_vars
    BY DEF FloorsInv, MemoryIsTheTable, Load
  <1> QED  BY <1>1, FloorsInit, FloorsStep, PTL DEF Spec, AnswersAreStored
=============================================================================
