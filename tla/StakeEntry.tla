----------------------------- MODULE StakeEntry -----------------------------
(***************************************************************************)
(* The entry form of the stake dialog as rules: the amounts it offers      *)
(* (client/src/staking/amounts.ts), when its Continue button is enabled,   *)
(* when handleContinueToReview refuses, which request it makes, what the   *)
(* server puts on the review sheet for that request, and what the wallet   *)
(* is then asked to send, at the desk or on the phone.  PositionRules has  *)
(* the rules by which the server admits the same request.                  *)
(***************************************************************************)
EXTENDS PositionRules

LunaPerNim == 100000

Modes == {"stake", "update", "retire", "remove"}

Presets == {"25", "50", "max-safe", "custom"}

(* What the dialog is given and what was typed: `typed` is the amount      *)
(* parseNimInputToLuna reads from the field, None when it refuses it.      *)
Forms == [ mode      : Modes,
           validator : Validators \cup {None},
           connected : BOOLEAN,
           state     : PositionStates \cup {None},
           available : Luna \cup {None},
           staker    : Stakers,
           preset    : Presets,
           typed     : (Luna \ {0}) \cup {None},
           busy      : BOOLEAN ]

-----------------------------------------------------------------------------
(* Amounts.                                                                *)

(* One NIM stays behind for fees. *)
FeeHeadroom == 1 * LunaPerNim

MaxSafeStake(available) ==
  IF available = None \/ available <= FeeHeadroom THEN 0 ELSE available - FeeHeadroom

(* presetPoolLuna: a quarter, a half or all of a pool, rounded down. *)
PresetOf(pool, preset) ==
  CASE preset = "max-safe" -> pool
    [] preset = "25"       -> pool \div 4
    [] preset = "50"       -> pool \div 2
    [] preset = "custom"   -> 0

(* presetStakeLuna: the same of what may be staked. *)
PresetStake(available, preset) == PresetOf(MaxSafeStake(available), preset)

StakeAmountAllowed(value, available) == value >= 1 /\ value <= MaxSafeStake(available)

PoolAmountAllowed(value, pool) == value >= 1 /\ value <= pool

MaxRetire(s) == s.active + s.inactive

MaxRemove(s) == s.retired

-----------------------------------------------------------------------------
(* The form.                                                               *)

Pool(f) == CASE f.mode = "retire" -> MaxRetire(f.staker)
             [] f.mode = "remove" -> MaxRemove(f.staker)
             [] OTHER             -> 0

Preset(f) == IF f.mode = "stake" THEN PresetStake(f.available, f.preset)
                                 ELSE PresetOf(Pool(f), f.preset)

(* resolveValueLuna: the preset when it comes to something, else the field. *)
Value(f) == IF f.mode # "update" /\ Preset(f) > 0 THEN Preset(f) ELSE f.typed

AmountAllowed(f) ==
  /\ Value(f) # None
  /\ IF f.mode = "stake" THEN StakeAmountAllowed(Value(f), f.available)
                         ELSE PoolAmountAllowed(Value(f), Pool(f))

SameAsCurrent(f) == f.staker.delegation # None /\ f.staker.delegation = f.validator

OtherValidator(f) ==
  /\ f.mode = "stake" /\ f.connected
  /\ f.staker.delegation # None /\ f.staker.delegation # f.validator
  /\ f.state \notin {None, "NotStaked"}

StateAllows(f) ==
  CASE f.mode = "update" -> f.state \in {"Active", "Inactive"}
    [] f.mode = "retire" -> f.state \in {"Active", "Inactive", "Retiring"}
    [] f.mode = "remove" -> f.state = "Withdrawable"
    [] f.mode = "stake"  -> ~OtherValidator(f)

ContinueEnabled(f) ==
  /\ ~f.busy
  /\ StateAllows(f)
  /\ f.mode = "update" => ~SameAsCurrent(f)
  /\ f.mode # "update" => AmountAllowed(f)

(* The early returns of handleContinueToReview. *)
Refused(f) ==
  \/ f.busy \/ ~f.connected
  \/ f.mode = "update" /\ f.state \notin {"Active", "Inactive"}
  \/ f.mode = "update" /\ SameAsCurrent(f)
  \/ f.mode = "retire" /\ f.state \notin {"Active", "Inactive", "Retiring"}
  \/ f.mode = "remove" /\ f.state # "Withdrawable"
  \/ f.mode # "update" /\ ~AmountAllowed(f)

(* resolveStakeOperation: a wallet without a position gets a new staker. *)
StakeOperation(f) == IF f.state \in {None, "NotStaked"} THEN "new-staker" ELSE "stake"

Operation(f) == CASE f.mode = "update" -> "update-staker"
                  [] f.mode = "retire" -> "retire"
                  [] f.mode = "remove" -> "remove"
                  [] f.mode = "stake"  -> StakeOperation(f)

RequestParams(f) ==
  CASE f.mode = "update" -> [NoParams EXCEPT !.newDelegation = f.validator,
                                             !.reactivateAllStake = TRUE]
    [] f.mode = "retire" -> [NoParams EXCEPT !.retireStakeLuna = Value(f)]
    [] f.mode = "remove" -> [NoParams EXCEPT !.valueLuna = Value(f)]
    [] f.mode = "stake"  ->
         IF StakeOperation(f) = "stake"
         THEN [NoParams EXCEPT !.valueLuna = Value(f)]
         ELSE [NoParams EXCEPT !.valueLuna = Value(f), !.delegation = f.validator]

(* loadAvailableLunaForStake: a form opened on the position just read. *)
OpenedOn(f, s, hasPendingTx) ==
  /\ f.staker = s
  /\ f.state = NormalizePositionState(s, hasPendingTx)

-----------------------------------------------------------------------------
(* The review and the wallet.                                              *)

FirstOf(a, b) == IF a # None THEN a ELSE b

(* amountFromParams *)
AmountFromParams(p) ==
  FirstOf(p.valueLuna, FirstOf(p.retireStakeLuna, p.newActiveBalanceLuna))

(* validatorFromParamsAndPosition *)
ValidatorFromParams(op, p, positionDelegation) ==
  IF op = "new-staker" /\ p.delegation # None THEN p.delegation
  ELSE IF op = "update-staker" /\ p.newDelegation # None THEN p.newDelegation
  ELSE positionDelegation

(* toStateHint *)
ToState(op, p, from) ==
  CASE op = "set-active"    -> IF p.newActiveBalanceLuna = 0 THEN "Inactive" ELSE "Active"
    [] op = "update-staker" -> IF from = "Inactive" /\ p.reactivateAllStake = TRUE
                               THEN "Active" ELSE from
    [] op = "retire"        -> "Retiring"
    [] op = "remove"        -> "NotStaked"
    [] OTHER                -> "Active"

(* buildSummary, as normalizeIntentSummary renames it. *)
ServerSummary(op, p, from, positionDelegation) ==
  [ op |-> op, amount |-> AmountFromParams(p),
    validator |-> ValidatorFromParams(op, p, positionDelegation),
    stateFrom |-> from, stateTo |-> ToState(op, p, from) ]

(* enrichSummary: the form fills what the server left out. *)
ReviewSheet(summary, f) ==
  [ summary EXCEPT
      !.amount    = IF f.mode = "update" THEN @ ELSE FirstOf(@, Value(f)),
      !.validator = FirstOf(@, FirstOf(f.validator, f.staker.delegation)) ]

(* One call of the wallet: the operation and what it is given. *)
Sent(op, value, validator, reactivates) ==
  [op |-> op, value |-> value, validator |-> validator, reactivates |-> reactivates]

(* handleReviewConfirm, from the review sheet. *)
DesktopSends(review, f) ==
  CASE review.op = "new-staker" ->
         Sent("new-staker", review.amount, FirstOf(review.validator, f.validator), None)
    [] review.op = "update-staker" ->
         Sent("update-staker", None, FirstOf(review.validator, f.validator), TRUE)
    [] review.op \in {"stake", "retire", "remove"} ->
         Sent(review.op, review.amount, None, None)

(* runApprove of PhoneApproveIntent, from the intent as it was stored. *)
PhoneSends(op, p, summary) ==
  CASE op = "new-staker" ->
         Sent(op, FirstOf(p.valueLuna, summary.amount),
                  FirstOf(p.delegation, summary.validator), None)
    [] op = "update-staker" ->
         Sent(op, None, FirstOf(p.newDelegation, summary.validator),
                  FirstOf(p.reactivateAllStake, TRUE))
    [] op = "retire" -> Sent(op, FirstOf(p.retireStakeLuna, summary.amount), None, None)
    [] op \in {"stake", "remove"} -> Sent(op, FirstOf(p.valueLuna, summary.amount), None, None)
=============================================================================
