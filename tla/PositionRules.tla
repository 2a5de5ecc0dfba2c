--------------------------- MODULE PositionRules ---------------------------
(***************************************************************************)
(* The pure rules of the staking write path: how the balances of a staker  *)
(* are read as one of the six position states (server/src/stakingState.ts) *)
(* and which request bodies, position states and balances each staking     *)
(* operation asks for (server/src/stakingIntents.ts).                      *)
(*                                                                         *)
(* Amounts are Luna.  An optional field that is absent is None.            *)
(***************************************************************************)
EXTENDS Integers

CONSTANTS Validators,   \* validator addresses
          None          \* an absent field, row, hash or entry

PositionStates ==
  {"NotStaked", "Pending", "Active", "Inactive", "Retiring", "Withdrawable"}

ASSUME NoneAssumption ==
         /\ None \notin Int /\ None \notin Validators /\ None \notin BOOLEAN
         /\ None \notin PositionStates

Operations ==
  {"new-staker", "stake", "set-active", "update-staker", "retire", "remove"}

Luna == Nat

Params == [ valueLuna            : Luna \cup {None},
            retireStakeLuna      : Luna \cup {None},
            newActiveBalanceLuna : Luna \cup {None},
            delegation           : Validators \cup {None},
            newDelegation        : Validators \cup {None},
            reactivateAllStake   : BOOLEAN \cup {None} ]

NoParams == [ valueLuna            |-> None,
              retireStakeLuna      |-> None,
              newActiveBalanceLuna |-> None,
              delegation           |-> None,
              newDelegation        |-> None,
              reactivateAllStake   |-> None ]

Requests == [op : Operations, params : Params]

(* What getStakerByAddress tells: the three balances and the delegation.   *)
(* An address without a staker reads as the empty one.                     *)
Stakers == [ active     : Luna,
             inactive   : Luna,
             retired    : Luna,
             delegation : Validators \cup {None} ]

NoStaker == [active |-> 0, inactive |-> 0, retired |-> 0, delegation |-> None]

-----------------------------------------------------------------------------
(* normalizePositionState: the Pending overlay wins over the chain; any    *)
(* retired balance wins over the others, and stake that is all retired is  *)
(* Withdrawable.                                                           *)
NormalizePositionState(s, hasPendingTx) ==
  CASE hasPendingTx                                        -> "Pending"
    [] ~hasPendingTx /\ s.active + s.inactive + s.retired = 0 -> "NotStaked"
    [] ~hasPendingTx /\ s.retired > 0
         /\ s.active + s.inactive = 0                      -> "Withdrawable"
    [] ~hasPendingTx /\ s.retired > 0
         /\ s.active + s.inactive > 0                      -> "Retiring"
    [] ~hasPendingTx /\ s.retired = 0
         /\ s.active = 0 /\ s.inactive > 0                 -> "Inactive"
    [] ~hasPendingTx /\ s.retired = 0 /\ s.active > 0      -> "Active"

(* parseAndValidateParams: every amount that is present is positive (a new *)
(* active balance may be zero) and the operation has the fields it needs.  *)
ValidParams(op, p) ==
  /\ p.valueLuna # 0
  /\ p.retireStakeLuna # 0
  /\ op \in {"new-staker", "stake", "remove"} => p.valueLuna # None
  /\ op = "new-staker"    => p.delegation # None
  /\ op = "set-active"    => p.newActiveBalanceLuna # None
  /\ op = "update-staker" => p.newDelegation # None \/ p.reactivateAllStake # None
  /\ op = "retire"        => p.retireStakeLuna # None

(* assertStatePreconditions: the position states an operation may start    *)
(* from.  Pending is in none of them.                                      *)
StatesAllowing(op) ==
  CASE op = "new-staker" -> {"NotStaked"}
    [] op \in {"stake", "set-active", "update-staker"} -> {"Active", "Inactive"}
    [] op = "retire"     -> {"Active", "Inactive", "Retiring"}
    [] op = "remove"     -> {"Withdrawable"}

(* assertAmountAgainstPosition: the soft check of the amount to retire or  *)
(* to remove against the balances just read.                               *)
AmountWithinPosition(op, p, s) ==
  /\ op = "retire" => p.retireStakeLuna <= s.active + s.inactive
  /\ op = "remove" => p.valueLuna <= s.retired

(* The checks of createStakingIntent between the position read and the     *)
(* INSERT, the one on the new delegation included.                         *)
Admissible(op, p, s, hasPendingTx) ==
  /\ NormalizePositionState(s, hasPendingTx) \in StatesAllowing(op)
  /\ AmountWithinPosition(op, p, s)
  /\ op = "update-staker" /\ p.newDelegation # None => p.newDelegation # s.delegation

(* matchAmount: the recorded amount binds the transaction only when        *)
(* valueLuna or, without it, retireStakeLuna was recorded.                 *)
MatchAmount(p, value) ==
  /\ p.valueLuna # None => p.valueLuna = value
  /\ p.valueLuna = None /\ p.retireStakeLuna # None => p.retireStakeLuna = value
=============================================================================
