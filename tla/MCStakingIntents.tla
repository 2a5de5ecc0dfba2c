-------------------------- MODULE MCStakingIntents --------------------------
(* A small instance of StakingIntents for TLC. *)
EXTENDS StakingIntents, TLC

CONSTANTS u1, u2, v1, v2

NewStaker == [op |-> "new-staker",
              params |-> [NoParams EXCEPT !.valueLuna = 1, !.delegation = v1]]
Redelegate == [op |-> "update-staker", params |-> [NoParams EXCEPT !.newDelegation = v2]]

ActiveAt(v) == [active |-> 1, inactive |-> 0, retired |-> 0, delegation |-> v]

OneBody    == {NewStaker}
TwoBodies  == {NewStaker, Redelegate}
NoStakers  == {NoStaker}
TwoStakers == {NoStaker, ActiveAt(v1)}

Tx(u, op, value, ok) == [from |-> u, op |-> op, value |-> value, executionResult |-> ok]

(* A transaction that matches NewStaker and one that failed; with two      *)
(* wallets also one of another amount, and the failed one is the other's.  *)
OneUserTxs == { Tx(u1, "new-staker", 1, TRUE), Tx(u1, "new-staker", 1, FALSE) }
TwoUserTxs == { Tx(u1, "new-staker", 1, TRUE), Tx(u1, "new-staker", 2, TRUE),
                Tx(u2, "new-staker", 1, FALSE) }

Symmetric == Permutations(IntentIds) \cup Permutations(CreateCalls) \cup Permutations(ConfirmCalls) \cup Permutations(GetCalls) \cup Permutations(TxHashes)
=============================================================================
