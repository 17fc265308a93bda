------------------------- MODULE MCWithdrawalPayout -------------------------
(* Small instances of WithdrawalPayout for TLC. *)
EXTENDS WithdrawalPayout, TLC

CONSTANTS w1, w2, alice

OwnerMC  == [w \in W |-> alice]
AmountMC == [w \in W |-> 2]

\* Both withdrawals fit, so that they contend for the lane.
AmpleFunds == [a \in Account |-> 4]
=============================================================================
