------------------------ MODULE MCBatchWithdrawals ------------------------
(***************************************************************************)
(* An instance of BatchWithdrawals for TLC: a rail that batches and whose  *)
(* batches may hold two rows with one key, and a manual rail.              *)
(***************************************************************************)
EXTENDS BatchWithdrawals, TLC

CONSTANTS p1, p2, alice, bob, bulk, card

MCOwner     == [p \in Item |-> IF p = p1 THEN alice ELSE bob]
MCFunds     == [a \in Account |-> IF a = alice THEN 2 ELSE 1]
MCThreshold == [a \in Account |-> IF a = alice THEN 1 ELSE 0]

\* Both rows on the rail that batches, with keys of their own or with one that
\* two clients chose; or both on the manual rail, one call for each.
OwnKeys == [p \in Item |-> p]
OneKey  == [p \in Item |-> p1]
Bulk    == [p \in Item |-> bulk]
Card    == [p \in Item |-> card]
MCRoute == {[via |-> Bulk, key |-> OwnKeys], [via |-> Bulk, key |-> OneKey],
            [via |-> Card, key |-> OwnKeys]}
=============================================================================
