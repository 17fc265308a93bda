------------------------ MODULE MCAllocationEscrow -------------------------
(***************************************************************************)
(* Instances of AllocationEscrow for TLC.                                  *)
(***************************************************************************)
EXTENDS AllocationEscrow, TLC

CONSTANTS t1, t2, alice, bob, carol, s1, s2, p1, p2

\* The delegator can fund one hold, and another once some of it came back.
MCFunds == [a \in Account |-> IF a = alice THEN 7 ELSE 0]
MCPayer == [t \in Task |-> alice]

\* One worker, whose own key signs; or a receipt another agent signs.
WorkerSigns  == [t \in Task |-> bob]
AnotherSigns == [t \in Task |-> carol]

DirectAndSub == [t \in Task |-> IF t = t1 THEN "direct" ELSE "sub"]
AllFederated == [t \in Task |-> "federated"]

Processes == Permutations(Step) \cup Permutations(Pass)
=============================================================================
