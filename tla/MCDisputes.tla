----------------------------- MODULE MCDisputes -----------------------------
(***************************************************************************)
(* Instances of Disputes for TLC.                                          *)
(***************************************************************************)
EXTENDS Disputes, TLC

CONSTANTS r1, r2, c1, c2, a1, e1, b1, b2, b3

Symm == Permutations(Call) \cup Permutations(Cycle) \cup Permutations(Peer)
=============================================================================
