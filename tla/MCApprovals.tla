---------------------------- MODULE MCApprovals -----------------------------
(* Approvals with two decisions that race: every instance of them that     *)
(* differs by their names only is one.                                     *)
EXTENDS Approvals, TLC

CONSTANTS d1, d2

DeciderSymmetry == Permutations(Decider)
=============================================================================
