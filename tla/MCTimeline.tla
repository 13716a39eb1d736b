----------------------------- MODULE MCTimeline ------------------------------
(* Timeline with prompts that may be exchanged for one another.            *)
EXTENDS Timeline, TLC

Prompts == Permutations(Text)
=============================================================================
