----------------------------- MODULE MCAiService -----------------------------
(* Instances of AiService for TLC: what has a name only is alike.          *)
EXTENDS AiService, TLC

CONSTANTS t1, t2, t3, k1, k2, r1, r2, q1

Symmetry == Permutations(Threads) \cup Permutations(Keys) \cup Permutations(RunIds)
=============================================================================
