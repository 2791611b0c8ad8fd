----------------------------- MODULE MCWebClient -----------------------------
(* Instances of WebClient for TLC: tabs, users and session ids are alike.  *)
EXTENDS WebClient, TLC

CONSTANTS u1, u2, t1, t2, s1, s2

Symmetry == Permutations(Users) \cup Permutations(Tabs) \cup Permutations(SessionIds)
=============================================================================
