---------------------------- MODULE MCWebSessions ----------------------------
(* Instances of WebSessions for TLC: threads and session ids are alike.    *)
EXTENDS WebSessions, TLC

CONSTANTS u1, t1, t2, t3, s1, s2, s3

Symmetry == Permutations(Threads) \cup Permutations(SessionIds)
=============================================================================
