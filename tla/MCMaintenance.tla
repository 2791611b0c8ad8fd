---------------------------- MODULE MCMaintenance ----------------------------
(***************************************************************************)
(* Instances of Maintenance for TLC: an issue before the scope and one     *)
(* after the data year, and an anchor that changes between two issues.     *)
(***************************************************************************)
EXTENDS Maintenance

CONSTANTS w1, w2, r1, r2, r3, b1, b2, ox, goat

MCPet == [i \in Issues |-> IF i <= 1 THEN ox ELSE goat]
MCOpenTime == [i \in Issues |-> [b \in Bodies |-> i]]
=============================================================================
