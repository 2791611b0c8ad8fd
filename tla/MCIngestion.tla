----------------------------- MODULE MCIngestion -----------------------------
(***************************************************************************)
(* An instance of Ingestion for TLC: an issue before the scope and two in  *)
(* it, two bodies that open in either order, and an anchor that changes    *)
(* between the two.  An issue after the data year is in MCMaintenance.     *)
(***************************************************************************)
EXTENDS Ingestion, TLC

CONSTANTS w1, w2, r1, r2, r3, b1, b2, ox, goat

MCPet == [i \in Issues |-> IF i <= 1 THEN ox ELSE goat]

(* A corrected body opens late enough to change places with the next issue. *)
MCOpenTime == [i \in Issues |-> [b \in Bodies |-> IF b = b1 THEN 2 * i ELSE 2 * i + 3]]

(* A bound on the run: the rows that no worker keeps have one body. *)
OutsideUncorrected == \A i \in Published \ Scope : feed[i] = b1

Symmetry == Permutations(Workers) \cup Permutations(RunIds)
=============================================================================
