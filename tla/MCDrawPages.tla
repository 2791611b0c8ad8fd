----------------------------- MODULE MCDrawPages -----------------------------
(* Instances of DrawPages for TLC: issue 0 is before the scope.            *)
EXTENDS DrawPages

MCIssues == 0 .. 4
=============================================================================
