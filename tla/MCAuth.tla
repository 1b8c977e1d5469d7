------------------------------- MODULE MCAuth -------------------------------
(* A small instance of Auth for TLC.                                       *)
EXTENDS Auth, TLC

MCDeployments == {[closedBeta |-> TRUE, requireVerification |-> v] : v \in BOOLEAN}

Symmetry == Permutations(Requests) \cup Permutations(Challenges)
=============================================================================
