--------------------------- MODULE MCAttemptThrottle ---------------------------
(* Instances of AttemptThrottle for TLC.                                    *)
EXTENDS AttemptThrottle, TLC

Symmetry == Permutations(Attempt)
=============================================================================
