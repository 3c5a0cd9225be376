------------------------- MODULE MCAuthorizationCodes -------------------------
(* Instances of AuthorizationCodes for TLC.                                 *)
EXTENDS AuthorizationCodes, TLC

\* Handlers and requests are interchangeable.
Symmetry == Permutations(Handler) \cup Permutations(Request)
=============================================================================
