--------------------------- MODULE MCTokenFamilies ---------------------------
(* Instances of TokenFamilies for TLC: ids are the first naturals, handlers *)
(* are model values.                                                        *)
EXTENDS TokenFamilies, TLC

\* Handlers are interchangeable: no definition tells one from another.
ProcSymmetry == Permutations(Proc)
=============================================================================
