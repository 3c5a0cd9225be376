------------------------------ MODULE MCMaintenance ------------------------------
(* Instances of Maintenance for TLC: a primary and an additional source.    *)
EXTENDS Maintenance

CONSTANTS s1, s2

MCSources == <<s1, s2>>
=============================================================================
