---------------------------- MODULE MCTokenRetention ----------------------------
(* Instances of TokenRetention for TLC.                                     *)
EXTENDS TokenRetention
=============================================================================
