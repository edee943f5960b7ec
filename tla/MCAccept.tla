------------------------------ MODULE MCAccept ------------------------------
(***************************************************************************)
(* Instances of Accept for TLC.                                            *)
(***************************************************************************)
EXTENDS Accept

CONSTANTS a1, a2
=============================================================================
