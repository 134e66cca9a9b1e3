----------------------------- MODULE MCNetLink ------------------------------
(***************************************************************************)
(* Instances of NetLink for TLC.                                           *)
(***************************************************************************)
EXTENDS NetLink
=============================================================================
