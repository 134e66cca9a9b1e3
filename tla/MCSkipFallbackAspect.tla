------------------------ MODULE MCSkipFallbackAspect ------------------------
(***************************************************************************)
(* Instances of SkipFallbackAspect for model checking.                     *)
(***************************************************************************)
EXTENDS SkipFallbackAspect, TLC

Symmetry == Permutations(Execs)
=============================================================================
