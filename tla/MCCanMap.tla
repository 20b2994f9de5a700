------------------------------- MODULE MCCanMap -------------------------------
(* Small instance of CanMap: parameters and identifiers are interchangeable.*)
EXTENDS CanMap, TLC

MCSymmetry == Permutations(Params) \cup Permutations(StdIds)
=============================================================================
