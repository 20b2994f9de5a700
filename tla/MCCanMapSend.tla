----------------------------- MODULE MCCanMapSend -----------------------------
(* Small instance of CanMapSend: identifiers are interchangeable.          *)
EXTENDS CanMapSend, TLC

MCSymmetry == Permutations(Params) \cup Permutations(StdIds)
=============================================================================
