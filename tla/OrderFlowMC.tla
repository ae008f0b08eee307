----------------------------- MODULE OrderFlowMC -----------------------------
(* Two clOrdIDs; they are interchangeable.                                 *)
EXTENDS OrderFlow, TLC
Symmetry == Permutations(Ids)
=============================================================================
