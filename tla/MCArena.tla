------------------------------ MODULE MCArena -------------------------------
(* The model of Arena: the values written are interchangeable.             *)
EXTENDS Arena, TLC

Symmetry == Permutations(Values)
=============================================================================
