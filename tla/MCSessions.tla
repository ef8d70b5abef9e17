------------------------------ MODULE MCSessions ------------------------------
(***************************************************************************)
(* Two overlapping requests, which are interchangeable, and three tokens.   *)
(***************************************************************************)
EXTENDS Sessions, TLC

Symmetry == Permutations(Request)
=============================================================================
