---------------------------- MODULE MCObjectSetup ----------------------------
(***************************************************************************)
(* One critical line and one that is heavy at one threshold and not at the *)
(* other: each weighs half of the object, and 50 is the boundary.          *)
(***************************************************************************)
EXTENDS ObjectSetup, TLC

CONSTANTS i1, i2

EqualValues == [i \in Items |-> 1]

\* Bound: what overlapping creations, corrections without a row and participants
\* lead to is explored for each, not for all of them together.
Explored ==
  /\ Cardinality(Filed) > 1 => contractor = "none" /\ \A u \in UpdateId : updates[u] = "none"
  /\ unlogged # {} \/ torn => contractor = "none" \/ Filed = {}
  /\ Cardinality(unlogged) <= 1

Symmetry == Permutations(Workers)
=============================================================================
