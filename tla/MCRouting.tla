------------------------------ MODULE MCRouting ------------------------------
(***************************************************************************)
(* A small instance of Routing: three services, two of one name, which     *)
(* share two ids.                                                          *)
(***************************************************************************)
EXTENDS Routing, TLC

CONSTANTS twin1, twin2, other, here, there

SharedName == [a \in Agents |-> IF a = other THEN there ELSE here]

Symmetry == Permutations({twin1, twin2}) \cup Permutations(Packages)
=============================================================================
