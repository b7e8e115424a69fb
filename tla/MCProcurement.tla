--------------------------- MODULE MCProcurement ----------------------------
(***************************************************************************)
(* Procurement for TLC: the symmetry of the request slots and of the quotes*)
(* that are all negotiable or all not.                                     *)
(***************************************************************************)
EXTENDS Procurement, TLC

Symmetry == Permutations(Calls)
=============================================================================
