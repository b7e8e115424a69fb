------------------------ MODULE MCDisputeResolution ------------------------
(***************************************************************************)
(* DisputeResolution for TLC: the symmetry of the interchangeable disputes *)
(* and slots.  Safety runs only.                                           *)
(***************************************************************************)
EXTENDS DisputeResolution, TLC

Symmetry == Permutations(Disputes) \cup Permutations(Calls)
=============================================================================
