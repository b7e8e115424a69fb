-------------------------- MODULE MCOrderLifecycle --------------------------
(***************************************************************************)
(* OrderLifecycle for TLC: locations, returns and request slots are        *)
(* interchangeable.                                                        *)
(***************************************************************************)
EXTENDS OrderLifecycle, TLC

Symmetry ==
    Permutations(Locations) \cup Permutations(Returns) \cup Permutations(Calls)
=============================================================================
