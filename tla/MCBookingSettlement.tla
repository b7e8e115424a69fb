------------------------ MODULE MCBookingSettlement ------------------------
(***************************************************************************)
(* BookingSettlement for TLC: the symmetry of the interchangeable rows and *)
(* slots.  Safety runs only.                                               *)
(***************************************************************************)
EXTENDS BookingSettlement, TLC

Symmetry == Permutations(Settlements) \cup Permutations(Payouts)
                \cup Permutations(Calls)
=============================================================================
