------------------------- MODULE MCPaymentCapture --------------------------
(***************************************************************************)
(* PaymentCapture for TLC: the symmetry of the interchangeable rows and of *)
(* the interchangeable request slots.  Safety runs only.                   *)
(***************************************************************************)
EXTENDS PaymentCapture, TLC

Symmetry == Permutations(Payments) \cup Permutations(Calls)
=============================================================================
