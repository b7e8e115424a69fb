--------------------------- MODULE MCGocashWallet ---------------------------
(***************************************************************************)
(* GocashWallet for TLC: the symmetry of the interchangeable rows, keys and*)
(* slots.                                                                  *)
(***************************************************************************)
EXTENDS GocashWallet, TLC

Symmetry == Permutations(Entries) \cup Permutations(Redemptions)
                \cup Permutations(Keys) \cup Permutations(Calls)
=============================================================================
