--------------------------- MODULE MCRewardClaims ---------------------------
(***************************************************************************)
(* RewardClaims for TLC: users, rows, people and requests are exchangeable.*)
(***************************************************************************)
EXTENDS RewardClaims, TLC

Symmetry ==
    Permutations(Users) \cup Permutations(Claims) \cup Permutations(Usages)
    \cup Permutations(Emails) \cup Permutations(Calls)
=============================================================================
