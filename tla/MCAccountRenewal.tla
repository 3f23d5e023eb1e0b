-------------------------- MODULE MCAccountRenewal -------------------------
(* Instances of AccountRenewal for TLC. *)
EXTENDS AccountRenewal, TLC

CONSTANTS a1, a2, s1, s2

Processes == Permutations({s1, s2})
Accounts == Permutations({a1, a2})
=============================================================================
