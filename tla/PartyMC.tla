-------------------------------- MODULE PartyMC --------------------------------
(* Instances of Party for TLC. *)
EXTENDS Party

Symmetry == Permutations(Users) \cup Permutations(PartyIds)
=============================================================================
