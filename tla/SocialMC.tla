------------------------------- MODULE SocialMC -------------------------------
(* Two users, whose rows no other user touches, and four requests, which   *)
(* are interchangeable.                                                    *)
EXTENDS Social, TLC

Symmetry == Permutations(Requests)
=============================================================================
