----------------------------- MODULE AuthTokensMC -----------------------------
(* Symmetry for the runs of AuthTokens: all are about safety. *)
EXTENDS AuthTokens, TLC

Symmetry ==
  Permutations(Requests) \cup Permutations(Tokens) \cup Permutations(Passwords)
    \cup Permutations(Links)
=============================================================================
