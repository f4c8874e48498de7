------------------------------ MODULE MCTokens ------------------------------
(* Values for model checking TokenClients. *)
EXTENDS TokenClients, TLC

Symmetry ==
  Permutations(Token) \cup Permutations(Family) \cup Permutations(Admin)
    \cup Permutations(Call)
=============================================================================
