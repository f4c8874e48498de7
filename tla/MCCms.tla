------------------------------- MODULE MCCms -------------------------------
(* Values for model checking CmsSession. *)
EXTENDS CmsSession, TLC

Symmetry ==
  Permutations(Token) \cup Permutations(Family) \cup Permutations(Call)
    \cup Permutations(Page) \cup Permutations(Me) \cup Permutations(Tab)
=============================================================================
