----------------------------- MODULE MCGateway -----------------------------
(* Values for model checking Gateway: the processes, and the interchange-  *)
(* able sets TLC may permute.                                              *)
EXTENDS Gateway, TLC

CONSTANTS p1, p2, s1, s2, c1, c2

OneProcess == [x \in Pass \cup Session |-> p1]

TwoProcesses == [x \in Pass \cup Session |-> IF x \in {s2, c2} THEN p2 ELSE p1]

Symmetry ==
  Permutations(MaGiaodich \ Foreign) \cup Permutations(PolicyNumber)
    \cup Permutations(Request) \cup Permutations(Handler)
=============================================================================
