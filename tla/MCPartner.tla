----------------------------- MODULE MCPartner -----------------------------
(* Values for model checking PartnerGuard. *)
EXTENDS PartnerGuard, TLC

\* Two rotations and one copy, or one rotation and two copies.
SomeOfThem ==
  {a \cup d : a \in SUBSET Rotation, d \in SUBSET Delivery} \cap
    {c \in SUBSET (Rotation \cup Delivery) : Cardinality(c) = 3}

Symmetry ==
  Permutations(Key) \cup Permutations(Rotation) \cup Permutations(Delivery)
=============================================================================
