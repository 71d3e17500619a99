----------------------------- MODULE MCJobGraph -----------------------------
(***************************************************************************)
(* Three slots and two workers are enough for a job with two predecessors, *)
(* a job with two dependents, and a slot recycled while a worker is still  *)
(* in run().  Slots and workers are interchangeable.                       *)
(***************************************************************************)
EXTENDS JobGraph, TLC

Symmetry == Permutations(Slots) \cup Permutations(Workers)
=============================================================================
