------------------------------ MODULE MCSampler ------------------------------
(* Symmetry for the safety runs of Sampler: ids, settings and names are     *)
(* interchangeable.                                                         *)
EXTENDS Sampler, TLC

Symmetry == Permutations(Ids) \cup Permutations(Conns) \cup Permutations(Metas)
=============================================================================
