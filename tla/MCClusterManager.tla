-------------------------- MODULE MCClusterManager --------------------------
(* Instances of ClusterManager for TLC: which constants are interchangeable *)
(* (ids, settings, clients and callers all are: no action singles one out). *)
EXTENDS ClusterManager, TLC

Symmetry == Permutations(Clients) \cup Permutations(Callers)
              \cup Permutations(Ids) \cup Permutations(Conns)
=============================================================================
