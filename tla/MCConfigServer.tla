--------------------------- MODULE MCConfigServer ---------------------------
(* Instances of ConfigServer for TLC: one cluster, the goroutines that the  *)
(* manager's callers are, and the configurations that may be written.       *)
EXTENDS ConfigServer, TLC

CONSTANTS i1, s1, s2

With(conn, readOnly) == [conns |-> [i \in {i1} |-> conn], readOnly |-> readOnly]

(* Two brokers for the one cluster, and the first one read-only.            *)
TwoBrokers == {With(s1, {}), With(s2, {}), With(s1, {i1})}
(* The same cluster, or none (disabled).                                    *)
OnOff == {With(s1, {}), With(NoConn, {}), With(s1, {i1})}

Symmetry == Permutations(Clients) \cup Permutations(Writers) \cup Permutations(Handlers)
=============================================================================
