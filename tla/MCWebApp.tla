------------------------------ MODULE MCWebApp ------------------------------
(* WebApp with two clusters, of which the first or both may be disabled or   *)
(* enabled, and names one of which contains the other.                       *)
EXTENDS WebApp

CONSTANTS c1, c2, t1, t2
MCLists == {<<c1, c2>>, <<c2>>, <<>>}
MCMatches(t) == IF t = t1 THEN Topics ELSE {t}
=============================================================================
