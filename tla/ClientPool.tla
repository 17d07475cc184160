----------------------------- MODULE ClientPool -----------------------------
(***************************************************************************)
(* What the connection manager (internal/cluster/manager.go) promises the  *)
(* rest of the program, with no locks, generations or client objects: the  *)
(* settings that are authoritative for each cluster, and the settings of   *)
(* the connection that is up, if any.  ClusterManager implements it.       *)
(***************************************************************************)
CONSTANTS Ids, Conns, NoConn

VARIABLES desired,   (* the authoritative settings of each id, or NoConn     *)
          pool       (* the settings of the connection in use, or NoConn     *)

ConnMap == [Ids -> Conns \cup {NoConn}]

Init == /\ desired = [id \in Ids |-> NoConn]
        /\ pool    = [id \in Ids |-> NoConn]

(* Apply: the new settings take effect together with a connection for each. *)
Switch(w) == desired' = w /\ pool' = w

(* SetDesired and Close: connections with other settings go, the rest stay. *)
Narrow(w) ==
  /\ desired' = w
  /\ pool' = [id \in Ids |-> IF pool[id] = w[id] THEN w[id] ELSE NoConn]

(* Upsert: a missing connection comes up, with the authoritative settings.  *)
Connect(id) ==
  /\ pool' = [pool EXCEPT ![id] = desired[id]]
  /\ UNCHANGED desired

Next == \/ \E w \in ConnMap : Switch(w) \/ Narrow(w)
        \/ \E id \in Ids : Connect(id)

Spec == Init /\ [][Next]_<<desired, pool>>
=============================================================================
