--------------------------- MODULE ClusterManager ---------------------------
(***************************************************************************)
(* The connection manager of internal/cluster/manager.go: the map from     *)
(* cluster ids to open Kafka clients, and the operations that change it    *)
(* while they race with one another.                                       *)
(*                                                                         *)
(* A step is a section of code under Manager.mu, or one call made outside  *)
(* it (Factory.Create, Client.Ping, Client.Close), so every interleaving   *)
(* of the lock sections is explored.  A goroutine inside an operation is a *)
(* caller; its local variables are functions of the caller.                *)
(*                                                                         *)
(* Data.  A ClusterConfig is abstracted to its connection (Brokers and     *)
(* Security), the only part sameConnection compares; Name and ReadOnly     *)
(* ride along and no manager code reads them.  A list of clusters is a     *)
(* function from ids to connections, NoConn for an id that is absent or    *)
(* disabled, which is what enabledConfigs computes.  Apply makes configs   *)
(* and desired one shared map; because Upsert only writes an entry equal   *)
(* (as a connection) to the desired one and Retain runs before the first   *)
(* Apply, that sharing changes no connection and is not modelled.          *)
(***************************************************************************)
EXTENDS Naturals, FiniteSets

CONSTANTS Ids,            (* cluster ids                                     *)
          Conns,          (* connection settings: Brokers and Security       *)
          NoConn,         (* no entry in a map of configurations             *)
          Clients,        (* client objects Factory.Create may return        *)
          NoClient,       (* no entry in a map of clients                    *)
          Callers,        (* goroutines that may be inside an operation      *)
          MaxGeneration   (* bound on m.generation: operations stop there    *)

ASSUME ConstantsAssumption ==
  /\ NoConn \notin Conns
  /\ NoClient \notin Clients
  /\ MaxGeneration \in Nat

VARIABLES
  phase,        (* "new", then "boot" in main's connect, then "serve"        *)
  clients,      (* m.clients                                                 *)
  configs,      (* m.configs                                                 *)
  desired,      (* m.desired                                                 *)
  desiredSet,   (* m.desiredSet                                              *)
  generation,   (* m.generation                                              *)
  created,      (* clients the factory has returned                          *)
  connOf,       (* the settings a created client connects with               *)
  closes,       (* how often Close was called on a client                    *)
  pc,           (* where a caller is                                         *)
  kind,         (* the operation a caller is in                              *)
  snapshot,     (* its local variable generation                             *)
  want,         (* its argument: the enabled clusters it asks for            *)
  reused,       (* Apply: ids whose client is kept                           *)
  made,         (* clients it has created and not yet installed              *)
  closing       (* clients it still has to close                             *)

shared == <<phase, clients, configs, desired, desiredSet, generation>>
pool   == <<created, connOf, closes>>
local  == <<pc, kind, snapshot, want, reused, made, closing>>
vars   == <<shared, pool, local>>

ConnMap   == [Ids -> Conns \cup {NoConn}]
ClientMap == [Ids -> Clients \cup {NoClient}]
NoConns   == [id \in Ids |-> NoConn]
NoClients == [id \in Ids |-> NoClient]

(* The clients in a map of clients.                                        *)
Values(m) == {m[id] : id \in Ids} \ {NoClient}
Only(id, conn) == [i \in Ids |-> IF i = id THEN conn ELSE NoConn]

TypeOK ==
  /\ phase \in {"new", "boot", "serve"}
  /\ clients \in ClientMap
  /\ configs \in ConnMap
  /\ desired \in ConnMap
  /\ desiredSet \in BOOLEAN
  /\ generation \in Nat
  /\ created \in SUBSET Clients
  /\ connOf \in [Clients -> Conns \cup {NoConn}]
  /\ closes \in [Clients -> Nat]
  /\ pc \in [Callers -> {"idle", "creating", "pinging", "closing"}]
  /\ kind \in [Callers -> {"none", "Apply", "Upsert", "Remove"}]
  /\ snapshot \in [Callers -> Nat]
  /\ want \in [Callers -> ConnMap]
  /\ reused \in [Callers -> SUBSET Ids]
  /\ made \in [Callers -> ClientMap]
  /\ closing \in [Callers -> SUBSET Clients]

Init ==
  /\ phase = "new"
  /\ clients = NoClients
  /\ configs = NoConns
  /\ desired = NoConns
  /\ desiredSet = FALSE
  /\ generation = 0
  /\ created = {}
  /\ connOf = [c \in Clients |-> NoConn]
  /\ closes = [c \in Clients |-> 0]
  /\ pc = [a \in Callers |-> "idle"]
  /\ kind = [a \in Callers |-> "none"]
  /\ snapshot = [a \in Callers |-> 0]
  /\ want = [a \in Callers |-> NoConns]
  /\ reused = [a \in Callers |-> {}]
  /\ made = [a \in Callers |-> NoClients]
  /\ closing = [a \in Callers |-> {}]

-----------------------------------------------------------------------------
(* Beginning and ending an operation.                                      *)

(* Caller a enters the unlocked part of an operation: the generation it    *)
(* read, what it asks for and what it keeps become its local variables.    *)
Enter(a, operation, w, keep) ==
  /\ kind' = [kind EXCEPT ![a] = operation]
  /\ snapshot' = [snapshot EXCEPT ![a] = generation]
  /\ want' = [want EXCEPT ![a] = w]
  /\ reused' = [reused EXCEPT ![a] = keep]
  /\ pc' = [pc EXCEPT ![a] = "creating"]
  /\ UNCHANGED <<made, closing>>

(* Caller a is left with nothing but the clients in S to close; it returns *)
(* when none is left.  Forgetting its other locals is forgetting the dead. *)
LeaveClosing(a, operation, S) ==
  /\ kind' = [kind EXCEPT ![a] = IF S = {} THEN "none" ELSE operation]
  /\ snapshot' = [snapshot EXCEPT ![a] = 0]
  /\ want' = [want EXCEPT ![a] = NoConns]
  /\ reused' = [reused EXCEPT ![a] = {}]
  /\ made' = [made EXCEPT ![a] = NoClients]
  /\ closing' = [closing EXCEPT ![a] = S]
  /\ pc' = [pc EXCEPT ![a] = IF S = {} THEN "idle" ELSE "closing"]

CanBegin(a) == pc[a] = "idle" /\ generation < MaxGeneration

(* Nobody is inside an operation.                                          *)
Alone == \A a \in Callers : pc[a] = "idle"

-----------------------------------------------------------------------------
(* Creating and pinging clients, with no lock held.                        *)

Todo(a) == {id \in Ids : /\ want[a][id] # NoConn
                         /\ id \notin reused[a]
                         /\ made[a][id] = NoClient}

(* Factory.Create returns a client for one of the clusters still missing.  *)
CreateClient(a) ==
  /\ pc[a] = "creating"
  /\ \E id \in Todo(a), c \in Clients \ created :
       /\ created' = created \cup {c}
       /\ connOf' = [connOf EXCEPT ![c] = want[a][id]]
       /\ made' = [made EXCEPT ![a][id] = c]
  /\ pc' = [pc EXCEPT ![a] = "pinging"]
  /\ UNCHANGED <<shared, closes, kind, snapshot, want, reused, closing>>

(* The broker answered the Ping of the client made last.                   *)
PingOK(a) ==
  /\ pc[a] = "pinging"
  /\ pc' = [pc EXCEPT ![a] = "creating"]
  /\ UNCHANGED <<shared, pool, kind, snapshot, want, reused, made, closing>>

(* What an operation that gives up has to close: every client it made.     *)
(* (A name that starts with Fault_ is a seeded fault: PROJECT.json says    *)
(* which definition it stands in for and which property must notice.)      *)
Fault_AbandonedKept(a) == {}
Abandoned(a) == Values(made[a])

(* Create failed, or the Ping failed (including its context expiring):     *)
(* the operation returns the error after closing every client it made.     *)
Fail(a) ==
  /\ \/ pc[a] = "creating" /\ Todo(a) # {}
     \/ pc[a] = "pinging"
  /\ LeaveClosing(a, kind[a], Abandoned(a))
  /\ UNCHANGED <<shared, pool>>

(* One call of Client.Close.                                               *)
CloseClient(a) ==
  /\ pc[a] = "closing"
  /\ \E c \in closing[a] :
       /\ closes' = [closes EXCEPT ![c] = @ + 1]
       /\ LeaveClosing(a, kind[a], closing[a] \ {c})
  /\ UNCHANGED <<shared, created, connOf>>

-----------------------------------------------------------------------------
(* Apply: all of a new set of clusters, or nothing.                        *)

(* The clusters of w whose present client already has the right settings.  *)
Fault_ReusableById(w) == {id \in Ids : w[id] # NoConn /\ clients[id] # NoClient}
Reusable(w) == {id \in Ids : /\ w[id] # NoConn
                             /\ clients[id] # NoClient
                             /\ configs[id] = w[id]}

ApplyBegin(a, w) ==
  /\ phase = "serve"
  /\ CanBegin(a)
  /\ Enter(a, "Apply", w, Reusable(w))
  /\ UNCHANGED <<shared, pool>>

(* The generation check both commits make under the lock.                  *)
Fault_CurrentUnchecked(a) == TRUE
Current(a) == snapshot[a] = generation

(* The clients Apply closes once it has replaced the map.                  *)
Fault_ReplacedAll(a) == Values(clients)
Replaced(a) == {clients[id] : id \in Ids \ reused[a]} \ {NoClient}

(* The map Apply installs: the clients it made, and those it kept.         *)
Installed(a) ==
  [id \in Ids |-> CASE want[a][id] = NoConn -> NoClient
                    [] made[a][id] # NoClient -> made[a][id]
                    [] OTHER -> clients[id]]

ApplyCommit(a) ==
  /\ kind[a] = "Apply"
  /\ pc[a] = "creating"
  /\ Todo(a) = {}
  /\ IF Current(a)
       THEN /\ clients' = Installed(a)
            /\ configs' = want[a]
            /\ desired' = want[a]
            /\ desiredSet' = TRUE
            /\ generation' = generation + 1
            /\ LeaveClosing(a, "Apply", Replaced(a))
       ELSE /\ LeaveClosing(a, "Apply", Abandoned(a))
            /\ UNCHANGED <<clients, configs, desired, desiredSet, generation>>
  /\ UNCHANGED <<phase, pool>>

-----------------------------------------------------------------------------
(* Upsert: one cluster, and only as the authoritative settings allow.      *)

(* desiredAllowsLocked                                                     *)
Allows(w) == desiredSet => \A id \in Ids : w[id] # NoConn => w[id] = desired[id]

(* An Upsert that is not allowed returns at once and changes nothing.      *)
UpsertBegin(a, id, conn) ==
  /\ phase = "serve" \/ (phase = "boot" /\ conn = desired[id])
  /\ CanBegin(a)
  /\ Allows(Only(id, conn))
  /\ Enter(a, "Upsert", Only(id, conn), {})
  /\ UNCHANGED <<shared, pool>>

(* The cluster an Upsert is about, once its client is made.                *)
Target(a) == {id \in Ids : made[a][id] # NoClient}

(* The client Upsert replaces and closes, if the id had one.               *)
Fault_OldUnchecked(a) == {clients[id] : id \in Target(a)}
Old(a) == {clients[id] : id \in Target(a)} \ {NoClient}

UpsertCommit(a) ==
  /\ kind[a] = "Upsert"
  /\ pc[a] = "creating"
  /\ Todo(a) = {}
  /\ IF Current(a) /\ Allows(want[a])
       THEN /\ clients' = [id \in Ids |-> IF id \in Target(a) THEN made[a][id]
                                                              ELSE clients[id]]
            /\ configs' = [id \in Ids |-> IF id \in Target(a) THEN want[a][id]
                                                              ELSE configs[id]]
            /\ LeaveClosing(a, "Upsert", Old(a))
       ELSE /\ LeaveClosing(a, "Upsert", Abandoned(a))
            /\ UNCHANGED <<clients, configs>>
  /\ UNCHANGED <<phase, desired, desiredSet, generation, pool>>

-----------------------------------------------------------------------------
(* SetDesired, Retain and Close: one section under the lock, then closes.  *)

(* The ids SetDesired(w) disconnects.                                      *)
Fault_UndesiredMissing(w) == {id \in Ids : clients[id] # NoClient /\ w[id] = NoConn}
Fault_UndesiredAll(w) == {id \in Ids : clients[id] # NoClient}
Undesired(w) == {id \in Ids : /\ clients[id] # NoClient
                              /\ ~ (w[id] # NoConn /\ configs[id] = w[id])}

(* Caller a drops the clients of the ids in S and goes on to close them.   *)
Remove(a, S) ==
  /\ clients' = [id \in Ids |-> IF id \in S THEN NoClient ELSE clients[id]]
  /\ configs' = [id \in Ids |-> IF id \in S THEN NoConn ELSE configs[id]]
  /\ LeaveClosing(a, "Remove", {clients[id] : id \in S} \ {NoClient})

(* main calls it on the new manager, NewServer again before it serves, and *)
(* rollbackClusters when the previous connections cannot be restored.      *)
SetDesired(a, w) ==
  /\ phase \in {"new", "serve"}
  /\ CanBegin(a)
  /\ Remove(a, Undesired(w))
  /\ desired' = w
  /\ desiredSet' = TRUE
  /\ generation' = generation + 1
  /\ phase' = IF phase = "new" THEN "boot" ELSE phase
  /\ UNCHANGED pool

(* main.connect keeps the clients of the enabled ids when all its Upserts  *)
(* have returned; the program serves from then on.                         *)
Retain(a) ==
  /\ phase = "boot"
  /\ Alone
  /\ LET gone == {id \in Ids : clients[id] # NoClient /\ desired[id] = NoConn}
     IN /\ Remove(a, gone)
        /\ generation' = IF gone = {} THEN generation ELSE generation + 1
  /\ phase' = "serve"
  /\ UNCHANGED <<desired, desiredSet, pool>>

(* main's deferred Close, which handlers still running may overlap.        *)
Close(a) ==
  /\ phase = "serve"
  /\ CanBegin(a)
  /\ Remove(a, {id \in Ids : clients[id] # NoClient})
  /\ desired' = NoConns
  /\ desiredSet' = TRUE
  /\ generation' = generation + 1
  /\ UNCHANGED <<phase, pool>>

-----------------------------------------------------------------------------
Begin(a) ==
  \/ \E w \in ConnMap : ApplyBegin(a, w) \/ SetDesired(a, w)
  \/ \E id \in Ids, conn \in Conns : UpsertBegin(a, id, conn)
  \/ Retain(a)
  \/ Close(a)

Proceed(a) ==
  \/ CreateClient(a)
  \/ PingOK(a)
  \/ Fail(a)
  \/ ApplyCommit(a)
  \/ UpsertCommit(a)
  \/ CloseClient(a)

Next == \E a \in Callers : Begin(a) \/ Proceed(a)

Spec == Init /\ [][Next]_vars

-----------------------------------------------------------------------------
(* Safety.                                                                 *)

(* A client in the map is open and in nobody's hands: whatever reads it    *)
(* from the map (Get, Kafka) gets a client no operation is about to close. *)
InstalledOpen ==
  \A id \in Ids : clients[id] # NoClient =>
    /\ clients[id] \in created
    /\ closes[clients[id]] = 0
    /\ \A a \in Callers : clients[id] \notin Values(made[a]) \cup closing[a]

(* No client is closed twice, however the removals and replacements of two *)
(* operations interleave.                                                  *)
ClosedOnce == \A c \in Clients : closes[c] <= 1

(* No connection leaks: an open client is in the map, or some operation    *)
(* still holds it and will install or close it.                            *)
NoLeak ==
  \A c \in created : closes[c] = 0 =>
    \/ c \in Values(clients)
    \/ \E a \in Callers : c \in Values(made[a]) \cup closing[a]

(* The client of an id connects with the settings the last Apply,          *)
(* SetDesired or Close made authoritative: a slow Upsert or Apply never    *)
(* brings old settings, or a removed cluster, back.                        *)
ConnectionsAuthoritative ==
  \A id \in Ids : clients[id] # NoClient =>
    /\ connOf[clients[id]] = configs[id]
    /\ configs[id] = desired[id]

(* clients and configs have the same ids, so that Apply's next[id] =       *)
(* old[id] never stores a nil client for a cluster it meant to reuse.      *)
NoNilClient ==
  \A id \in Ids : clients[id] = NoClient <=> configs[id] = NoConn

(* A reconfiguration that leaves the settings of a connected cluster alone *)
(* never disconnects it, not even for the time of one lock section.        *)
UnchangedStaysConnected ==
  [][\A id \in Ids : clients[id] # NoClient /\ desired'[id] = desired[id]
                       => clients'[id] # NoClient]_vars

(* What docs/architecture.md says of a hot reload: it only reconnects the  *)
(* clusters whose settings change, other healthy connections stay.  An     *)
(* Apply that found a cluster offline makes a client for it, and replaces  *)
(* the one a reconnect has installed in the meantime.                      *)
UnchangedStaysUntouched ==
  [][generation' # generation =>
       \A id \in Ids : clients[id] # NoClient /\ desired'[id] = desired[id]
                         => clients'[id] = clients[id]]_vars

-----------------------------------------------------------------------------
(* Refinement.                                                             *)

(* The settings each cluster is connected with.                            *)
Connected == [id \in Ids |-> IF clients[id] = NoClient THEN NoConn
                                                       ELSE connOf[clients[id]]]

Pool == INSTANCE ClientPool WITH pool <- Connected

(* The manager implements the abstract pool: every step under the lock is  *)
(* one atomic change of settings and connections, or invisible.            *)
PoolSpec == Pool!Spec

-----------------------------------------------------------------------------
(* Liveness.                                                               *)

(* Every client that is created is closed in the end unless it is in the   *)
(* map: failures, stale commits and replacements all release their share.  *)
(* It needs goroutines that keep running, as the program of ConfigServer   *)
(* assumes: Create, Ping and Close return, and no lock section blocks.     *)
EventuallyReleased ==
  \A c \in Clients :
    (c \in created /\ c \notin Values(clients))
       ~> (closes[c] > 0 \/ c \in Values(clients))

=============================================================================
