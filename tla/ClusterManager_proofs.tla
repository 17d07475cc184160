----------------------- MODULE ClusterManager_proofs ------------------------
(***************************************************************************)
(* Proofs about ClusterManager, for every set of clusters, connection      *)
(* settings, clients and callers and every bound on the generation.        *)
(***************************************************************************)
EXTENDS ClusterManager, TLAPS

(* The clients a caller holds: it made them or still has to close them.    *)
Held(a) == Values(made[a]) \cup closing[a]

(* What a caller's locals look like at each place of its operation.        *)
LocalShape ==
  \A a \in Callers :
    /\ pc[a] = "idle"    => closing[a] = {}
    /\ pc[a] \in {"idle", "closing"} => made[a] = NoClients
    /\ pc[a] \in {"creating", "pinging"} =>
         closing[a] = {} /\ kind[a] \in {"Apply", "Upsert"}

(* Every client has at most one owner: one id of the map, one id of one    *)
(* caller's made, or one caller's closing set.                             *)
HeldOpen == \A a \in Callers, c \in Clients :
              c \in Held(a) => c \in created /\ closes[c] = 0
HeldOnce == \A a, b \in Callers, c \in Clients :
              c \in Held(a) /\ c \in Held(b) => a = b
MadeOnce == \A a \in Callers, i, j \in Ids :
              made[a][i] # NoClient /\ made[a][i] = made[a][j] => i = j
InstalledOnce == \A i, j \in Ids :
              clients[i] # NoClient /\ clients[i] = clients[j] => i = j
UncreatedUnclosed == \A c \in Clients : c \notin created => closes[c] = 0

Ownership == /\ LocalShape
             /\ InstalledOpen
             /\ InstalledOnce
             /\ HeldOpen
             /\ HeldOnce
             /\ MadeOnce
             /\ ClosedOnce
             /\ UncreatedUnclosed
             /\ NoLeak

(* A client a caller made has the settings it was asked for, and an        *)
(* operation in flight is about ids it does not reuse.                     *)
MadeWanted == \A a \in Callers, id \in Ids : made[a][id] # NoClient =>
                /\ want[a][id] # NoConn
                /\ connOf[made[a][id]] = want[a][id]
                /\ id \notin reused[a]

(* As long as the generation has not moved, the clients an Apply decided   *)
(* to reuse are still there with the settings it wants.                    *)
ReusedKept == \A a \in Callers :
                kind[a] = "Apply" /\ pc[a] \in {"creating", "pinging"}
                  /\ snapshot[a] = generation =>
                    \A id \in reused[a] : /\ want[a][id] # NoConn
                                          /\ clients[id] # NoClient
                                          /\ configs[id] = want[a][id]

SnapshotPast == \A a \in Callers : snapshot[a] <= generation
DesiredFirst == /\ phase # "new" => desiredSet
                /\ \A a \in Callers : pc[a] \in {"creating", "pinging"} => desiredSet

UpsertSingle == \A a \in Callers :
                  kind[a] = "Upsert" /\ pc[a] \in {"creating", "pinging"} =>
                    \A i, j \in Ids : want[a][i] # NoConn /\ want[a][j] # NoConn
                                        => i = j

Pairing == /\ ConnectionsAuthoritative
           /\ NoNilClient
           /\ MadeWanted
           /\ ReusedKept
           /\ SnapshotPast
           /\ DesiredFirst
           /\ UpsertSingle

IInv == TypeOK /\ Ownership /\ Pairing

-----------------------------------------------------------------------------
(* Two facts about the helpers the actions are built from.                 *)

LEMMA ValuesMember ==
  ASSUME NEW m \in ClientMap, NEW c
  PROVE  c \in Values(m) <=> c # NoClient /\ \E id \in Ids : m[id] = c
BY DEF Values

LEMMA NoClientsEmpty == NoClients \in ClientMap /\ Values(NoClients) = {}
BY DEF Values, NoClients, ClientMap

LEMMA ValuesClients ==
  ASSUME NEW m \in ClientMap PROVE Values(m) \subseteq Clients
BY ConstantsAssumption DEF Values, ClientMap

-----------------------------------------------------------------------------
(* Type correctness.  The only thing to see is that the sets of clients to *)
(* close never contain NoClient, that is, that Close is never called on an *)
(* absent client.                                                          *)

LEMMA LeaveClosingType ==
  ASSUME TypeOK, NEW a \in Callers, NEW S \in SUBSET Clients,
         NEW op \in {"none", "Apply", "Upsert", "Remove"}, LeaveClosing(a, op, S)
  PROVE  /\ pc' \in [Callers -> {"idle", "creating", "pinging", "closing"}]
         /\ kind' \in [Callers -> {"none", "Apply", "Upsert", "Remove"}]
         /\ snapshot' \in [Callers -> Nat]
         /\ want' \in [Callers -> ConnMap]
         /\ reused' \in [Callers -> SUBSET Ids]
         /\ made' \in [Callers -> ClientMap]
         /\ closing' \in [Callers -> SUBSET Clients]
<1>1. NoConns \in ConnMap /\ NoClients \in ClientMap
  BY DEF ConnMap, ClientMap, NoConns, NoClients
<1>2. QED
  BY <1>1 DEF TypeOK, LeaveClosing

LEMMA EnterType ==
  ASSUME TypeOK, NEW a \in Callers, NEW w \in ConnMap, NEW keep \in SUBSET Ids,
         NEW op \in {"Apply", "Upsert"}, Enter(a, op, w, keep)
  PROVE  /\ pc' \in [Callers -> {"idle", "creating", "pinging", "closing"}]
         /\ kind' \in [Callers -> {"none", "Apply", "Upsert", "Remove"}]
         /\ snapshot' \in [Callers -> Nat]
         /\ want' \in [Callers -> ConnMap]
         /\ reused' \in [Callers -> SUBSET Ids]
         /\ made' \in [Callers -> ClientMap]
         /\ closing' \in [Callers -> SUBSET Clients]
BY DEF TypeOK, Enter

LEMMA InstalledValues ==
  ASSUME TypeOK, NEW S \in SUBSET Ids
  PROVE  {clients[id] : id \in S} \ {NoClient} \in SUBSET Clients
BY DEF TypeOK, ClientMap

LEMMA RemoveType ==
  ASSUME TypeOK, NEW a \in Callers, NEW S \in SUBSET Ids, Remove(a, S)
  PROVE  /\ clients' \in ClientMap
         /\ configs' \in ConnMap
         /\ pc' \in [Callers -> {"idle", "creating", "pinging", "closing"}]
         /\ kind' \in [Callers -> {"none", "Apply", "Upsert", "Remove"}]
         /\ snapshot' \in [Callers -> Nat]
         /\ want' \in [Callers -> ConnMap]
         /\ reused' \in [Callers -> SUBSET Ids]
         /\ made' \in [Callers -> ClientMap]
         /\ closing' \in [Callers -> SUBSET Clients]
<1> DEFINE gone == {clients[id] : id \in S} \ {NoClient}
<1>1. gone \in SUBSET Clients
  BY InstalledValues
<1>2. LeaveClosing(a, "Remove", gone)
  BY DEF Remove
<1>3. clients' \in ClientMap /\ configs' \in ConnMap
  BY DEF Remove, TypeOK, ClientMap, ConnMap
<1> HIDE DEF gone
<1>4. QED
  BY <1>1, <1>2, <1>3, LeaveClosingType

LEMMA TypeStep == ASSUME TypeOK, [Next]_vars PROVE TypeOK'
<1>1. CASE UNCHANGED vars
  BY <1>1 DEF TypeOK, vars, shared, pool, local
<1>2. ASSUME NEW a \in Callers, NEW w \in ConnMap, ApplyBegin(a, w)
      PROVE  TypeOK'
  <2>1. Reusable(w) \in SUBSET Ids
    BY DEF Reusable
  <2>2. QED
    BY <1>2, <2>1, EnterType DEF ApplyBegin, TypeOK, shared, pool
<1>3. ASSUME NEW a \in Callers, NEW w \in ConnMap, SetDesired(a, w)
      PROVE  TypeOK'
  <2>1. Undesired(w) \in SUBSET Ids
    BY DEF Undesired
  <2>2. Remove(a, Undesired(w))
    BY <1>3 DEF SetDesired
  <2>3. /\ phase' \in {"new", "boot", "serve"} /\ desired' \in ConnMap
        /\ desiredSet' \in BOOLEAN /\ generation' \in Nat /\ UNCHANGED pool
    BY <1>3 DEF SetDesired, TypeOK
  <2>4. QED
    BY <2>1, <2>2, <2>3, RemoveType DEF TypeOK, pool
<1>4. ASSUME NEW a \in Callers, NEW id \in Ids, NEW conn \in Conns,
             UpsertBegin(a, id, conn)
      PROVE  TypeOK'
  <2>1. Only(id, conn) \in ConnMap
    BY DEF Only, ConnMap
  <2>2. QED
    BY <1>4, <2>1, EnterType DEF UpsertBegin, TypeOK, shared, pool
<1>5. ASSUME NEW a \in Callers, Retain(a) PROVE TypeOK'
  <2> DEFINE gone == {id \in Ids : clients[id] # NoClient /\ desired[id] = NoConn}
  <2>1. gone \in SUBSET Ids
    OBVIOUS
  <2>2. /\ Remove(a, gone) /\ phase' = "serve" /\ generation' \in Nat
        /\ UNCHANGED <<desired, desiredSet, pool>>
    BY <1>5 DEF Retain, TypeOK
  <2> HIDE DEF gone
  <2>3. QED
    BY <2>1, <2>2, RemoveType DEF TypeOK, pool
<1>6. ASSUME NEW a \in Callers, Close(a) PROVE TypeOK'
  <2> DEFINE gone == {id \in Ids : clients[id] # NoClient}
  <2>1. gone \in SUBSET Ids
    OBVIOUS
  <2>2. /\ Remove(a, gone) /\ desired' = NoConns /\ desiredSet' = TRUE
        /\ generation' \in Nat /\ UNCHANGED <<phase, pool>>
    BY <1>6 DEF Close, TypeOK
  <2>3. NoConns \in ConnMap
    BY DEF NoConns, ConnMap
  <2> HIDE DEF gone
  <2>4. QED
    BY <2>1, <2>2, <2>3, RemoveType DEF TypeOK, pool
<1>7. ASSUME NEW a \in Callers, CreateClient(a) PROVE TypeOK'
  BY <1>7 DEF CreateClient, TypeOK, shared, ConnMap, ClientMap, Todo
<1>8. ASSUME NEW a \in Callers, PingOK(a) PROVE TypeOK'
  BY <1>8 DEF PingOK, TypeOK, shared, pool
<1>9. ASSUME NEW a \in Callers, Fail(a) PROVE TypeOK'
  <2>1. Abandoned(a) \in SUBSET Clients
    BY ValuesClients DEF Abandoned, TypeOK
  <2>2. kind[a] \in {"none", "Apply", "Upsert", "Remove"}
    BY DEF TypeOK
  <2>3. QED
    BY <1>9, <2>1, <2>2, LeaveClosingType DEF Fail, TypeOK, shared, pool
<1>10. ASSUME NEW a \in Callers, ApplyCommit(a) PROVE TypeOK'
  <2>1. Abandoned(a) \in SUBSET Clients
    BY ValuesClients DEF Abandoned, TypeOK
  <2>2. Replaced(a) \in SUBSET Clients
    BY InstalledValues DEF Replaced
  <2>3. Installed(a) \in ClientMap
    BY DEF Installed, TypeOK, ClientMap
  <2>4. CASE Current(a)
    <3>1. LeaveClosing(a, "Apply", Replaced(a))
      BY <1>10, <2>4 DEF ApplyCommit
    <3>2. /\ clients' \in ClientMap /\ configs' \in ConnMap
          /\ desired' \in ConnMap /\ desiredSet' \in BOOLEAN
          /\ generation' \in Nat /\ UNCHANGED <<phase, pool>>
      BY <1>10, <2>3, <2>4 DEF ApplyCommit, TypeOK
    <3>3. QED
      BY <2>2, <3>1, <3>2, LeaveClosingType DEF TypeOK, pool
  <2>5. CASE ~ Current(a)
    <3>1. LeaveClosing(a, "Apply", Abandoned(a))
      BY <1>10, <2>5 DEF ApplyCommit
    <3>2. UNCHANGED <<shared, pool>>
      BY <1>10, <2>5 DEF ApplyCommit, shared
    <3>3. QED
      BY <2>1, <3>1, <3>2, LeaveClosingType DEF TypeOK, shared, pool
  <2>6. QED
    BY <2>4, <2>5
<1>11. ASSUME NEW a \in Callers, UpsertCommit(a) PROVE TypeOK'
  <2>1. Abandoned(a) \in SUBSET Clients
    BY ValuesClients DEF Abandoned, TypeOK
  <2>2. Target(a) \in SUBSET Ids
    BY DEF Target
  <2>3. Old(a) \in SUBSET Clients
    BY <2>2, InstalledValues DEF Old
  <2>4. CASE Current(a) /\ Allows(want[a])
    <3>1. LeaveClosing(a, "Upsert", Old(a))
      BY <1>11, <2>4 DEF UpsertCommit
    <3>2. /\ clients' \in ClientMap /\ configs' \in ConnMap
          /\ UNCHANGED <<phase, desired, desiredSet, generation, pool>>
      BY <1>11, <2>4 DEF UpsertCommit, TypeOK, ClientMap, ConnMap
    <3>3. QED
      BY <2>3, <3>1, <3>2, LeaveClosingType DEF TypeOK, pool
  <2>5. CASE ~ (Current(a) /\ Allows(want[a]))
    <3>1. LeaveClosing(a, "Upsert", Abandoned(a))
      BY <1>11, <2>5 DEF UpsertCommit
    <3>2. UNCHANGED <<shared, pool>>
      BY <1>11, <2>5 DEF UpsertCommit, shared
    <3>3. QED
      BY <2>1, <3>1, <3>2, LeaveClosingType DEF TypeOK, shared, pool
  <2>6. QED
    BY <2>4, <2>5
<1>12. ASSUME NEW a \in Callers, CloseClient(a) PROVE TypeOK'
  <2>1. PICK c \in closing[a] : /\ closes' = [closes EXCEPT ![c] = @ + 1]
                                /\ LeaveClosing(a, kind[a], closing[a] \ {c})
    BY <1>12 DEF CloseClient
  <2>2. /\ c \in Clients /\ closing[a] \ {c} \in SUBSET Clients
        /\ kind[a] \in {"none", "Apply", "Upsert", "Remove"}
    BY DEF TypeOK
  <2>3. closes' \in [Clients -> Nat] /\ UNCHANGED <<shared, created, connOf>>
    BY <1>12, <2>1, <2>2 DEF CloseClient, TypeOK
  <2>4. QED
    BY <2>1, <2>2, <2>3, LeaveClosingType DEF TypeOK, shared
<1>13. QED
  BY <1>1, <1>2, <1>3, <1>4, <1>5, <1>6, <1>7, <1>8, <1>9, <1>10, <1>11, <1>12
  DEF Next, Begin, Proceed

LEMMA TypeInit == Init => TypeOK
<1>1. NoConns \in ConnMap /\ NoClients \in ClientMap
  BY DEF ConnMap, ClientMap, NoConns, NoClients
<1>2. Init => /\ phase \in {"new", "boot", "serve"}
              /\ generation \in Nat
              /\ created \in SUBSET Clients
              /\ clients \in ClientMap /\ configs \in ConnMap /\ desired \in ConnMap
  BY <1>1 DEF Init
<1>3. Init => desiredSet \in BOOLEAN
  BY DEF Init
<1>4. Init => /\ connOf \in [Clients -> Conns \cup {NoConn}]
              /\ closes \in [Clients -> Nat]
  BY DEF Init
<1>5. Init => /\ pc \in [Callers -> {"idle", "creating", "pinging", "closing"}]
              /\ kind \in [Callers -> {"none", "Apply", "Upsert", "Remove"}]
              /\ snapshot \in [Callers -> Nat]
  BY DEF Init
<1>6. Init => /\ want \in [Callers -> ConnMap]
              /\ reused \in [Callers -> SUBSET Ids]
              /\ made \in [Callers -> ClientMap]
              /\ closing \in [Callers -> SUBSET Clients]
  BY <1>1 DEF Init
<1>7. QED
  BY <1>2, <1>3, <1>4, <1>5, <1>6 DEF TypeOK

(* The state stays within its types: in particular Close is only ever      *)
(* called on clients, and never on the absent client of an empty entry.    *)
THEOREM TypeCorrect == Spec => []TypeOK
BY TypeInit, TypeStep, PTL DEF Spec

-----------------------------------------------------------------------------
(* Ownership.  All operations but two move clients between the map and the *)
(* hands of the caller that runs, at the moment it has only closing left.  *)

LEMMA LeaveClosingLocals ==
  ASSUME TypeOK, NEW a \in Callers, NEW op, NEW S, LeaveClosing(a, op, S)
  PROVE  /\ made'[a] = NoClients /\ closing'[a] = S
         /\ pc'[a] = IF S = {} THEN "idle" ELSE "closing"
         /\ snapshot'[a] = 0
         /\ \A b \in Callers : b # a =>
              /\ made'[b] = made[b] /\ closing'[b] = closing[b]
              /\ pc'[b] = pc[b] /\ kind'[b] = kind[b]
              /\ snapshot'[b] = snapshot[b] /\ want'[b] = want[b]
              /\ reused'[b] = reused[b]
BY DEF TypeOK, LeaveClosing

LEMMA LeaveClosingHeld ==
  ASSUME TypeOK, NEW a \in Callers, NEW op, NEW S, LeaveClosing(a, op, S)
  PROVE  /\ Held(a)' = S
         /\ \A b \in Callers : b # a => Held(b)' = Held(b)
<1>1. Values(made[a])' = {}
  BY LeaveClosingLocals, NoClientsEmpty
<1>2. QED
  BY <1>1, LeaveClosingLocals DEF Held

LEMMA Handover ==
  ASSUME TypeOK, TypeOK', Ownership,
         NEW a \in Callers, NEW op, NEW S, LeaveClosing(a, op, S),
         UNCHANGED <<created, closes>>,
         Values(clients') \cup S = Values(clients) \cup Held(a),
         Values(clients') \cap S = {},
         InstalledOnce'
  PROVE  Ownership'
<1>1. Held(a)' = S /\ \A b \in Callers : b # a => Held(b)' = Held(b)
  BY LeaveClosingHeld
<1>2. \A c : c \in Values(clients) \/ (\E b \in Callers : c \in Held(b))
              => c \in created /\ closes[c] = 0
  <2>1. \A c : c \in Values(clients) => c \in created /\ closes[c] = 0
    BY DEF Ownership, InstalledOpen, Values
  <2>2. \A b \in Callers : Held(b) \subseteq Clients
    BY ValuesClients DEF Held, TypeOK
  <2>3. QED
    BY <2>1, <2>2 DEF Ownership, HeldOpen
<1>3. \A b \in Callers : Values(clients) \cap Held(b) = {}
  BY DEF Ownership, InstalledOpen, Values, Held
<1>4. \A b, d \in Callers : b # d => Held(b) \cap Held(d) = {}
  <2>1. \A b \in Callers : Held(b) \subseteq Clients
    BY ValuesClients DEF Held, TypeOK
  <2>2. QED
    BY <2>1 DEF Ownership, HeldOnce
<1>5. LocalShape'
  <2>1. \A b \in Callers : b # a =>
          /\ made'[b] = made[b] /\ closing'[b] = closing[b]
          /\ pc'[b] = pc[b] /\ kind'[b] = kind[b]
    BY LeaveClosingLocals
  <2>2. /\ made'[a] = NoClients /\ closing'[a] = S
        /\ pc'[a] = IF S = {} THEN "idle" ELSE "closing"
    BY LeaveClosingLocals
  <2>3. QED
    BY <2>1, <2>2 DEF Ownership, LocalShape, NoClients
<1>6. InstalledOpen'
  <2>1. \A id \in Ids : clients'[id] # NoClient => clients'[id] \in Values(clients')
    BY DEF Values
  <2>2. \A b \in Callers : Values(clients') \cap Held(b)' = {}
    BY <1>1, <1>3, <1>4
  <2>3. QED
    BY <1>2, <2>1, <2>2 DEF InstalledOpen, Held
<1>7. HeldOpen'
  BY <1>1, <1>2 DEF HeldOpen
<1>8. HeldOnce'
  <2>1. \A b \in Callers : b # a => S \cap Held(b) = {}
    BY <1>3, <1>4
  <2>2. \A b, d \in Callers : b # d => Held(b)' \cap Held(d)' = {}
    BY <1>1, <1>4, <2>1
  <2>3. QED
    BY <2>2 DEF HeldOnce
<1>9. MadeOnce'
  BY LeaveClosingLocals DEF Ownership, MadeOnce, NoClients
<1>10. ClosedOnce' /\ UncreatedUnclosed'
  BY DEF Ownership, ClosedOnce, UncreatedUnclosed
<1>11. NoLeak'
  <2>1. \A c \in created : closes[c] = 0 =>
          c \in Values(clients) \/ \E b \in Callers : c \in Held(b)
    BY DEF Ownership, NoLeak, Held
  <2>2. \A c \in created : closes[c] = 0 =>
          c \in Values(clients') \/ \E b \in Callers : c \in Held(b)'
    BY <1>1, <2>1
  <2>3. QED
    BY <2>2 DEF NoLeak, Held
<1>12. QED
  BY <1>5, <1>6, <1>7, <1>8, <1>9, <1>10, <1>11 DEF Ownership

(* An operation that abandons what it made hands it from made to closing.  *)
LEMMA AbandonOwnership ==
  ASSUME TypeOK, TypeOK', Ownership, NEW a \in Callers, NEW op,
         pc[a] \in {"creating", "pinging"},
         LeaveClosing(a, op, Abandoned(a)), UNCHANGED <<clients, created, closes>>
  PROVE  Ownership'
<1>1. Held(a) = Abandoned(a)
  BY DEF Held, Abandoned, Ownership, LocalShape
<1>2. Values(clients) \cap Held(a) = {}
  BY DEF Ownership, InstalledOpen, Values, Held
<1>3. InstalledOnce'
  BY DEF Ownership, InstalledOnce
<1>4. Values(clients') = Values(clients)
  OBVIOUS
<1>5. QED
  BY <1>1, <1>2, <1>3, <1>4, Handover

(* An operation that takes ids out of the map hands their clients over.    *)
LEMMA RemoveOwnership ==
  ASSUME TypeOK, TypeOK', Ownership, NEW a \in Callers, NEW S \in SUBSET Ids,
         pc[a] = "idle", Remove(a, S), UNCHANGED <<created, closes>>
  PROVE  Ownership'
<1> DEFINE gone == {clients[id] : id \in S} \ {NoClient}
<1>1. Held(a) = {}
  BY NoClientsEmpty DEF Held, Ownership, LocalShape
<1>2. clients' = [id \in Ids |-> IF id \in S THEN NoClient ELSE clients[id]]
  BY DEF Remove
<1>3. LeaveClosing(a, "Remove", gone)
  BY DEF Remove
<1>4. InstalledOnce'
  BY <1>2 DEF Ownership, InstalledOnce
<1>5. Values(clients') \cup gone = Values(clients)
  BY <1>2 DEF Values
<1>6. Values(clients') \cap gone = {}
  BY <1>2 DEF Values, Ownership, InstalledOnce
<1> HIDE DEF gone
<1>7. QED
  BY <1>1, <1>3, <1>4, <1>5, <1>6, Handover

LEMMA CreateClientOwnership ==
  ASSUME TypeOK, TypeOK', Ownership, NEW a \in Callers, CreateClient(a)
  PROVE  Ownership'
<1>1. PICK id \in Todo(a), c \in Clients \ created :
        /\ created' = created \cup {c}
        /\ made' = [made EXCEPT ![a][id] = c]
  BY DEF CreateClient
<1>2. /\ id \in Ids /\ made[a][id] = NoClient /\ c # NoClient
      /\ pc[a] = "creating" /\ pc' = [pc EXCEPT ![a] = "pinging"]
      /\ UNCHANGED <<clients, closes, closing, kind>>
  BY <1>1, ConstantsAssumption DEF CreateClient, Todo, shared
<1>3. /\ made'[a][id] = c
      /\ \A i \in Ids : i # id => made'[a][i] = made[a][i]
      /\ \A b \in Callers : b # a => made'[b] = made[b]
  BY <1>1, <1>2 DEF TypeOK, ClientMap
<1>4. Values(made'[a]) = Values(made[a]) \cup {c}
  BY <1>2, <1>3 DEF Values
<1>5. /\ Held(a)' = Held(a) \cup {c}
      /\ \A b \in Callers : b # a => Held(b)' = Held(b)
  BY <1>2, <1>3, <1>4 DEF Held
<1>6. c \notin Values(clients) /\ \A b \in Callers : c \notin Held(b)
  BY <1>1 DEF Ownership, InstalledOpen, HeldOpen, Values
<1>7. LocalShape'
  BY <1>2, <1>3 DEF Ownership, LocalShape, TypeOK
<1>8. InstalledOpen'
  <2>1. \A i \in Ids : clients[i] # NoClient =>
          /\ clients[i] \in created /\ closes[clients[i]] = 0
          /\ clients[i] # c
          /\ \A b \in Callers : clients[i] \notin Held(b)
    BY <1>6 DEF Ownership, InstalledOpen, Values, Held
  <2>2. QED
    BY <1>1, <1>2, <1>5, <2>1 DEF InstalledOpen, Held
<1>9. InstalledOnce' /\ ClosedOnce'
  BY <1>2 DEF Ownership, InstalledOnce, ClosedOnce
<1>10. HeldOpen' /\ UncreatedUnclosed'
  BY <1>1, <1>2, <1>5 DEF Ownership, HeldOpen, UncreatedUnclosed
<1>11. HeldOnce'
  BY <1>5, <1>6 DEF Ownership, HeldOnce
<1>12. MadeOnce'
  <2>1. \A i \in Ids : made[a][i] # c
    BY <1>2, <1>6 DEF Held, Values
  <2>2. QED
    BY <1>2, <1>3, <2>1 DEF Ownership, MadeOnce
<1>13. NoLeak'
  <2>1. \A x \in created : closes[x] = 0 =>
          x \in Values(clients) \/ \E b \in Callers : x \in Held(b)
    BY DEF Ownership, NoLeak, Held
  <2>2. \A x \in created' : closes'[x] = 0 =>
          x \in Values(clients') \/ \E b \in Callers : x \in Held(b)'
    BY <1>1, <1>2, <1>5, <2>1
  <2>3. QED
    BY <2>2 DEF NoLeak, Held
<1>14. QED
  BY <1>7, <1>8, <1>9, <1>10, <1>11, <1>12, <1>13 DEF Ownership

LEMMA CloseClientOwnership ==
  ASSUME TypeOK, TypeOK', Ownership, NEW a \in Callers, CloseClient(a)
  PROVE  Ownership'
<1>1. PICK c \in closing[a] : /\ closes' = [closes EXCEPT ![c] = @ + 1]
                              /\ LeaveClosing(a, kind[a], closing[a] \ {c})
  BY DEF CloseClient
<1>2. /\ pc[a] = "closing" /\ UNCHANGED <<clients, created>>
      /\ closing[a] \in SUBSET Clients /\ c \in Clients
  BY <1>1 DEF CloseClient, shared, TypeOK
<1>3. Held(a) = closing[a] /\ c \in Held(a)
  BY <1>1, <1>2, NoClientsEmpty DEF Held, Ownership, LocalShape
<1>4. /\ Held(a)' = Held(a) \ {c}
      /\ \A b \in Callers : b # a => Held(b)' = Held(b)
  BY <1>1, <1>3, LeaveClosingHeld
<1>5. /\ c \in created /\ closes[c] = 0 /\ c \notin Values(clients)
      /\ \A b \in Callers : b # a => c \notin Held(b)
  BY <1>2, <1>3 DEF Ownership, HeldOpen, HeldOnce, InstalledOpen, Values, Held
<1>6. closes'[c] = 1 /\ \A x \in Clients : x # c => closes'[x] = closes[x]
  BY <1>1, <1>2, <1>5 DEF TypeOK
<1>7. LocalShape'
  <2>1. \A b \in Callers : b # a =>
          /\ made'[b] = made[b] /\ closing'[b] = closing[b]
          /\ pc'[b] = pc[b] /\ kind'[b] = kind[b]
    BY <1>1, LeaveClosingLocals
  <2>2. /\ made'[a] = NoClients /\ closing'[a] = closing[a] \ {c}
        /\ pc'[a] = IF closing[a] \ {c} = {} THEN "idle" ELSE "closing"
    BY <1>1, LeaveClosingLocals
  <2>3. QED
    BY <2>1, <2>2 DEF Ownership, LocalShape, NoClients
<1>8. InstalledOpen'
  <2>1. \A i \in Ids : clients[i] # NoClient =>
          /\ clients[i] \in created /\ closes[clients[i]] = 0
          /\ clients[i] # c /\ clients[i] \in Clients
          /\ \A b \in Callers : clients[i] \notin Held(b)
    BY <1>5 DEF Ownership, InstalledOpen, Values, Held, TypeOK
  <2>2. QED
    BY <1>2, <1>4, <1>6, <2>1 DEF InstalledOpen, Held
<1>9. InstalledOnce'
  BY <1>2 DEF Ownership, InstalledOnce
<1>10. ClosedOnce'
  BY <1>6 DEF Ownership, ClosedOnce
<1>11. UncreatedUnclosed'
  BY <1>2, <1>5, <1>6 DEF Ownership, UncreatedUnclosed
<1>12. HeldOpen'
  BY <1>2, <1>3, <1>4, <1>5, <1>6 DEF Ownership, HeldOpen
<1>13. HeldOnce'
  BY <1>4 DEF Ownership, HeldOnce
<1>14. MadeOnce'
  BY <1>1, LeaveClosingLocals DEF Ownership, MadeOnce, NoClients
<1>15. NoLeak'
  <2>1. \A x \in created : closes[x] = 0 =>
          x \in Values(clients) \/ \E b \in Callers : x \in Held(b)
    BY DEF Ownership, NoLeak, Held
  <2>2. \A x \in created : closes'[x] = 0 => x # c /\ closes[x] = 0
    BY <1>6 DEF TypeOK
  <2>3. \A x \in created' : closes'[x] = 0 =>
          x \in Values(clients') \/ \E b \in Callers : x \in Held(b)'
    BY <1>2, <1>4, <2>1, <2>2
  <2>4. QED
    BY <2>3 DEF NoLeak, Held
<1>16. QED
  BY <1>7, <1>8, <1>9, <1>10, <1>11, <1>12, <1>13, <1>14, <1>15 DEF Ownership

(* What a commit that finds the generation unchanged knows about Apply.    *)
LEMMA ApplyInstalls ==
  ASSUME IInv, NEW a \in Callers, ApplyCommit(a), Current(a)
  PROVE  \A id \in Ids :
           /\ Installed(a)[id] = IF id \in reused[a] THEN clients[id]
                                                     ELSE made[a][id]
           /\ id \in reused[a] =>
                /\ made[a][id] = NoClient /\ clients[id] # NoClient
                /\ want[a][id] # NoConn /\ configs[id] = want[a][id]
           /\ id \notin reused[a] => (made[a][id] = NoClient <=> want[a][id] = NoConn)
<1>1. kind[a] = "Apply" /\ pc[a] = "creating" /\ Todo(a) = {}
  BY DEF ApplyCommit
<1>2. \A id \in reused[a] : /\ want[a][id] # NoConn /\ clients[id] # NoClient
                            /\ configs[id] = want[a][id]
  BY <1>1 DEF IInv, Pairing, ReusedKept, Current
<1>3. \A id \in Ids : made[a][id] # NoClient =>
                        want[a][id] # NoConn /\ id \notin reused[a]
  BY DEF IInv, Pairing, MadeWanted
<1>4. \A id \in Ids : want[a][id] # NoConn =>
                        id \in reused[a] \/ made[a][id] # NoClient
  BY <1>1 DEF Todo
<1>5. QED
  BY <1>2, <1>3, <1>4 DEF Installed

LEMMA ApplyCommitOwnership ==
  ASSUME IInv, TypeOK', NEW a \in Callers, ApplyCommit(a)
  PROVE  Ownership'
<1>1. TypeOK /\ Ownership /\ pc[a] = "creating" /\ UNCHANGED <<created, closes>>
  BY DEF IInv, ApplyCommit, pool
<1>2. CASE ~ Current(a)
  <2>1. LeaveClosing(a, "Apply", Abandoned(a)) /\ UNCHANGED clients
    BY <1>2 DEF ApplyCommit
  <2>2. QED
    BY <1>1, <2>1, AbandonOwnership
<1>3. CASE Current(a)
  <2>1. /\ clients' = Installed(a)
        /\ LeaveClosing(a, "Apply", Replaced(a))
    BY <1>3 DEF ApplyCommit
  <2>2. \A id \in Ids :
          /\ clients'[id] = IF id \in reused[a] THEN clients[id] ELSE made[a][id]
          /\ id \in reused[a] => made[a][id] = NoClient
    BY <1>3, <2>1, ApplyInstalls
  <2>3. Held(a) = Values(made[a])
    BY <1>1 DEF Held, Ownership, LocalShape
  <2>4. \A i, j \in Ids : made[a][i] # NoClient => made[a][i] # clients[j]
    BY <1>1 DEF Ownership, InstalledOpen, Values
  <2>5. InstalledOnce'
    BY <1>1, <2>2, <2>4 DEF Ownership, InstalledOnce, MadeOnce
  <2>6. Values(clients') \cup Replaced(a) = Values(clients) \cup Values(made[a])
    BY <2>2 DEF Values, Replaced
  <2>7. Values(clients') \cap Replaced(a) = {}
    <3>1. \A i, j \in Ids : /\ i \notin reused[a] /\ clients[i] # NoClient
                            => clients'[j] # clients[i]
      BY <1>1, <2>2, <2>4 DEF Ownership, InstalledOnce
    <3>2. QED
      BY <3>1 DEF Values, Replaced
  <2>8. QED
    BY <1>1, <2>1, <2>3, <2>5, <2>6, <2>7, Handover
<1>4. QED
  BY <1>2, <1>3

LEMMA UpsertCommitOwnership ==
  ASSUME IInv, TypeOK', NEW a \in Callers, UpsertCommit(a)
  PROVE  Ownership'
<1>1. TypeOK /\ Ownership /\ pc[a] = "creating" /\ UNCHANGED <<created, closes>>
  BY DEF IInv, UpsertCommit, pool
<1>2. CASE ~ (Current(a) /\ Allows(want[a]))
  <2>1. LeaveClosing(a, "Upsert", Abandoned(a)) /\ UNCHANGED clients
    BY <1>2 DEF UpsertCommit
  <2>2. QED
    BY <1>1, <2>1, AbandonOwnership
<1>3. CASE Current(a) /\ Allows(want[a])
  <2>1. /\ clients' = [id \in Ids |-> IF id \in Target(a) THEN made[a][id]
                                                          ELSE clients[id]]
        /\ LeaveClosing(a, "Upsert", Old(a))
    BY <1>3 DEF UpsertCommit
  <2>2. \A id \in Ids : clients'[id] = IF made[a][id] # NoClient THEN made[a][id]
                                                                 ELSE clients[id]
    BY <2>1 DEF Target
  <2>3. Held(a) = Values(made[a])
    BY <1>1 DEF Held, Ownership, LocalShape
  <2>4. \A i, j \in Ids : made[a][i] # NoClient => made[a][i] # clients[j]
    BY <1>1 DEF Ownership, InstalledOpen, Values
  <2>5. InstalledOnce'
    BY <1>1, <2>2, <2>4 DEF Ownership, InstalledOnce, MadeOnce
  <2>6. Values(clients') \cup Old(a) = Values(clients) \cup Values(made[a])
    BY <2>2 DEF Values, Old, Target
  <2>7. Values(clients') \cap Old(a) = {}
    <3>1. \A i, j \in Ids : made[a][i] # NoClient /\ clients[i] # NoClient
                            => clients'[j] # clients[i]
      BY <1>1, <2>2, <2>4 DEF Ownership, InstalledOnce
    <3>2. QED
      BY <3>1 DEF Values, Old, Target
  <2>8. QED
    BY <1>1, <2>1, <2>3, <2>5, <2>6, <2>7, Handover
<1>4. QED
  BY <1>2, <1>3

-----------------------------------------------------------------------------
(* Pairing.                                                                *)

(* A step by which caller a leaves keeps the pairing of all other callers, *)
(* if it moves the generation or disturbs no connected id.                 *)
LEMMA LeavePairing ==
  ASSUME TypeOK, Pairing, NEW a \in Callers, NEW op, NEW S, LeaveClosing(a, op, S),
         UNCHANGED connOf,
         \/ generation' = generation + 1
         \/ /\ generation' = generation
            /\ \A id \in Ids : clients[id] # NoClient =>
                 clients'[id] # NoClient /\ configs'[id] = configs[id],
         desiredSet => desiredSet',
         phase' # "new" => desiredSet'
  PROVE  MadeWanted' /\ ReusedKept' /\ SnapshotPast' /\ DesiredFirst' /\ UpsertSingle'
<1>1. /\ made'[a] = NoClients /\ pc'[a] \notin {"creating", "pinging"}
      /\ snapshot'[a] = 0
      /\ \A b \in Callers : b # a =>
           /\ made'[b] = made[b] /\ pc'[b] = pc[b] /\ kind'[b] = kind[b]
           /\ snapshot'[b] = snapshot[b] /\ want'[b] = want[b]
           /\ reused'[b] = reused[b]
  BY LeaveClosingLocals
<1>2. generation \in Nat /\ generation' \in Nat /\ generation' >= generation
  BY DEF TypeOK
<1>3. MadeWanted'
  BY <1>1 DEF Pairing, MadeWanted, NoClients
<1>4. SnapshotPast'
  <2>1. \A b \in Callers : snapshot[b] \in Nat /\ snapshot[b] <= generation
    BY DEF TypeOK, Pairing, SnapshotPast
  <2>2. QED
    BY <1>1, <1>2, <2>1 DEF SnapshotPast
<1>5. DesiredFirst'
  BY <1>1 DEF Pairing, DesiredFirst
<1>6. ReusedKept'
  <2> SUFFICES ASSUME NEW b \in Callers, kind'[b] = "Apply",
                      pc'[b] \in {"creating", "pinging"},
                      snapshot'[b] = generation', NEW id \in reused'[b]
               PROVE  /\ want'[b][id] # NoConn /\ clients'[id] # NoClient
                      /\ configs'[id] = want'[b][id]
    BY DEF ReusedKept
  <2>1. b # a
    BY <1>1
  <2>2. /\ kind[b] = "Apply" /\ pc[b] \in {"creating", "pinging"}
        /\ snapshot[b] = generation' /\ id \in reused[b] /\ want'[b] = want[b]
    BY <1>1, <2>1
  <2>3. snapshot[b] <= generation
    BY DEF Pairing, SnapshotPast
  <2>4. generation' = generation
    BY <1>2, <2>2, <2>3
  <2>5. id \in Ids
    BY <2>2 DEF TypeOK
  <2>6. want[b][id] # NoConn /\ clients[id] # NoClient /\ configs[id] = want[b][id]
    BY <2>2, <2>4 DEF Pairing, ReusedKept
  <2>7. clients'[id] # NoClient /\ configs'[id] = configs[id]
    BY <1>2, <2>4, <2>5, <2>6
  <2>8. QED
    BY <2>2, <2>6, <2>7
<1>7. UpsertSingle'
  BY <1>1 DEF Pairing, UpsertSingle
<1>8. QED
  BY <1>3, <1>4, <1>5, <1>6, <1>7

(* Taking ids out of the map leaves every other id with its authoritative  *)
(* connection, provided those ids are wanted as they are.                  *)
LEMMA RemovePairing ==
  ASSUME TypeOK, Pairing, NEW a \in Callers, NEW S \in SUBSET Ids, Remove(a, S),
         UNCHANGED connOf,
         \A id \in Ids \ S : clients[id] # NoClient => configs[id] = desired'[id],
         \/ generation' = generation + 1
         \/ generation' = generation /\ S = {},
         desiredSet => desiredSet',
         phase' # "new" => desiredSet'
  PROVE  Pairing'
<1> DEFINE gone == {clients[id] : id \in S} \ {NoClient}
<1>1. \A id \in Ids : /\ clients'[id] = IF id \in S THEN NoClient ELSE clients[id]
                      /\ configs'[id] = IF id \in S THEN NoConn ELSE configs[id]
  BY DEF Remove
<1>2. LeaveClosing(a, "Remove", gone)
  BY DEF Remove
<1>3. ConnectionsAuthoritative' /\ NoNilClient'
  BY <1>1 DEF Pairing, ConnectionsAuthoritative, NoNilClient
<1>4. \/ generation' = generation + 1
      \/ /\ generation' = generation
         /\ \A id \in Ids : clients[id] # NoClient =>
              clients'[id] # NoClient /\ configs'[id] = configs[id]
  BY <1>1
<1> HIDE DEF gone
<1>5. QED
  BY <1>2, <1>3, <1>4, LeavePairing DEF Pairing

LEMMA BeginPairing ==
  ASSUME TypeOK, Pairing, Ownership, NEW a \in Callers,
         NEW w \in ConnMap, NEW keep \in SUBSET Ids, NEW op \in {"Apply", "Upsert"},
         pc[a] = "idle", desiredSet, Enter(a, op, w, keep),
         UNCHANGED <<shared, pool>>,
         op = "Apply" => keep \subseteq Reusable(w),
         op = "Upsert" => \A i, j \in Ids : w[i] # NoConn /\ w[j] # NoConn => i = j
  PROVE  Pairing'
<1>1. /\ made' = made /\ kind'[a] = op /\ snapshot'[a] = generation
      /\ want'[a] = w /\ reused'[a] = keep /\ pc'[a] = "creating"
      /\ \A b \in Callers : b # a =>
           /\ pc'[b] = pc[b] /\ kind'[b] = kind[b] /\ want'[b] = want[b]
           /\ snapshot'[b] = snapshot[b] /\ reused'[b] = reused[b]
  BY DEF Enter, TypeOK
<1>2. made[a] = NoClients
  BY DEF Ownership, LocalShape
<1>3. UNCHANGED <<clients, configs, desired, desiredSet, generation, phase, connOf>>
  BY DEF shared, pool
<1>4. ConnectionsAuthoritative' /\ NoNilClient'
  BY <1>3 DEF Pairing, ConnectionsAuthoritative, NoNilClient
<1>5. MadeWanted'
  BY <1>1, <1>2, <1>3 DEF Pairing, MadeWanted, NoClients
<1>6. ReusedKept'
  BY <1>1, <1>3 DEF Pairing, ReusedKept, Reusable
<1>7. SnapshotPast'
  BY <1>1, <1>3 DEF Pairing, SnapshotPast, TypeOK
<1>8. DesiredFirst'
  BY <1>1, <1>3 DEF Pairing, DesiredFirst
<1>9. UpsertSingle'
  BY <1>1 DEF Pairing, UpsertSingle
<1>10. QED
  BY <1>4, <1>5, <1>6, <1>7, <1>8, <1>9 DEF Pairing

LEMMA CreateClientPairing ==
  ASSUME TypeOK, Pairing, Ownership, NEW a \in Callers, CreateClient(a)
  PROVE  Pairing'
<1>1. PICK id \in Todo(a), c \in Clients \ created :
        /\ connOf' = [connOf EXCEPT ![c] = want[a][id]]
        /\ made' = [made EXCEPT ![a][id] = c]
  BY DEF CreateClient
<1>2. /\ id \in Ids /\ want[a][id] # NoConn /\ id \notin reused[a]
      /\ pc' = [pc EXCEPT ![a] = "pinging"] /\ pc[a] = "creating"
      /\ UNCHANGED <<shared, kind, snapshot, want, reused>>
  BY <1>1 DEF CreateClient, Todo
<1>3. /\ made'[a][id] = c
      /\ \A i \in Ids : i # id => made'[a][i] = made[a][i]
      /\ \A b \in Callers : b # a => made'[b] = made[b]
  BY <1>1, <1>2 DEF TypeOK, ClientMap
<1>4. connOf'[c] = want[a][id] /\ \A x \in Clients : x # c => connOf'[x] = connOf[x]
  BY <1>1 DEF TypeOK
<1>5. \A i \in Ids : clients[i] # NoClient => clients[i] # c /\ clients[i] \in Clients
  BY <1>1 DEF Ownership, InstalledOpen, TypeOK, ClientMap
<1>6. \A b \in Callers, i \in Ids : made[b][i] # NoClient =>
        made[b][i] # c /\ made[b][i] \in Clients
  BY <1>1 DEF Ownership, HeldOpen, Held, Values, TypeOK, ClientMap
<1>7. ConnectionsAuthoritative' /\ NoNilClient'
  BY <1>2, <1>4, <1>5 DEF Pairing, ConnectionsAuthoritative, NoNilClient, shared
<1>8. MadeWanted'
  BY <1>2, <1>3, <1>4, <1>6 DEF Pairing, MadeWanted
<1>9. \A b \in Callers : pc'[b] \in {"creating", "pinging"}
                           => pc[b] \in {"creating", "pinging"}
  BY <1>2 DEF TypeOK
<1>10. ReusedKept' /\ SnapshotPast' /\ DesiredFirst' /\ UpsertSingle'
  BY <1>2, <1>9 DEF Pairing, ReusedKept, SnapshotPast, DesiredFirst, UpsertSingle, shared
<1>11. QED
  BY <1>7, <1>8, <1>10 DEF Pairing

LEMMA ApplyCommitPairing ==
  ASSUME IInv, NEW a \in Callers, ApplyCommit(a)
  PROVE  Pairing'
<1>1. TypeOK /\ Pairing /\ UNCHANGED <<phase, connOf>>
  BY DEF IInv, ApplyCommit, pool
<1>2. CASE ~ Current(a)
  <2>1. /\ LeaveClosing(a, "Apply", Abandoned(a))
        /\ UNCHANGED <<clients, configs, desired, desiredSet, generation>>
    BY <1>2 DEF ApplyCommit
  <2>2. MadeWanted' /\ ReusedKept' /\ SnapshotPast' /\ DesiredFirst' /\ UpsertSingle'
    BY <1>1, <2>1, LeavePairing DEF Pairing, DesiredFirst
  <2>3. ConnectionsAuthoritative' /\ NoNilClient'
    BY <1>1, <2>1 DEF Pairing, ConnectionsAuthoritative, NoNilClient
  <2>4. QED
    BY <2>2, <2>3 DEF Pairing
<1>3. CASE Current(a)
  <2>1. /\ clients' = Installed(a) /\ configs' = want[a] /\ desired' = want[a]
        /\ desiredSet' = TRUE /\ generation' = generation + 1
        /\ LeaveClosing(a, "Apply", Replaced(a))
    BY <1>3 DEF ApplyCommit
  <2>2. \A id \in Ids :
          /\ clients'[id] = IF id \in reused[a] THEN clients[id] ELSE made[a][id]
          /\ id \in reused[a] =>
               /\ clients[id] # NoClient
               /\ want[a][id] # NoConn /\ configs[id] = want[a][id]
          /\ id \notin reused[a] => (made[a][id] = NoClient <=> want[a][id] = NoConn)
    BY <1>3, <2>1, ApplyInstalls
  <2>3. \A id \in Ids : made[a][id] # NoClient => connOf[made[a][id]] = want[a][id]
    BY <1>1 DEF Pairing, MadeWanted
  <2>4. ConnectionsAuthoritative'
    BY <1>1, <2>1, <2>2, <2>3 DEF Pairing, ConnectionsAuthoritative
  <2>5. NoNilClient'
    BY <2>1, <2>2 DEF NoNilClient
  <2>6. MadeWanted' /\ ReusedKept' /\ SnapshotPast' /\ DesiredFirst' /\ UpsertSingle'
    BY <1>1, <2>1, LeavePairing
  <2>7. QED
    BY <2>4, <2>5, <2>6 DEF Pairing
<1>4. QED
  BY <1>2, <1>3

LEMMA UpsertCommitPairing ==
  ASSUME IInv, NEW a \in Callers, UpsertCommit(a)
  PROVE  Pairing'
<1>1. /\ TypeOK /\ Pairing /\ pc[a] = "creating"
      /\ UNCHANGED <<phase, desired, desiredSet, generation, connOf>>
  BY DEF IInv, UpsertCommit, pool
<1>2. CASE ~ (Current(a) /\ Allows(want[a]))
  <2>1. LeaveClosing(a, "Upsert", Abandoned(a)) /\ UNCHANGED <<clients, configs>>
    BY <1>2 DEF UpsertCommit
  <2>2. MadeWanted' /\ ReusedKept' /\ SnapshotPast' /\ DesiredFirst' /\ UpsertSingle'
    BY <1>1, <2>1, LeavePairing DEF Pairing, DesiredFirst
  <2>3. ConnectionsAuthoritative' /\ NoNilClient'
    BY <1>1, <2>1 DEF Pairing, ConnectionsAuthoritative, NoNilClient
  <2>4. QED
    BY <2>2, <2>3 DEF Pairing
<1>3. CASE Current(a) /\ Allows(want[a])
  <2>1. \A id \in Ids :
          /\ clients'[id] = IF made[a][id] # NoClient THEN made[a][id] ELSE clients[id]
          /\ configs'[id] = IF made[a][id] # NoClient THEN want[a][id] ELSE configs[id]
    BY <1>3 DEF UpsertCommit, Target
  <2>2. LeaveClosing(a, "Upsert", Old(a))
    BY <1>3 DEF UpsertCommit
  <2>3. \A id \in Ids : made[a][id] # NoClient =>
          /\ want[a][id] # NoConn /\ connOf[made[a][id]] = want[a][id]
          /\ want[a][id] = desired[id]
    BY <1>1, <1>3 DEF Pairing, MadeWanted, DesiredFirst, Allows
  <2>4. ConnectionsAuthoritative' /\ NoNilClient'
    BY <1>1, <2>1, <2>3 DEF Pairing, ConnectionsAuthoritative, NoNilClient
  <2>5. \A id \in Ids : clients[id] # NoClient =>
          clients'[id] # NoClient /\ configs'[id] = configs[id]
    BY <1>1, <2>1, <2>3 DEF Pairing, ConnectionsAuthoritative
  <2>6. MadeWanted' /\ ReusedKept' /\ SnapshotPast' /\ DesiredFirst' /\ UpsertSingle'
    BY <1>1, <2>2, <2>5, LeavePairing DEF Pairing, DesiredFirst
  <2>7. QED
    BY <2>4, <2>6 DEF Pairing
<1>4. QED
  BY <1>2, <1>3

-----------------------------------------------------------------------------
(* The inductive invariant.                                                *)

LEMMA InitInv == Init => IInv
<1> SUFFICES ASSUME Init PROVE IInv
  OBVIOUS
<1>1. TypeOK
  BY TypeInit
<1>2. \A a \in Callers : Held(a) = {} /\ made[a] = NoClients /\ closing[a] = {}
  BY NoClientsEmpty DEF Init, Held
<1>3. Ownership
  BY <1>2 DEF Init, Ownership, LocalShape, InstalledOpen, InstalledOnce, HeldOpen,
              HeldOnce, MadeOnce, ClosedOnce, UncreatedUnclosed, NoLeak, NoClients
<1>4. Pairing
  BY <1>2 DEF Init, Pairing, ConnectionsAuthoritative, NoNilClient, MadeWanted,
              ReusedKept, SnapshotPast, DesiredFirst, UpsertSingle,
              NoClients, NoConns
<1>5. QED
  BY <1>1, <1>3, <1>4 DEF IInv

LEMMA NextInv == ASSUME IInv, [Next]_vars PROVE IInv'
<1>1. TypeOK /\ Ownership /\ Pairing /\ TypeOK'
  BY TypeStep DEF IInv
<1>2. CASE UNCHANGED vars
  <2>1. Ownership'
    BY <1>1, <1>2 DEF vars, shared, pool, local, Ownership, LocalShape, InstalledOpen,
       InstalledOnce, HeldOpen, HeldOnce, MadeOnce, ClosedOnce, UncreatedUnclosed,
       NoLeak, Held
  <2>2. Pairing'
    BY <1>1, <1>2 DEF vars, shared, pool, local, Pairing, ConnectionsAuthoritative,
       NoNilClient, MadeWanted, ReusedKept, SnapshotPast, DesiredFirst, UpsertSingle
  <2>3. QED
    BY <1>1, <2>1, <2>2 DEF IInv
<1>3. ASSUME NEW a \in Callers, NEW w \in ConnMap, NEW keep \in SUBSET Ids,
             NEW op \in {"Apply", "Upsert"}, pc[a] = "idle", Enter(a, op, w, keep),
             UNCHANGED <<shared, pool>>
      PROVE  Ownership'
  <2>1. /\ made' = made /\ closing' = closing /\ kind'[a] = op
        /\ pc'[a] = "creating"
        /\ \A b \in Callers : b # a => pc'[b] = pc[b] /\ kind'[b] = kind[b]
    BY <1>1, <1>3 DEF Enter, TypeOK
  <2>2. LocalShape'
    BY <1>1, <1>3, <2>1 DEF Ownership, LocalShape, NoClients
  <2>3. \A b \in Callers : Held(b)' = Held(b)
    BY <2>1 DEF Held
  <2>4. QED
    BY <1>1, <1>3, <2>1, <2>2, <2>3 DEF Ownership, InstalledOpen, InstalledOnce,
       HeldOpen, HeldOnce, MadeOnce, ClosedOnce, UncreatedUnclosed, NoLeak, shared, pool
<1>4. ASSUME NEW a \in Callers, NEW w \in ConnMap, ApplyBegin(a, w) PROVE IInv'
  <2>1. /\ Reusable(w) \in SUBSET Ids /\ pc[a] = "idle" /\ phase = "serve"
        /\ Enter(a, "Apply", w, Reusable(w)) /\ UNCHANGED <<shared, pool>>
    BY <1>4 DEF ApplyBegin, CanBegin, Reusable
  <2>2. desiredSet
    BY <1>1, <2>1 DEF Pairing, DesiredFirst
  <2>3. Ownership' /\ Pairing'
    BY <1>1, <1>3, <2>1, <2>2, BeginPairing
  <2>4. QED
    BY <1>1, <2>3 DEF IInv
<1>5. ASSUME NEW a \in Callers, NEW id \in Ids, NEW conn \in Conns,
             UpsertBegin(a, id, conn)
      PROVE  IInv'
  <2>1. /\ Only(id, conn) \in ConnMap /\ pc[a] = "idle" /\ phase # "new"
        /\ Enter(a, "Upsert", Only(id, conn), {}) /\ UNCHANGED <<shared, pool>>
        /\ \A i, j \in Ids : Only(id, conn)[i] # NoConn /\ Only(id, conn)[j] # NoConn
                              => i = j
    BY <1>5 DEF UpsertBegin, CanBegin, Only, ConnMap
  <2>2. desiredSet
    BY <1>1, <2>1 DEF Pairing, DesiredFirst
  <2>3. Ownership' /\ Pairing'
    BY <1>1, <1>3, <2>1, <2>2, BeginPairing
  <2>4. QED
    BY <1>1, <2>3 DEF IInv
<1>6. ASSUME NEW a \in Callers, NEW w \in ConnMap, SetDesired(a, w) PROVE IInv'
  <2>1. /\ Undesired(w) \in SUBSET Ids /\ pc[a] = "idle" /\ Remove(a, Undesired(w))
        /\ desired' = w /\ desiredSet' = TRUE /\ generation' = generation + 1
        /\ UNCHANGED <<created, closes, connOf>>
    BY <1>6 DEF SetDesired, CanBegin, Undesired, pool
  <2>2. \A id \in Ids \ Undesired(w) : clients[id] # NoClient => configs[id] = w[id]
    BY DEF Undesired
  <2>3. Ownership'
    BY <1>1, <2>1, RemoveOwnership
  <2>4. Pairing'
    BY <1>1, <2>1, <2>2, RemovePairing
  <2>5. QED
    BY <1>1, <2>3, <2>4 DEF IInv
<1>7. ASSUME NEW a \in Callers, Retain(a) PROVE IInv'
  <2> DEFINE gone == {id \in Ids : clients[id] # NoClient /\ desired[id] = NoConn}
  <2>1. gone = {}
    BY <1>1 DEF Pairing, ConnectionsAuthoritative, NoNilClient
  <2>2. /\ pc[a] = "idle" /\ Remove(a, gone) /\ generation' = generation
        /\ UNCHANGED <<desired, desiredSet, created, closes, connOf>>
        /\ phase # "new"
    BY <1>7, <2>1 DEF Retain, Alone, pool
  <2>3. desiredSet'
    BY <1>1, <2>2 DEF Pairing, DesiredFirst
  <2> HIDE DEF gone
  <2>4. Ownership'
    BY <1>1, <2>1, <2>2, RemoveOwnership
  <2>5. \A id \in Ids \ gone : clients[id] # NoClient => configs[id] = desired'[id]
    BY <1>1, <2>2 DEF Pairing, ConnectionsAuthoritative
  <2>6. Pairing'
    BY <1>1, <2>1, <2>2, <2>3, <2>5, RemovePairing
  <2>7. QED
    BY <1>1, <2>4, <2>6 DEF IInv
<1>8. ASSUME NEW a \in Callers, Close(a) PROVE IInv'
  <2> DEFINE gone == {id \in Ids : clients[id] # NoClient}
  <2>1. /\ pc[a] = "idle" /\ Remove(a, gone) /\ desiredSet' = TRUE
        /\ generation' = generation + 1 /\ UNCHANGED <<created, closes, connOf>>
    BY <1>8 DEF Close, CanBegin, pool
  <2>2. /\ gone \in SUBSET Ids
        /\ \A id \in Ids \ gone : clients[id] # NoClient => configs[id] = desired'[id]
    OBVIOUS
  <2> HIDE DEF gone
  <2>3. Ownership'
    BY <1>1, <2>1, <2>2, RemoveOwnership
  <2>4. Pairing'
    BY <1>1, <2>1, <2>2, RemovePairing
  <2>5. QED
    BY <1>1, <2>3, <2>4 DEF IInv
<1>9. ASSUME NEW a \in Callers, CreateClient(a) PROVE IInv'
  BY <1>1, <1>9, CreateClientOwnership, CreateClientPairing DEF IInv
<1>10. ASSUME NEW a \in Callers, PingOK(a) PROVE IInv'
  <2>1. /\ pc[a] = "pinging" /\ pc' = [pc EXCEPT ![a] = "creating"]
        /\ UNCHANGED <<shared, pool, kind, snapshot, want, reused, made, closing>>
    BY <1>10 DEF PingOK
  <2>2. LocalShape'
    BY <1>1, <2>1 DEF Ownership, LocalShape, TypeOK
  <2>3. \A b \in Callers : Held(b)' = Held(b)
    BY <2>1 DEF Held
  <2>4. Ownership'
    BY <1>1, <2>1, <2>2, <2>3 DEF Ownership, InstalledOpen, InstalledOnce,
       HeldOpen, HeldOnce, MadeOnce, ClosedOnce, UncreatedUnclosed, NoLeak, shared, pool
  <2>5. \A b \in Callers : pc'[b] \in {"creating", "pinging"}
                             => pc[b] \in {"creating", "pinging"}
    BY <1>1, <2>1 DEF TypeOK
  <2>6. Pairing'
    BY <1>1, <2>1, <2>5 DEF Pairing, ConnectionsAuthoritative, NoNilClient, MadeWanted,
       ReusedKept, SnapshotPast, DesiredFirst, UpsertSingle, shared, pool
  <2>7. QED
    BY <1>1, <2>4, <2>6 DEF IInv
<1>11. ASSUME NEW a \in Callers, Fail(a) PROVE IInv'
  <2>1. /\ pc[a] \in {"creating", "pinging"}
        /\ LeaveClosing(a, kind[a], Abandoned(a)) /\ UNCHANGED <<shared, pool>>
    BY <1>11 DEF Fail
  <2>2. Ownership'
    BY <1>1, <2>1, AbandonOwnership DEF shared, pool
  <2>3. UNCHANGED <<clients, configs, desired, desiredSet, generation, phase, connOf>>
    BY <2>1 DEF shared, pool
  <2>4. ConnectionsAuthoritative' /\ NoNilClient'
    BY <1>1, <2>3 DEF Pairing, ConnectionsAuthoritative, NoNilClient
  <2>5. MadeWanted' /\ ReusedKept' /\ SnapshotPast' /\ DesiredFirst' /\ UpsertSingle'
    BY <1>1, <2>1, <2>3, LeavePairing DEF Pairing, DesiredFirst
  <2>6. QED
    BY <1>1, <2>2, <2>4, <2>5 DEF IInv, Pairing
<1>12. ASSUME NEW a \in Callers, ApplyCommit(a) PROVE IInv'
  BY <1>1, <1>12, ApplyCommitOwnership, ApplyCommitPairing DEF IInv
<1>13. ASSUME NEW a \in Callers, UpsertCommit(a) PROVE IInv'
  BY <1>1, <1>13, UpsertCommitOwnership, UpsertCommitPairing DEF IInv
<1>14. ASSUME NEW a \in Callers, CloseClient(a) PROVE IInv'
  <2>1. Ownership'
    BY <1>1, <1>14, CloseClientOwnership
  <2>2. PICK c \in closing[a] : LeaveClosing(a, kind[a], closing[a] \ {c})
    BY <1>14 DEF CloseClient
  <2>3. UNCHANGED <<clients, configs, desired, desiredSet, generation, phase, connOf>>
    BY <1>14 DEF CloseClient, shared
  <2>4. ConnectionsAuthoritative' /\ NoNilClient'
    BY <1>1, <2>3 DEF Pairing, ConnectionsAuthoritative, NoNilClient
  <2>5. MadeWanted' /\ ReusedKept' /\ SnapshotPast' /\ DesiredFirst' /\ UpsertSingle'
    BY <1>1, <2>2, <2>3, LeavePairing DEF Pairing, DesiredFirst
  <2>6. QED
    BY <1>1, <2>1, <2>4, <2>5 DEF IInv, Pairing
<1>15. QED
  BY <1>2, <1>4, <1>5, <1>6, <1>7, <1>8, <1>9, <1>10, <1>11, <1>12, <1>13, <1>14
  DEF Next, Begin, Proceed

LEMMA Invariance == Spec => []IInv
BY InitInv, NextInv, PTL DEF Spec

(* A client read from the map is open, and nobody is about to close it.    *)
THEOREM ClientsInMapAreOpen == Spec => []InstalledOpen
<1>1. IInv => InstalledOpen
  BY DEF IInv, Ownership
<1>2. QED
  BY <1>1, Invariance, PTL

(* No client is ever closed a second time.                                 *)
THEOREM NoDoubleClose == Spec => []ClosedOnce
<1>1. IInv => ClosedOnce
  BY DEF IInv, Ownership
<1>2. QED
  BY <1>1, Invariance, PTL

(* No open client is ever forgotten.                                       *)
THEOREM NoClientLeaks == Spec => []NoLeak
<1>1. IInv => NoLeak
  BY DEF IInv, Ownership
<1>2. QED
  BY <1>1, Invariance, PTL

(* A stale Upsert or Apply never changes what a cluster connects with: the *)
(* connection in use always has the authoritative settings.                *)
THEOREM AuthoritativeConnections == Spec => []ConnectionsAuthoritative
<1>1. IInv => ConnectionsAuthoritative
  BY DEF IInv, Pairing
<1>2. QED
  BY <1>1, Invariance, PTL

(* Apply never stores a nil client for a cluster it decided to reuse.      *)
THEOREM ReusedClientsExist == Spec => []NoNilClient
<1>1. IInv => NoNilClient
  BY DEF IInv, Pairing
<1>2. QED
  BY <1>1, Invariance, PTL

-----------------------------------------------------------------------------
(* What a single step does to the map: the case analysis that the action   *)
(* property and the refinement share.                                      *)

(* An Apply that commits connects every wanted id with what it wants.      *)
LEMMA ApplyCommitConnects ==
  ASSUME IInv, NEW a \in Callers, ApplyCommit(a), Current(a)
  PROVE  /\ desired' = want[a] /\ want[a] \in ConnMap
         /\ Connected' = want[a]
<1>1. /\ clients' = Installed(a) /\ configs' = want[a] /\ desired' = want[a]
      /\ want[a] \in ConnMap
  BY DEF ApplyCommit, IInv, TypeOK
<1>2. ConnectionsAuthoritative' /\ NoNilClient'
  BY ApplyCommitPairing DEF Pairing
<1>3. \A id \in Ids : Connected'[id] = want[a][id]
  BY <1>1, <1>2 DEF Connected, ConnectionsAuthoritative, NoNilClient
<1>4. Connected' = [id \in Ids |-> Connected'[id]]
  BY DEF Connected
<1>5. want[a] = [id \in Ids |-> want[a][id]]
  BY <1>1 DEF ConnMap
<1>6. QED
  BY <1>1, <1>3, <1>4, <1>5

(* What Remove leaves connected.                                           *)
LEMMA RemoveConnected ==
  ASSUME IInv, NEW a \in Callers, NEW S \in SUBSET Ids, Remove(a, S), UNCHANGED connOf
  PROVE  Connected' = [id \in Ids |-> IF id \in S THEN NoConn ELSE Connected[id]]
<1>1. \A id \in Ids : clients'[id] = IF id \in S THEN NoClient ELSE clients[id]
  BY DEF Remove
<1>2. QED
  BY <1>1 DEF Connected

(* Every step that changes the map or the authoritative settings is one of *)
(* four.                                                                   *)
LEMMA StepCases ==
  ASSUME IInv, [Next]_vars
  PROVE  \/ desired' = desired /\ Connected' = Connected
            /\ \A id \in Ids : clients[id] # NoClient => clients'[id] # NoClient
         \/ \E w \in ConnMap : /\ desired' = w /\ Connected' = w
                               /\ \A id \in Ids : clients'[id] = NoClient
                                                    <=> w[id] = NoConn
         \/ \E w \in ConnMap : /\ desired' = w
                               /\ Connected' = [id \in Ids |->
                                    IF Connected[id] = w[id] THEN w[id] ELSE NoConn]
                               /\ \A id \in Ids :
                                    clients[id] # NoClient /\ w[id] = desired[id]
                                      => clients'[id] # NoClient
         \/ /\ desired' = desired
            /\ \E id \in Ids : Connected' = [Connected EXCEPT ![id] = desired[id]]
            /\ \A id \in Ids : clients[id] # NoClient => clients'[id] # NoClient
<1>1. TypeOK /\ Ownership /\ Pairing
  BY DEF IInv
<1>2. ASSUME UNCHANGED <<clients, desired, connOf>>
      PROVE  /\ desired' = desired /\ Connected' = Connected
             /\ \A id \in Ids : clients[id] # NoClient => clients'[id] # NoClient
  BY <1>2 DEF Connected
<1>3. CASE UNCHANGED vars
  BY <1>2, <1>3 DEF vars, shared, pool
<1>4. ASSUME NEW a \in Callers, NEW w \in ConnMap, ApplyBegin(a, w)
      PROVE  UNCHANGED <<clients, desired, connOf>>
  BY <1>4 DEF ApplyBegin, shared, pool
<1>5. ASSUME NEW a \in Callers, NEW id \in Ids, NEW conn \in Conns,
             UpsertBegin(a, id, conn)
      PROVE  UNCHANGED <<clients, desired, connOf>>
  BY <1>5 DEF UpsertBegin, shared, pool
<1>6. ASSUME NEW a \in Callers, PingOK(a) \/ Fail(a) \/ CloseClient(a)
      PROVE  UNCHANGED <<clients, desired, connOf>>
  BY <1>6 DEF PingOK, Fail, CloseClient, shared, pool
<1>7. ASSUME NEW a \in Callers, CreateClient(a)
      PROVE  /\ desired' = desired /\ Connected' = Connected
             /\ \A id \in Ids : clients[id] # NoClient => clients'[id] # NoClient
  <2>1. PICK id \in Todo(a), c \in Clients \ created :
          connOf' = [connOf EXCEPT ![c] = want[a][id]]
    BY <1>7 DEF CreateClient
  <2>2. UNCHANGED <<clients, desired>>
    BY <1>7 DEF CreateClient, shared
  <2>3. \A i \in Ids : clients[i] # NoClient => connOf'[clients[i]] = connOf[clients[i]]
    BY <1>1, <2>1 DEF Ownership, InstalledOpen, TypeOK, ClientMap
  <2>4. QED
    BY <2>2, <2>3 DEF Connected
<1>8. ASSUME NEW a \in Callers, NEW S \in SUBSET Ids, NEW w \in ConnMap,
             Remove(a, S), UNCHANGED connOf, desired' = w,
             S = Undesired(w)
      PROVE  /\ Connected' = [id \in Ids |->
                                IF Connected[id] = w[id] THEN w[id] ELSE NoConn]
             /\ \A id \in Ids : clients[id] # NoClient /\ w[id] = desired[id]
                                  => clients'[id] # NoClient
  <2>1. Connected' = [id \in Ids |-> IF id \in S THEN NoConn ELSE Connected[id]]
    BY <1>8, RemoveConnected
  <2>2. \A id \in Ids : (IF id \in S THEN NoConn ELSE Connected[id])
                          = IF Connected[id] = w[id] THEN w[id] ELSE NoConn
    BY <1>1, <1>8 DEF Undesired, Connected, Pairing, ConnectionsAuthoritative,
                      NoNilClient
  <2>3. \A id \in Ids : clients'[id] = IF id \in S THEN NoClient ELSE clients[id]
    BY <1>8 DEF Remove
  <2>4. \A id \in Ids : clients[id] # NoClient /\ w[id] = desired[id] => id \notin S
    BY <1>1, <1>8 DEF Undesired, Pairing, ConnectionsAuthoritative, NoNilClient
  <2>5. QED
    BY <2>1, <2>2, <2>3, <2>4
<1>9. ASSUME NEW a \in Callers, NEW w \in ConnMap, SetDesired(a, w)
      PROVE  /\ desired' = w
             /\ Connected' = [id \in Ids |->
                                IF Connected[id] = w[id] THEN w[id] ELSE NoConn]
             /\ \A id \in Ids : clients[id] # NoClient /\ w[id] = desired[id]
                                  => clients'[id] # NoClient
  <2>1. /\ Undesired(w) \in SUBSET Ids /\ Remove(a, Undesired(w)) /\ UNCHANGED connOf
        /\ desired' = w
    BY <1>9 DEF SetDesired, Undesired, pool
  <2>2. QED
    BY <1>8, <2>1
<1>10. ASSUME NEW a \in Callers, Close(a)
       PROVE  /\ NoConns \in ConnMap /\ desired' = NoConns
              /\ Connected' = [id \in Ids |->
                                IF Connected[id] = NoConns[id] THEN NoConns[id]
                                                               ELSE NoConn]
              /\ \A id \in Ids : clients[id] # NoClient /\ NoConns[id] = desired[id]
                                   => clients'[id] # NoClient
  <2>1. NoConns \in ConnMap
    BY DEF NoConns, ConnMap
  <2>2. Undesired(NoConns) = {id \in Ids : clients[id] # NoClient}
    BY DEF Undesired, NoConns
  <2>3. /\ Undesired(NoConns) \in SUBSET Ids /\ Remove(a, Undesired(NoConns))
        /\ UNCHANGED connOf /\ desired' = NoConns
    BY <1>10, <2>2 DEF Close, pool
  <2>4. QED
    BY <1>8, <2>1, <2>3
<1>11. ASSUME NEW a \in Callers, Retain(a)
       PROVE  /\ desired' = desired /\ Connected' = Connected
              /\ \A id \in Ids : clients[id] # NoClient => clients'[id] # NoClient
  <2> DEFINE gone == {id \in Ids : clients[id] # NoClient /\ desired[id] = NoConn}
  <2>1. gone = {}
    BY <1>1 DEF Pairing, ConnectionsAuthoritative, NoNilClient
  <2>2. Remove(a, gone) /\ UNCHANGED <<desired, connOf>>
    BY <1>11 DEF Retain, pool
  <2>3. \A id \in Ids : clients'[id] = clients[id]
    BY <2>1, <2>2 DEF Remove
  <2>4. QED
    BY <2>2, <2>3 DEF Connected
<1>12. ASSUME NEW a \in Callers, ApplyCommit(a), ~ Current(a)
       PROVE  UNCHANGED <<clients, desired, connOf>>
  BY <1>12 DEF ApplyCommit, pool
<1>13. ASSUME NEW a \in Callers, ApplyCommit(a), Current(a)
       PROVE  /\ want[a] \in ConnMap /\ desired' = want[a] /\ Connected' = want[a]
              /\ \A id \in Ids : clients'[id] = NoClient <=> want[a][id] = NoConn
  <2>1. clients' = Installed(a)
    BY <1>13 DEF ApplyCommit
  <2>2. \A id \in Ids : clients'[id] = NoClient <=> want[a][id] = NoConn
    BY <1>13, <2>1, ApplyInstalls
  <2>3. QED
    BY <1>13, <2>2, ApplyCommitConnects
<1>14. ASSUME NEW a \in Callers, UpsertCommit(a), ~ (Current(a) /\ Allows(want[a]))
       PROVE  UNCHANGED <<clients, desired, connOf>>
  BY <1>14 DEF UpsertCommit, pool
<1>15. ASSUME NEW a \in Callers, UpsertCommit(a), Current(a) /\ Allows(want[a])
       PROVE  \/ UNCHANGED <<clients, desired, connOf>>
              \/ /\ desired' = desired
                 /\ \E id \in Ids : Connected' = [Connected EXCEPT ![id] = desired[id]]
                 /\ \A id \in Ids : clients[id] # NoClient => clients'[id] # NoClient
  <2>1. /\ kind[a] = "Upsert" /\ pc[a] = "creating"
        /\ UNCHANGED <<desired, connOf, desiredSet>>
        /\ clients' = [id \in Ids |-> IF id \in Target(a) THEN made[a][id]
                                                           ELSE clients[id]]
    BY <1>15 DEF UpsertCommit, pool
  <2>2. \A i \in Target(a) : /\ i \in Ids /\ made[a][i] # NoClient
                             /\ want[a][i] # NoConn /\ connOf[made[a][i]] = want[a][i]
                             /\ want[a][i] = desired[i]
    BY <1>1, <1>15, <2>1 DEF Target, Pairing, MadeWanted, DesiredFirst, Allows
  <2>3. \A i, j \in Target(a) : i = j
    BY <1>1, <2>1, <2>2 DEF Pairing, UpsertSingle
  <2>4. \A id \in Ids : clients[id] # NoClient => clients'[id] # NoClient
    BY <2>1, <2>2
  <2>5. CASE Target(a) = {}
    <3>1. \A id \in Ids : clients'[id] = clients[id]
      BY <2>1, <2>5
    <3>2. clients' = clients
      BY <1>1, <2>1, <3>1 DEF TypeOK, ClientMap
    <3>3. QED
      BY <2>1, <3>2
  <2>6. ASSUME NEW i \in Target(a)
        PROVE  Connected' = [Connected EXCEPT ![i] = desired[i]]
    <3>1. \A id \in Ids : Connected'[id] = IF id = i THEN desired[i] ELSE Connected[id]
      BY <2>1, <2>2, <2>3, <2>6 DEF Connected
    <3>2. Connected' = [id \in Ids |-> IF id = i THEN desired[i] ELSE Connected[id]]
      BY <3>1 DEF Connected
    <3>3. QED
      BY <2>2, <3>2 DEF Connected
  <2>7. QED
    BY <2>1, <2>2, <2>4, <2>5, <2>6
<1>16. QED
  BY <1>2, <1>3, <1>4, <1>5, <1>6, <1>7, <1>9, <1>10, <1>11, <1>12, <1>13, <1>14, <1>15
  DEF Next, Begin, Proceed

(* A cluster whose settings a reconfiguration leaves alone is not          *)
(* disconnected by it.                                                     *)
THEOREM UnchangedClustersStayConnected == Spec => UnchangedStaysConnected
<1>1. IInv /\ [Next]_vars =>
        [\A id \in Ids : clients[id] # NoClient /\ desired'[id] = desired[id]
                           => clients'[id] # NoClient]_vars
  <2> SUFFICES ASSUME IInv, [Next]_vars, NEW id \in Ids,
                      clients[id] # NoClient, desired'[id] = desired[id]
               PROVE  clients'[id] # NoClient
    OBVIOUS
  <2>1. desired[id] # NoConn
    BY DEF IInv, Pairing, ConnectionsAuthoritative, NoNilClient
  <2>2. QED
    BY <2>1, StepCases
<1>2. QED
  BY <1>1, Invariance, PTL DEF Spec, UnchangedStaysConnected

(* The manager implements the abstract pool: with Connected as the         *)
(* settings in use, each step is a Switch, a Narrow, a Connect or nothing. *)
THEOREM ImplementsClientPool == Spec => PoolSpec
<1>1. Init => Pool!Init
  BY DEF Init, Pool!Init, Connected, NoClients, NoConns
<1>2. IInv /\ [Next]_vars => [Pool!Next]_<<desired, Connected>>
  <2> SUFFICES ASSUME IInv, [Next]_vars PROVE [Pool!Next]_<<desired, Connected>>
    OBVIOUS
  <2>1. ConnMap = Pool!ConnMap
    BY DEF ConnMap, Pool!ConnMap
  <2>2. QED
    BY <2>1, StepCases DEF Pool!Next, Pool!Switch, Pool!Narrow, Pool!Connect
<1>3. QED
  BY <1>1, <1>2, Invariance, PTL DEF Spec, PoolSpec, Pool!Spec
=============================================================================
