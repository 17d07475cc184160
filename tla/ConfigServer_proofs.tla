------------------------ MODULE ConfigServer_proofs -------------------------
(***************************************************************************)
(* Proofs about ConfigServer: what holds of the manager on its own holds   *)
(* in the running program, and configTxn makes the transactions atomic.    *)
(* For every set of clusters, settings, clients, writers and handlers.     *)
(***************************************************************************)
EXTENDS ConfigServer, ClusterManager_proofs

-----------------------------------------------------------------------------
(* The invariant.                                                          *)

(* Caller a is in the part of an operation that ends in a commit.          *)
Busy(a) == pc[a] \in {"creating", "pinging"}

Inside == {"deciding", "applying", "saving", "updating", "restoring", "narrowing"}

(* The program serves: somebody has said what is desired.                  *)
Serving == phase = "serve" /\ desiredSet = TRUE

(* Only transactions apply, only the sampler upserts.                      *)
Division ==
  /\ \A p \in Procs : Busy(p) => kind[p] = "Apply" /\ snapshot[p] = generation
  /\ Busy(Sampler) => kind[Sampler] = "Upsert"

(* The transaction that is open is the only one inside the manager.        *)
Exclusive ==
  \A p \in Procs :
    /\ txn = p <=> stage[p] \in Inside
    /\ pc[p] # "idle" => stage[p] \in {"applying", "restoring", "narrowing"}
    /\ stage[p] = "narrowing" => ~ Busy(p)

(* How far the manager has got on the way from the configuration before    *)
(* to the one that is asked for, or back.                                  *)
Progress(p) ==
  /\ stage[p] \in Inside => prev[p] = cfg
  /\ stage[p] \in {"deciding", "narrowing"} => desired = cfg.conns
  /\ stage[p] = "applying" =>
       IF Busy(p) THEN want[p] = job[p].conns /\ desired = cfg.conns
                  ELSE desired = IF result[p] = "ok" THEN job[p].conns ELSE cfg.conns
  /\ stage[p] = "saving" =>
       desired = job[p].conns /\ (result[p] # "ok" => desired = cfg.conns)
  /\ stage[p] = "updating" => desired = job[p].conns
  /\ stage[p] = "restoring" =>
       IF Busy(p) THEN want[p] = cfg.conns
                  ELSE result[p] = "ok" => desired = cfg.conns

Transactions ==
  /\ monitor = cfg.conns
  /\ txn = Nobody => desired = cfg.conns
  /\ \A p \in Procs : Progress(p)

(* What a handler has read holds while it is under the lock, and of its    *)
(* client ever after.                                                      *)
HandlerHolds(h) ==
  /\ Reading(h) => txn = Nobody /\ request[h].id \in Ids
  /\ request[h].at \in {"forRead", "forWrite"} =>
       request[h].conn = cfg.conns[request[h].id]
  /\ request[h].at = "forWrite" => Writable(request[h].id)
  /\ request[h].at \in {"read", "write"} =>
       request[h].client \in created /\ connOf[request[h].client] = request[h].conn
Requests == \A h \in Handlers : HandlerHolds(h)

(* The worker knows its cluster, and its client once it asks it.           *)
Sampling ==
  /\ sampling.at # "idle" => sampling.id \in Ids /\ sampling.conn \in Conns
  /\ sampling.at \in {"query", "online"} => sampling.client \in Clients

SInv == /\ ServerTypeOK /\ IInv
        /\ Serving /\ Division /\ Exclusive /\ Transactions /\ Requests /\ Sampling

-----------------------------------------------------------------------------
(* The manager inside the program.                                         *)

(* What a step of an operation in flight does to what a transaction sees.  *)
Works(a) == /\ Busy(a) /\ Busy(a)'
            /\ UNCHANGED <<kind, snapshot, want, result, desired, generation>>
Closes(a) == /\ pc[a] = "closing" /\ ~ Busy(a)'
             /\ UNCHANGED <<result, desired, generation>>
Fails(a) == /\ Busy(a) /\ ~ Busy(a)' /\ result'[a] = "error"
            /\ UNCHANGED <<desired, generation>>
Applies(a) == /\ Busy(a) /\ kind[a] = "Apply" /\ ~ Busy(a)'
              /\ Current(a) => desired' = want[a] /\ result'[a] = "ok"
Upserts(a) == /\ Busy(a) /\ kind[a] = "Upsert" /\ ~ Busy(a)'
              /\ UNCHANGED <<desired, generation>>

(* A step of caller a leaves the locals of the others alone.               *)
Local(a) == \A b \in Callers : b # a =>
              /\ pc'[b] = pc[b] /\ kind'[b] = kind[b] /\ snapshot'[b] = snapshot[b]
              /\ want'[b] = want[b] /\ result'[b] = result[b]

(* Clients that exist keep their settings.                                 *)
Keeps == /\ created \subseteq created'
         /\ \A c \in created : connOf'[c] = connOf[c]

LEMMA CallerFacts ==
  /\ Callers = Procs \cup {Sampler} /\ Sampler \notin Procs
  /\ Watcher \in Procs /\ Writers \subseteq Procs /\ Nobody \notin Procs
BY ServerAssumption DEF Procs

LEMMA ConfigFacts ==
  /\ \A f \in Configs : /\ f.conns \in ConnMap /\ f.readOnly \in SUBSET Ids
                       /\ f # Torn
BY ServerAssumption

LEMMA ManagerEffect ==
  ASSUME SInv, NEW a \in Callers, ManagerStep(a)
  PROVE  /\ IInv' /\ Serving' /\ Local(a) /\ Keeps
         /\ UNCHANGED <<server, dashboard, file, hash, request, writes>>
         /\ result' \in [Callers -> {"none", "ok", "error"}]
         /\ Works(a) \/ Closes(a) \/ Fails(a) \/ Applies(a) \/ Upserts(a)
<1>1. TypeOK /\ IInv /\ Serving /\ result \in [Callers -> {"none", "ok", "error"}]
  BY DEF SInv, IInv, ServerTypeOK
<1>2. UNCHANGED <<server, dashboard, file, hash, request, writes>>
  BY DEF ManagerStep
<1>3. CASE CreateClient(a) /\ UNCHANGED result
  <2>1. Next
    BY <1>3 DEF Next, Proceed
  <2>2. Keeps
    BY <1>1, <1>3 DEF CreateClient, Keeps, TypeOK
  <2>3. Serving'
    BY <1>1, <1>3 DEF CreateClient, Serving, shared
  <2>4. Local(a) /\ Works(a)
    BY <1>1, <1>3 DEF CreateClient, Local, Works, Busy, shared, TypeOK
  <2>5. QED
    BY <1>1, <1>2, <1>3, <2>1, <2>2, <2>3, <2>4, NextInv
<1>4. CASE PingOK(a) /\ UNCHANGED result
  <2>1. Next
    BY <1>4 DEF Next, Proceed
  <2>2. Keeps /\ Serving'
    BY <1>1, <1>4 DEF PingOK, Keeps, Serving, shared, pool
  <2>3. Local(a) /\ Works(a)
    BY <1>1, <1>4 DEF PingOK, Local, Works, Busy, shared, TypeOK
  <2>4. QED
    BY <1>1, <1>2, <1>4, <2>1, <2>2, <2>3, NextInv
<1>5. CASE CloseClient(a) /\ UNCHANGED result
  <2>1. Next
    BY <1>5 DEF Next, Proceed
  <2>2. Keeps /\ Serving'
    BY <1>1, <1>5 DEF CloseClient, Keeps, Serving, shared
  <2>3. PICK S : LeaveClosing(a, kind[a], S)
    BY <1>5 DEF CloseClient
  <2>4. Local(a) /\ Closes(a)
    BY <1>1, <1>5, <2>3, LeaveClosingLocals DEF CloseClient, Local, Closes, Busy, shared
  <2>5. QED
    BY <1>1, <1>2, <1>5, <2>1, <2>2, <2>4, NextInv
<1>6. CASE Fail(a) /\ Ended(a, "error")
  <2>1. Next
    BY <1>6 DEF Next, Proceed
  <2>2. Keeps /\ Serving'
    BY <1>1, <1>6 DEF Fail, Keeps, Serving, shared, pool
  <2>3. Local(a) /\ Fails(a)
    BY <1>1, <1>6, LeaveClosingLocals DEF Fail, Ended, Local, Fails, Busy, shared
  <2>4. result' \in [Callers -> {"none", "ok", "error"}]
    BY <1>1, <1>6 DEF Ended
  <2>5. QED
    BY <1>1, <1>2, <2>1, <2>2, <2>3, <2>4, NextInv
<1>7. CASE ApplyCommit(a) /\ Ended(a, IF Current(a) THEN "ok" ELSE "error")
  <2>1. Next
    BY <1>7 DEF Next, Proceed
  <2>2. Keeps /\ Serving'
    BY <1>1, <1>7 DEF ApplyCommit, Keeps, Serving, pool
  <2>3. PICK S : LeaveClosing(a, "Apply", S)
    BY <1>7 DEF ApplyCommit
  <2>4. Local(a) /\ ~ Busy(a)'
    BY <1>1, <1>7, <2>3, LeaveClosingLocals DEF Ended, Local, Busy
  <2>5. Applies(a)
    BY <1>1, <1>7, <2>4 DEF ApplyCommit, Ended, Applies, Busy
  <2>6. result' \in [Callers -> {"none", "ok", "error"}]
    BY <1>1, <1>7 DEF Ended
  <2>7. QED
    BY <1>1, <1>2, <2>1, <2>2, <2>4, <2>5, <2>6, NextInv
<1>8. CASE /\ UpsertCommit(a)
           /\ Ended(a, IF Current(a) /\ Allows(want[a]) THEN "ok" ELSE "error")
  <2>1. Next
    BY <1>8 DEF Next, Proceed
  <2>2. Keeps /\ Serving'
    BY <1>1, <1>8 DEF UpsertCommit, Keeps, Serving, pool
  <2>3. PICK S : LeaveClosing(a, "Upsert", S)
    BY <1>8 DEF UpsertCommit
  <2>4. Local(a) /\ ~ Busy(a)'
    BY <1>1, <1>8, <2>3, LeaveClosingLocals DEF Ended, Local, Busy
  <2>5. Upserts(a)
    BY <1>1, <1>8, <2>4 DEF UpsertCommit, Upserts, Busy
  <2>6. result' \in [Callers -> {"none", "ok", "error"}]
    BY <1>1, <1>8 DEF Ended
  <2>7. QED
    BY <1>1, <1>2, <2>1, <2>2, <2>4, <2>5, <2>6, NextInv
<1>9. QED
  BY <1>3, <1>4, <1>5, <1>6, <1>7, <1>8 DEF ManagerStep

-----------------------------------------------------------------------------
(* Steps of operations in flight.                                          *)

(* A caller that is inside the manager is the open transaction, or the     *)
(* sampler.                                                                *)
LEMMA InsideIsTxn ==
  ASSUME SInv, NEW p \in Procs, pc[p] # "idle"
  PROVE  /\ txn = p /\ txn # Nobody
         /\ stage[p] \in {"applying", "restoring", "narrowing"}
         /\ \A q \in Procs : q # p => stage[q] \notin Inside /\ pc[q] = "idle"
<1>1. stage[p] \in {"applying", "restoring", "narrowing"} /\ txn = p
  BY DEF SInv, Exclusive, Inside
<1>2. \A q \in Procs : q # p => stage[q] \notin Inside
  BY <1>1 DEF SInv, Exclusive
<1>3. QED
  BY <1>1, <1>2, CallerFacts DEF SInv, Exclusive, Inside

LEMMA ManagerStepInv ==
  ASSUME SInv, NEW a \in Callers, ManagerStep(a)
  PROVE  SInv'
<1>1. /\ IInv' /\ Serving' /\ Local(a) /\ Keeps
      /\ UNCHANGED <<server, dashboard, file, hash, request, writes>>
      /\ result' \in [Callers -> {"none", "ok", "error"}]
      /\ Works(a) \/ Closes(a) \/ Fails(a) \/ Applies(a) \/ Upserts(a)
  BY ManagerEffect
<1>2. UNCHANGED <<cfg, txn, stage, job, prev, monitor, items, sampling, file, hash,
                  request, writes>>
  BY <1>1 DEF server, dashboard
<1>3. ServerTypeOK'
  BY <1>1, <1>2 DEF SInv, ServerTypeOK, IInv
<1>4. pc[a] # "idle"
  BY <1>1 DEF Works, Closes, Fails, Applies, Upserts, Busy
<1>5. Applies(a) => a \in Procs /\ Current(a)
  BY CallerFacts DEF SInv, Division, Applies, Current
<1>6. \A p \in Procs : p # a /\ Busy(p) => UNCHANGED generation
  <2> SUFFICES ASSUME NEW p \in Procs, p # a, Busy(p), Applies(a) PROVE FALSE
    BY <1>1 DEF Works, Closes, Fails, Upserts
  <2>1. a \in Procs /\ pc[a] # "idle" /\ pc[p] # "idle"
    BY <1>4, <1>5 DEF Busy
  <2>2. QED
    BY <2>1, InsideIsTxn
<1>7. Division'
  <2>1. ASSUME NEW p \in Procs, Busy(p)'
        PROVE  kind'[p] = "Apply" /\ snapshot'[p] = generation'
    <3>1. CASE p = a
      BY <1>1, <2>1, <3>1 DEF Works, Closes, Fails, Applies, Upserts, SInv, Division
    <3>2. CASE p # a
      BY <1>1, <1>6, <2>1, <3>2, CallerFacts DEF Local, Busy, SInv, Division
    <3>3. QED
      BY <3>1, <3>2
  <2>2. ASSUME Busy(Sampler)' PROVE kind'[Sampler] = "Upsert"
    <3>1. CASE Sampler = a
      BY <1>1, <2>2, <3>1 DEF Works, Closes, Fails, Applies, Upserts, SInv, Division
    <3>2. CASE Sampler # a
      BY <1>1, <2>2, <3>2, CallerFacts DEF Local, Busy, SInv, Division
    <3>3. QED
      BY <3>1, <3>2
  <2>3. QED
    BY <2>1, <2>2 DEF Division
<1>8. Exclusive'
  <2> SUFFICES ASSUME NEW p \in Procs
               PROVE  /\ txn' = p <=> stage'[p] \in Inside
                      /\ pc'[p] # "idle" => stage'[p] \in {"applying", "restoring",
                                                           "narrowing"}
                      /\ stage'[p] = "narrowing" => ~ Busy(p)'
    BY DEF Exclusive
  <2>1. CASE p = a
    BY <1>1, <1>2, <1>4, <2>1 DEF SInv, Exclusive, Works, Closes, Fails, Applies, Upserts
  <2>2. CASE p # a
    BY <1>1, <1>2, <2>2, CallerFacts DEF SInv, Exclusive, Local, Busy
  <2>3. QED
    BY <2>1, <2>2
<1>9. Transactions'
  <2>1. CASE a = Sampler
    <3>1. UNCHANGED desired
      BY <1>1, <1>5, <2>1, CallerFacts DEF Works, Closes, Fails, Upserts
    <3>2. \A p \in Procs : pc'[p] = pc[p] /\ want'[p] = want[p] /\ result'[p] = result[p]
      BY <1>1, <2>1, CallerFacts DEF Local
    <3>3. QED
      BY <1>2, <3>1, <3>2 DEF SInv, Transactions, Progress, Busy
  <2>2. CASE a \in Procs
    <3>1. /\ txn = a /\ txn # Nobody /\ stage[a] \in {"applying", "restoring", "narrowing"}
          /\ \A q \in Procs : q # a => stage[q] \notin Inside
      BY <1>4, <2>2, InsideIsTxn
    <3>2. ASSUME NEW p \in Procs, p # a PROVE Progress(p)'
      BY <1>2, <3>1, <3>2 DEF Progress, Inside
    <3>3. Progress(a)
      BY <2>2 DEF SInv, Transactions
    <3>4. Busy(a) => stage[a] # "narrowing"
      BY <2>2 DEF SInv, Exclusive
    <3>5. Progress(a)'
      <4>1. CASE Works(a)
        BY <1>2, <3>1, <3>3, <4>1 DEF Works, Progress
      <4>2. CASE Closes(a)
        BY <1>2, <3>1, <3>3, <4>2 DEF Closes, Progress, Busy
      <4>3. CASE Fails(a)
        BY <1>2, <3>1, <3>3, <3>4, <4>3 DEF Fails, Progress
      <4>4. CASE Applies(a)
        BY <1>2, <1>5, <3>1, <3>3, <3>4, <4>4 DEF Applies, Progress
      <4>5. CASE Upserts(a)
        BY <2>2, <4>5 DEF Upserts, SInv, Division
      <4>6. QED
        BY <1>1, <4>1, <4>2, <4>3, <4>4, <4>5
    <3>6. QED
      BY <1>2, <3>1, <3>2, <3>5 DEF SInv, Transactions
  <2>3. QED
    BY <2>1, <2>2, CallerFacts
<1>10. Requests'
  BY <1>1, <1>2 DEF SInv, Requests, HandlerHolds, Reading, Writable, Keeps
<1>11. Sampling'
  BY <1>2 DEF SInv, Sampling
<1>12. QED
  BY <1>1, <1>3, <1>7, <1>8, <1>9, <1>10, <1>11 DEF SInv

-----------------------------------------------------------------------------
(* A closed client nobody refers to may stand for a new one: it is in no   *)
(* map and in nobody's hands, as those are open.                           *)
LEMMA CollectManager ==
  ASSUME SInv, NEW c \in Clients, Collect(c)
  PROVE  IInv'
<1>1. TypeOK /\ Ownership /\ Pairing
  BY DEF SInv, IInv
<1>2. /\ c \in created /\ closes[c] > 0
      /\ created' = created \ {c} /\ closes' = [closes EXCEPT ![c] = 0]
      /\ connOf' = [connOf EXCEPT ![c] = NoConn]
      /\ UNCHANGED <<phase, clients, configs, desired, desiredSet, generation,
                     pc, kind, snapshot, want, reused, made, closing>>
  BY DEF Collect, shared, local
<1>3. \A a \in Callers : c \notin Held(a)
  BY <1>1, <1>2 DEF Ownership, HeldOpen, TypeOK
<1>4. \A id \in Ids : clients[id] # c
  BY <1>1, <1>2, ConstantsAssumption DEF Ownership, InstalledOpen, TypeOK
<1>5. \A a \in Callers : Held(a)' = Held(a) /\ Held(a) \subseteq Clients
  BY <1>1, <1>2, ValuesClients DEF Held, TypeOK
<1>6. TypeOK'
  BY <1>1, <1>2 DEF TypeOK
<1>7. \A d \in Clients : d # c => /\ closes'[d] = closes[d] /\ connOf'[d] = connOf[d]
                                  /\ d \in created' <=> d \in created
  BY <1>1, <1>2 DEF TypeOK
<1>8. closes'[c] = 0 /\ c \notin created'
  BY <1>1, <1>2 DEF TypeOK
<1>9. LocalShape' /\ InstalledOnce' /\ HeldOnce' /\ MadeOnce'
  BY <1>1, <1>2, <1>5 DEF Ownership, LocalShape, InstalledOnce, HeldOnce, MadeOnce
<1>10. InstalledOpen'
  BY <1>1, <1>2, <1>4, <1>7 DEF Ownership, InstalledOpen, TypeOK, ClientMap
<1>11. HeldOpen'
  BY <1>1, <1>3, <1>5, <1>7 DEF Ownership, HeldOpen
<1>12. ClosedOnce' /\ UncreatedUnclosed'
  BY <1>1, <1>7, <1>8 DEF Ownership, ClosedOnce, UncreatedUnclosed
<1>13. NoLeak'
  BY <1>1, <1>2, <1>7, <1>8 DEF Ownership, NoLeak, TypeOK
<1>14. ConnectionsAuthoritative'
  BY <1>1, <1>2, <1>4, <1>7 DEF Pairing, ConnectionsAuthoritative, TypeOK, ClientMap
<1>15. MadeWanted'
  <2>1. \A a \in Callers, id \in Ids : made[a][id] # NoClient =>
          made[a][id] \in Clients /\ made[a][id] # c
    BY <1>1, <1>3 DEF Held, Values, TypeOK, ClientMap
  <2>2. QED
    BY <1>1, <1>2, <1>7, <2>1 DEF Pairing, MadeWanted
<1>16. NoNilClient' /\ ReusedKept' /\ SnapshotPast' /\ DesiredFirst' /\ UpsertSingle'
  BY <1>1, <1>2 DEF Pairing, NoNilClient, ReusedKept, SnapshotPast, DesiredFirst,
                    UpsertSingle
<1>17. QED
  BY <1>6, <1>9, <1>10, <1>11, <1>12, <1>13, <1>14, <1>15, <1>16
  DEF IInv, Ownership, Pairing

LEMMA CollectInv ==
  ASSUME SInv, NEW c \in Clients, Collect(c)
  PROVE  SInv'
<1>1. IInv'
  BY CollectManager
<1>2. /\ UNCHANGED <<phase, desired, desiredSet, generation, pc, kind, snapshot, want,
                     cfg, txn, stage, job, prev, monitor, items, sampling,
                     file, hash, result, request, writes>>
      /\ \A h \in Handlers : request[h].client # c
      /\ created' = created \ {c} /\ connOf' = [connOf EXCEPT ![c] = NoConn]
  BY DEF Collect, shared, local, server, dashboard
<1>3. ServerTypeOK'
  BY <1>1, <1>2 DEF SInv, ServerTypeOK, IInv
<1>4. Serving' /\ Division' /\ Exclusive' /\ Transactions' /\ Sampling'
  BY <1>2 DEF SInv, Serving, Division, Exclusive, Transactions, Progress, Sampling, Busy
<1>5. Requests'
  BY <1>2 DEF SInv, Requests, HandlerHolds, Reading, Writable, IInv, TypeOK
<1>6. QED
  BY <1>1, <1>3, <1>4, <1>5 DEF SInv

(* What a step that leaves the manager and the settings alone leaves as    *)
(* it is.                                                                  *)
LEMMA ManagerSame ==
  ASSUME SInv, UNCHANGED manager
  PROVE  /\ IInv' /\ TypeOK' /\ Serving'
         /\ UNCHANGED <<phase, clients, configs, desired, desiredSet, generation, created,
                        connOf, closes, pc, kind, snapshot, want>>
         /\ Division'
<1>1. UNCHANGED vars
  BY DEF manager
<1>2. IInv'
  BY <1>1, NextInv DEF SInv
<1>3. UNCHANGED <<phase, clients, configs, desired, desiredSet, generation, created,
                  connOf, closes, pc, kind, snapshot, want>>
  BY <1>1 DEF vars, shared, pool, local
<1>4. QED
  BY <1>2, <1>3 DEF SInv, IInv, Serving, Division, Busy

-----------------------------------------------------------------------------
(* The file and its watcher.                                               *)

LEMMA FileInv ==
  ASSUME SInv, \/ \E f \in Configs : Edit(f) \/ \E p \in Writers : Submit(p, f)
               \/ NewWatcher \/ Poll
  PROVE  SInv'
<1>1. UNCHANGED <<manager, cfg, txn, prev, monitor, items, sampling, result, request>>
  BY DEF Edit, Submit, NewWatcher, Poll, server, dashboard
<1>2. /\ IInv' /\ TypeOK' /\ Serving' /\ Division'
      /\ UNCHANGED <<desired, created, connOf, pc, want>>
  BY <1>1, ManagerSame
<1>3. /\ file' \in Configs \cup {Torn} /\ hash' \in Configs \cup {Torn}
      /\ writes' \in 0..MaxWrites
  <2>1. writes \in 0..MaxWrites /\ MaxWrites \in Nat
    BY ServerAssumption DEF SInv, ServerTypeOK
  <2>2. QED
    BY <2>1 DEF SInv, ServerTypeOK, Edit, Submit, NewWatcher, Poll
<1> DEFINE Moved(p) ==
        /\ \A q \in Procs : q # p => stage'[q] = stage[q] /\ job'[q] = job[q]
        /\ \/ stage'[p] = stage[p] /\ job'[p] = job[p]
           \/ /\ stage[p] \in {"absent", "idle"} /\ stage'[p] \in {"idle", "waiting"}
              /\ job'[p] \in Configs
        /\ stage' \in [Procs -> {"absent", "idle", "waiting", "deciding", "applying",
                                 "saving", "updating", "restoring", "narrowing"}]
        /\ job' \in [Procs -> Configs]
<1>4. PICK p \in Procs : Moved(p)
  <2>1. CASE \E f \in Configs : Edit(f)
    BY <2>1, CallerFacts DEF Edit, server, SInv, ServerTypeOK
  <2>2. ASSUME NEW f \in Configs, NEW p \in Writers, Submit(p, f)
        PROVE  p \in Procs /\ Moved(p)
    BY <2>2, CallerFacts DEF Submit, SInv, ServerTypeOK
  <2>3. CASE NewWatcher
    BY <2>3, CallerFacts DEF NewWatcher, Started, SInv, ServerTypeOK
  <2>4. CASE Poll
    <3>1. file \in Configs
      BY <2>4 DEF Poll, Legal, SInv, ServerTypeOK
    <3>2. QED
      BY <2>4, <3>1, CallerFacts DEF Poll, SInv, ServerTypeOK
  <2>5. QED
    BY <2>1, <2>2, <2>3, <2>4
<1>5. ServerTypeOK'
  BY <1>1, <1>2, <1>3, <1>4 DEF SInv, ServerTypeOK
<1>6. Exclusive'
  BY <1>1, <1>2, <1>4 DEF SInv, Exclusive, Busy, Inside
<1>7. Transactions'
  BY <1>1, <1>2, <1>4 DEF SInv, Transactions, Progress, Busy, Inside
<1>8. Requests' /\ Sampling'
  BY <1>1, <1>2 DEF SInv, Requests, HandlerHolds, Reading, Writable, Sampling
<1>9. QED
  BY <1>2, <1>5, <1>6, <1>7, <1>8 DEF SInv

-----------------------------------------------------------------------------
(* Transactions.                                                           *)

(* While a transaction is open no handler is under the lock.               *)
LEMMA NoReaders ==
  ASSUME SInv, NEW p \in Procs, stage[p] \in Inside
  PROVE  /\ txn = p /\ txn # Nobody
         /\ \A h \in Handlers : ~ Reading(h)
         /\ \A q \in Procs : q # p => stage[q] \notin Inside /\ pc[q] = "idle"
<1>1. txn = p
  BY DEF SInv, Exclusive
<1>2. txn # Nobody
  BY <1>1, CallerFacts
<1>3. \A h \in Handlers : ~ Reading(h)
  BY <1>2 DEF SInv, Requests, HandlerHolds
<1>4. \A q \in Procs : q # p => stage[q] \notin Inside
  BY <1>1 DEF SInv, Exclusive
<1>5. \A q \in Procs : q # p => pc[q] = "idle"
  BY <1>4 DEF SInv, Exclusive, Inside
<1>6. QED
  BY <1>1, <1>2, <1>3, <1>4, <1>5

(* A step of the open transaction, from one place inside to another.       *)
LEMMA InsideStep ==
  ASSUME SInv, NEW p \in Procs, stage[p] \in Inside, NEW s \in Inside,
         IInv', Serving', Local(p), Keeps,
         stage' = [stage EXCEPT ![p] = s],
         UNCHANGED <<cfg, txn, job, prev, monitor, items, sampling, hash, request, writes>>,
         file' \in Configs \cup {Torn},
         result' \in [Callers -> {"none", "ok", "error"}],
         Busy(p)' => kind'[p] = "Apply" /\ snapshot'[p] = generation',
         pc'[p] # "idle" => s \in {"applying", "restoring", "narrowing"},
         s = "narrowing" => ~ Busy(p)',
         Progress(p)'
  PROVE  SInv'
<1>1. /\ txn = p /\ txn # Nobody /\ \A h \in Handlers : ~ Reading(h)
      /\ \A q \in Procs : q # p => stage[q] \notin Inside /\ pc[q] = "idle"
  BY NoReaders
<1>2. /\ stage'[p] = s /\ \A q \in Procs : q # p => stage'[q] = stage[q]
      /\ stage' \in [Procs -> {"absent", "idle", "waiting", "deciding", "applying",
                               "saving", "updating", "restoring", "narrowing"}]
  BY DEF SInv, ServerTypeOK, Inside
<1>3. ServerTypeOK'
  BY <1>2 DEF SInv, ServerTypeOK, IInv
<1>4. /\ \A q \in Procs : q # p => pc'[q] = "idle"
      /\ Busy(Sampler)' => kind'[Sampler] = "Upsert"
  BY <1>1, CallerFacts DEF Local, SInv, Division, Busy
<1>5. Division'
  BY <1>4 DEF Division, Busy
<1>6. Exclusive'
  BY <1>1, <1>2, <1>4 DEF SInv, Exclusive, Busy
<1>7. \A q \in Procs : q # p => Progress(q)'
  BY <1>1, <1>2 DEF Progress, Inside
<1>8. Transactions'
  BY <1>1, <1>7 DEF SInv, Transactions
<1>9. Requests' /\ Sampling'
  BY <1>1 DEF SInv, Requests, HandlerHolds, Reading, Writable, Keeps, Sampling
<1>10. QED
  BY <1>3, <1>5, <1>6, <1>8, <1>9 DEF SInv

(* The end of the open transaction, with the manager at what is served.    *)
LEMMA ReturnStep ==
  ASSUME SInv, NEW p \in Procs, stage[p] \in Inside, pc[p] = "idle",
         NEW served \in Configs, Return(p, served),
         UNCHANGED <<manager, sampling, hash, request, writes>>,
         file' \in Configs \cup {Torn}, items' \in [Ids -> Item],
         monitor' = served.conns, desired = served.conns
  PROVE  SInv'
<1>1. /\ txn = p /\ txn # Nobody /\ \A h \in Handlers : ~ Reading(h)
      /\ \A q \in Procs : q # p => stage[q] \notin Inside /\ pc[q] = "idle"
  BY NoReaders
<1>2. /\ txn' = Nobody /\ cfg' = served
      /\ stage'[p] = "idle" /\ \A q \in Procs : q # p => stage'[q] = stage[q]
      /\ stage' \in [Procs -> {"absent", "idle", "waiting", "deciding", "applying",
                               "saving", "updating", "restoring", "narrowing"}]
      /\ job' \in [Procs -> Configs] /\ prev' \in [Procs -> Configs]
      /\ result' \in [Callers -> {"none", "ok", "error"}]
  BY CallerFacts DEF Return, Ended, SInv, ServerTypeOK
<1>3. /\ IInv' /\ TypeOK' /\ Serving' /\ Division'
      /\ UNCHANGED <<desired, created, connOf, pc>>
  BY ManagerSame
<1>4. ServerTypeOK'
  BY <1>2, <1>3, ConfigFacts DEF SInv, ServerTypeOK
<1>5. \A q \in Procs : stage'[q] \notin Inside /\ pc'[q] = "idle"
  BY <1>1, <1>2, <1>3 DEF Inside
<1>6. Exclusive' /\ Transactions'
  BY <1>2, <1>3, <1>5, CallerFacts DEF Exclusive, Transactions, Progress, Inside
<1>7. Requests' /\ Sampling'
  BY <1>1, <1>3 DEF SInv, Requests, HandlerHolds, Reading, Sampling
<1>8. QED
  BY <1>3, <1>4, <1>6, <1>7 DEF SInv

(* What a transaction changes in the manager.                              *)
LEMMA ApplyBeginEffect ==
  ASSUME SInv, NEW p \in Procs, NEW w \in ConnMap, ApplyBegin(p, w),
         \A b \in Callers : b # p => result'[b] = result[b]
  PROVE  /\ IInv' /\ Serving' /\ Local(p) /\ Keeps
         /\ pc'[p] = "creating" /\ kind'[p] = "Apply" /\ want'[p] = w
         /\ snapshot'[p] = generation' /\ UNCHANGED <<desired, generation>>
<1>1. p \in Callers /\ TypeOK
  BY CallerFacts DEF SInv, IInv
<1>2. Next
  BY <1>1 DEF Next, Begin
<1>3. UNCHANGED <<shared, pool>> /\ Enter(p, "Apply", w, Reusable(w))
  BY DEF ApplyBegin
<1>4. IInv' /\ Serving' /\ Keeps
  BY <1>2, <1>3, NextInv DEF SInv, Serving, Keeps, shared, pool
<1>5. QED
  BY <1>1, <1>3, <1>4 DEF Enter, Local, TypeOK, shared

LEMMA SetDesiredEffect ==
  ASSUME SInv, NEW p \in Procs, NEW w \in ConnMap, SetDesired(p, w), UNCHANGED result
  PROVE  IInv' /\ Serving' /\ Local(p) /\ Keeps /\ ~ Busy(p)' /\ desired' = w
<1>1. p \in Callers /\ TypeOK
  BY CallerFacts DEF SInv, IInv
<1>2. Next
  BY <1>1 DEF Next, Begin
<1>3. PICK S : LeaveClosing(p, "Remove", S)
  BY DEF SetDesired, Remove
<1>4. IInv' /\ Serving' /\ Keeps /\ desired' = w
  BY <1>2, NextInv DEF SInv, SetDesired, Serving, Keeps, pool
<1>5. QED
  BY <1>1, <1>3, <1>4, LeaveClosingLocals DEF Local, Busy

LEMMA LockInv ==
  ASSUME SInv, NEW p \in Procs, Lock(p)
  PROVE  SInv'
<1>1. /\ stage[p] = "waiting" /\ txn = Nobody /\ txn' = p
      /\ \A h \in Handlers : ~ Reading(h)
      /\ prev' = [prev EXCEPT ![p] = cfg] /\ stage' = [stage EXCEPT ![p] = "deciding"]
      /\ UNCHANGED <<manager, cfg, job, monitor, items, sampling, file, hash, result,
                     request, writes>>
  BY DEF Lock, Unlocked, dashboard
<1>2. /\ IInv' /\ TypeOK' /\ Serving' /\ Division'
      /\ UNCHANGED <<desired, created, connOf, pc>>
  BY <1>1, ManagerSame
<1>3. ServerTypeOK'
  BY <1>1, <1>2 DEF SInv, ServerTypeOK
<1>4. \A q \in Procs : stage[q] \notin Inside /\ pc[q] = "idle"
  BY <1>1, CallerFacts DEF SInv, Exclusive, Inside
<1>5. /\ stage'[p] = "deciding" /\ prev'[p] = cfg
      /\ \A q \in Procs : q # p => stage'[q] = stage[q]
  BY <1>1 DEF SInv, ServerTypeOK
<1>6. Exclusive'
  BY <1>1, <1>2, <1>4, <1>5 DEF Exclusive, Inside
<1>7. desired = cfg.conns
  BY <1>1 DEF SInv, Transactions
<1>8. Transactions'
  BY <1>1, <1>2, <1>4, <1>5, <1>7, CallerFacts DEF SInv, Transactions, Progress, Inside
<1>9. Requests' /\ Sampling'
  BY <1>1, <1>2 DEF SInv, Requests, HandlerHolds, Reading, Sampling
<1>10. QED
  BY <1>2, <1>3, <1>6, <1>8, <1>9 DEF SInv

LEMMA DecideInv ==
  ASSUME SInv, NEW p \in Procs, Decide(p)
  PROVE  SInv'
<1>1. /\ stage[p] = "deciding" /\ "deciding" \in Inside /\ p \in Callers
      /\ Ended(p, "none")
      /\ UNCHANGED <<cfg, txn, job, prev, monitor, items, sampling, file, hash, request,
                     writes>>
  BY CallerFacts DEF Decide, Inside, dashboard
<1>2. /\ result'[p] = "none" /\ \A b \in Callers : b # p => result'[b] = result[b]
      /\ result' \in [Callers -> {"none", "ok", "error"}]
  BY <1>1 DEF Ended, SInv, ServerTypeOK
<1>3. prev[p] = cfg /\ desired = cfg.conns /\ pc[p] = "idle" /\ job[p].conns \in ConnMap
  BY <1>1, ConfigFacts DEF SInv, Transactions, Progress, Exclusive, ServerTypeOK
<1>4. file' \in Configs \cup {Torn}
  BY <1>1 DEF SInv, ServerTypeOK
<1>5. CASE Matches(job[p].conns)
  <2>1. /\ stage' = [stage EXCEPT ![p] = AfterApply(p)] /\ UNCHANGED manager
        /\ AfterApply(p) \in {"saving", "updating"} /\ desired = job[p].conns
    BY <1>5 DEF Decide, AfterApply, Matches
  <2>2. /\ IInv' /\ Serving' /\ UNCHANGED <<desired, created, connOf, pc>>
        /\ \A b \in Callers : UNCHANGED <<pc[b], kind[b], snapshot[b], want[b]>>
    BY <2>1, ManagerSame
  <2>3. Local(p) /\ Keeps /\ ~ Busy(p)'
    BY <1>2, <1>3, <2>2 DEF Local, Keeps, Busy
  <2>4. stage'[p] = AfterApply(p)
    BY <2>1 DEF SInv, ServerTypeOK
  <2>5. Progress(p)'
    BY <1>1, <1>3, <2>1, <2>2, <2>4 DEF Progress
  <2>6. QED
    BY <1>1, <1>2, <1>3, <1>4, <2>1, <2>2, <2>3, <2>5, InsideStep DEF Inside
<1>6. CASE ~ Matches(job[p].conns)
  <2>1. ApplyBegin(p, job[p].conns) /\ stage' = [stage EXCEPT ![p] = "applying"]
    BY <1>6 DEF Decide
  <2>2. /\ IInv' /\ Serving' /\ Local(p) /\ Keeps
        /\ pc'[p] = "creating" /\ kind'[p] = "Apply" /\ want'[p] = job[p].conns
        /\ snapshot'[p] = generation' /\ UNCHANGED <<desired, generation>>
    BY <1>2, <1>3, <2>1, ApplyBeginEffect
  <2>3. stage'[p] = "applying"
    BY <2>1 DEF SInv, ServerTypeOK
  <2>4. Progress(p)'
    BY <1>1, <1>3, <2>2, <2>3 DEF Progress, Busy
  <2>5. QED
    BY <1>1, <1>2, <1>4, <2>1, <2>2, <2>4, InsideStep DEF Inside
<1>7. QED
  BY <1>5, <1>6

LEMMA TxnFacts ==
  ASSUME SInv, NEW p \in Procs
  PROVE  /\ Progress(p) /\ job[p] \in Configs /\ file \in Configs \cup {Torn}
         /\ result \in [Callers -> {"none", "ok", "error"}]
         /\ pc[p] # "idle" => stage[p] \in {"applying", "restoring", "narrowing"}
<1>1. Progress(p)
  BY DEF SInv, Transactions
<1>2. /\ job[p] \in Configs /\ file \in Configs \cup {Torn}
      /\ result \in [Callers -> {"none", "ok", "error"}]
  BY DEF SInv, ServerTypeOK
<1>3. QED
  BY <1>1, <1>2 DEF SInv, Exclusive

(* A transaction that ends as if never begun leaves everything as it was.  *)
LEMMA GiveUpInv ==
  ASSUME SInv, NEW p \in Procs, stage[p] \in Inside, pc[p] = "idle",
         desired = cfg.conns, Return(p, cfg),
         UNCHANGED <<manager, dashboard, hash, request, writes>>,
         file' \in Configs \cup {Torn}
  PROVE  SInv'
<1>1. cfg \in Configs /\ monitor = cfg.conns /\ items \in [Ids -> Item]
  BY DEF SInv, ServerTypeOK, Transactions
<1>2. QED
  BY <1>1, ReturnStep DEF dashboard

LEMMA RefuseInv == ASSUME SInv, NEW p \in Procs, Refuse(p) PROVE SInv'
<1>1. /\ stage[p] = "deciding" /\ Return(p, cfg)
      /\ UNCHANGED <<manager, dashboard, file, hash, request, writes>>
  BY DEF Refuse
<1>2. pc[p] = "idle" /\ desired = cfg.conns /\ file \in Configs \cup {Torn}
  BY <1>1 DEF SInv, Exclusive, Transactions, Progress, ServerTypeOK
<1>3. QED
  BY <1>1, <1>2, GiveUpInv DEF Inside

LEMMA AppliedInv == ASSUME SInv, NEW p \in Procs, Applied(p) PROVE SInv'
<1>1. /\ stage[p] = "applying" /\ pc[p] = "idle" /\ p \in Callers
      /\ UNCHANGED <<manager, dashboard, file, hash, request, writes>>
  BY CallerFacts DEF Applied
<1>2. /\ prev[p] = cfg /\ desired = IF result[p] = "ok" THEN job[p].conns ELSE cfg.conns
      /\ file \in Configs \cup {Torn} /\ result \in [Callers -> {"none", "ok", "error"}]
  BY <1>1, TxnFacts DEF Progress, Inside, Busy
<1>3. CASE result[p] = "ok"
  <2>1. /\ stage' = [stage EXCEPT ![p] = AfterApply(p)]
        /\ AfterApply(p) \in {"saving", "updating"}
        /\ UNCHANGED <<cfg, txn, job, prev, result, monitor, items, sampling, file, hash,
                       request, writes>>
    BY <1>1, <1>3 DEF Applied, AfterApply, dashboard
  <2>2. /\ IInv' /\ Serving' /\ UNCHANGED <<desired, created, connOf, pc>>
        /\ \A b \in Callers : UNCHANGED <<pc[b], kind[b], snapshot[b], want[b]>>
    BY <1>1, ManagerSame
  <2>3. Local(p) /\ Keeps /\ ~ Busy(p)'
    BY <1>1, <2>1, <2>2 DEF Local, Keeps, Busy
  <2>4. stage'[p] = AfterApply(p)
    BY <2>1 DEF SInv, ServerTypeOK
  <2>5. Progress(p)'
    BY <1>2, <1>3, <2>1, <2>2, <2>4 DEF Progress
  <2>6. QED
    BY <1>1, <1>2, <2>1, <2>2, <2>3, <2>5, InsideStep DEF Inside
<1>4. CASE result[p] # "ok"
  <2>1. Return(p, cfg)
    BY <1>4 DEF Applied
  <2>2. QED
    BY <1>1, <1>2, <1>4, <2>1, GiveUpInv DEF Inside
<1>5. QED
  BY <1>3, <1>4

LEMMA SaveOKInv == ASSUME SInv, NEW p \in Procs, SaveOK(p) PROVE SInv'
<1>1. /\ stage[p] = "saving" /\ p \in Callers /\ file' = job[p]
      /\ stage' = [stage EXCEPT ![p] = "updating"]
      /\ UNCHANGED <<manager, cfg, txn, job, prev, result, monitor, items, sampling, hash,
                     request, writes>>
  BY CallerFacts DEF SaveOK, dashboard
<1>2. /\ prev[p] = cfg /\ desired = job[p].conns /\ pc[p] = "idle"
      /\ job[p] \in Configs /\ result \in [Callers -> {"none", "ok", "error"}]
  BY <1>1, TxnFacts DEF Progress, Inside, Busy
<1>3. /\ IInv' /\ Serving' /\ UNCHANGED <<desired, created, connOf, pc>>
      /\ \A b \in Callers : UNCHANGED <<pc[b], kind[b], snapshot[b], want[b]>>
  BY <1>1, ManagerSame
<1>4. Local(p) /\ Keeps /\ ~ Busy(p)'
  BY <1>1, <1>2, <1>3 DEF Local, Keeps, Busy
<1>5. stage'[p] = "updating"
  BY <1>1 DEF SInv, ServerTypeOK
<1>6. Progress(p)'
  BY <1>1, <1>2, <1>3, <1>5 DEF Progress
<1>7. QED
  BY <1>1, <1>2, <1>3, <1>4, <1>6, InsideStep DEF Inside

LEMMA SaveFailsInv == ASSUME SInv, NEW p \in Procs, SaveFails(p) PROVE SInv'
<1>1. /\ stage[p] = "saving" /\ p \in Callers /\ file' \in AfterFailedSave(p)
      /\ UNCHANGED <<dashboard, hash, request, writes>>
  BY CallerFacts DEF SaveFails
<1>2. /\ prev[p] = cfg /\ (result[p] # "ok" => desired = cfg.conns) /\ pc[p] = "idle"
      /\ job[p] \in Configs /\ result \in [Callers -> {"none", "ok", "error"}]
  BY <1>1, TxnFacts DEF Progress, Inside, Busy
<1>3. file' \in Configs \cup {Torn}
  BY <1>1, <1>2 DEF AfterFailedSave, SInv, ServerTypeOK
<1>4. CASE Switched(p)
  <2>1. /\ ApplyBegin(p, cfg.conns) /\ stage' = [stage EXCEPT ![p] = "restoring"]
        /\ UNCHANGED <<cfg, txn, job, prev, result, monitor, items, sampling, hash,
                       request, writes>>
    BY <1>1, <1>2, <1>4 DEF SaveFails, dashboard
  <2>2. cfg.conns \in ConnMap
    BY ConfigFacts DEF SInv, ServerTypeOK
  <2>3. /\ IInv' /\ Serving' /\ Local(p) /\ Keeps
        /\ pc'[p] = "creating" /\ kind'[p] = "Apply" /\ want'[p] = cfg.conns
        /\ snapshot'[p] = generation' /\ UNCHANGED <<desired, generation>>
    BY <2>1, <2>2, ApplyBeginEffect
  <2>4. stage'[p] = "restoring"
    BY <2>1 DEF SInv, ServerTypeOK
  <2>5. Progress(p)'
    BY <1>2, <2>1, <2>3, <2>4 DEF Progress, Busy
  <2>6. QED
    BY <1>1, <1>2, <1>3, <2>1, <2>3, <2>5, InsideStep DEF Inside
<1>5. CASE ~ Switched(p)
  <2>1. Return(p, cfg) /\ UNCHANGED manager /\ desired = cfg.conns
    BY <1>2, <1>5 DEF SaveFails, Switched
  <2>2. QED
    BY <1>1, <1>2, <1>3, <2>1, GiveUpInv DEF Inside
<1>6. QED
  BY <1>4, <1>5

LEMMA RestoredInv == ASSUME SInv, NEW p \in Procs, Restored(p) PROVE SInv'
<1>1. /\ stage[p] = "restoring" /\ pc[p] = "idle" /\ p \in Callers
      /\ UNCHANGED <<dashboard, file, hash, request, writes>>
  BY CallerFacts DEF Restored
<1>2. /\ prev[p] = cfg /\ (result[p] = "ok" => desired = cfg.conns)
      /\ file' \in Configs \cup {Torn} /\ result \in [Callers -> {"none", "ok", "error"}]
  BY <1>1, TxnFacts DEF Progress, Inside, Busy
<1>3. CASE result[p] = "ok"
  <2>1. Return(p, cfg) /\ UNCHANGED manager
    BY <1>3 DEF Restored
  <2>2. QED
    BY <1>1, <1>2, <1>3, <2>1, GiveUpInv DEF Inside
<1>4. CASE result[p] # "ok"
  <2>1. /\ SetDesired(p, cfg.conns) /\ stage' = [stage EXCEPT ![p] = "narrowing"]
        /\ UNCHANGED <<cfg, txn, job, prev, result, monitor, items, sampling, hash,
                       request, writes>>
    BY <1>1, <1>2, <1>4 DEF Restored, dashboard
  <2>2. cfg.conns \in ConnMap
    BY ConfigFacts DEF SInv, ServerTypeOK
  <2>3. /\ IInv' /\ Serving' /\ Local(p) /\ Keeps /\ ~ Busy(p)' /\ desired' = cfg.conns
    BY <2>1, <2>2, SetDesiredEffect
  <2>4. stage'[p] = "narrowing"
    BY <2>1 DEF SInv, ServerTypeOK
  <2>5. Progress(p)'
    BY <1>2, <2>1, <2>3, <2>4 DEF Progress
  <2>6. QED
    BY <1>1, <1>2, <2>1, <2>3, <2>5, InsideStep DEF Inside
<1>5. QED
  BY <1>3, <1>4

LEMMA NarrowedInv == ASSUME SInv, NEW p \in Procs, Narrowed(p) PROVE SInv'
<1>1. /\ stage[p] = "narrowing" /\ pc[p] = "idle" /\ Return(p, cfg)
      /\ UNCHANGED <<manager, dashboard, file, hash, request, writes>>
  BY DEF Narrowed
<1>2. desired = cfg.conns /\ file \in Configs \cup {Torn}
  BY <1>1 DEF SInv, Transactions, Progress, ServerTypeOK
<1>3. QED
  BY <1>1, <1>2, GiveUpInv DEF Inside

LEMMA UpdateConfigInv == ASSUME SInv, NEW p \in Procs, UpdateConfig(p) PROVE SInv'
<1>1. /\ stage[p] = "updating" /\ Return(p, job[p]) /\ monitor' = job[p].conns
      /\ UNCHANGED <<manager, sampling, file, hash, request, writes>>
  BY DEF UpdateConfig
<1>2. /\ job[p] \in Configs /\ desired = job[p].conns /\ pc[p] = "idle"
      /\ file \in Configs \cup {Torn} /\ items \in [Ids -> Item]
  BY <1>1 DEF SInv, Transactions, Progress, Exclusive, ServerTypeOK
<1>3. \A id \in Ids : Loading(job[p].conns)[id] \in Item
  BY DEF Loading, Bare, Item
<1>4. items' \in [Ids -> Item]
  BY <1>2, <1>3 DEF UpdateConfig
<1>5. QED
  BY <1>1, <1>2, <1>4, ReturnStep DEF Inside

LEMMA ConfigStepInv == ASSUME SInv, NEW p \in Procs, ConfigStep(p) PROVE SInv'
BY LockInv, RefuseInv, DecideInv, AppliedInv, SaveOKInv, SaveFailsInv, RestoredInv,
   NarrowedInv, UpdateConfigInv DEF ConfigStep

-----------------------------------------------------------------------------
(* The sampler worker.                                                     *)

SamplingType ==
  [at : {"idle", "lookup", "missing", "upserting", "again", "query", "offline", "online"},
   id : Ids \cup {NoConn}, conn : Conns \cup {NoConn}, client : Clients \cup {NoClient}]

(* A step of the worker that leaves the manager alone.                     *)
LEMMA WorkerStep ==
  ASSUME SInv, SamplerOnly, UNCHANGED <<manager, monitor>>,
         result' \in [Callers -> {"none", "ok", "error"}],
         \A p \in Procs : result'[p] = result[p],
         items' \in [Ids -> Item], sampling' \in SamplingType, Sampling'
  PROVE  SInv'
<1>1. UNCHANGED <<cfg, txn, stage, job, prev, file, hash, request, writes, monitor>>
  BY DEF SamplerOnly, server
<1>2. /\ IInv' /\ TypeOK' /\ Serving' /\ Division'
      /\ UNCHANGED <<desired, created, connOf, pc, want>>
  BY ManagerSame
<1>3. ServerTypeOK'
  BY <1>1, <1>2 DEF SInv, ServerTypeOK, SamplingType
<1>4. Exclusive' /\ Transactions' /\ Requests'
  BY <1>1, <1>2 DEF SInv, Exclusive, Transactions, Progress, Busy, Requests,
                    HandlerHolds, Reading, Writable
<1>5. QED
  BY <1>2, <1>3, <1>4 DEF SInv

LEMMA SamplerFacts ==
  ASSUME SInv
  PROVE  /\ sampling \in SamplingType /\ items \in [Ids -> Item] /\ monitor \in ConnMap
         /\ result \in [Callers -> {"none", "ok", "error"}]
         /\ Sampling /\ TypeOK
BY DEF SInv, ServerTypeOK, SamplingType

LEMMA SampleBeginInv == ASSUME SInv, NEW id \in Ids, SampleBegin(id) PROVE SInv'
<1>1. /\ SamplerOnly /\ UNCHANGED <<manager, monitor, items, result>>
      /\ sampling' = [at |-> "lookup", id |-> id, conn |-> monitor[id], client |-> NoClient]
      /\ monitor[id] # NoConn
  BY DEF SampleBegin, NotSampling
<1>2. monitor[id] \in Conns
  BY <1>1, SamplerFacts DEF ConnMap
<1>3. sampling' \in SamplingType /\ Sampling'
  BY <1>1, <1>2 DEF SamplingType, Sampling
<1>4. QED
  BY <1>1, <1>3, SamplerFacts, WorkerStep

LEMMA LookupInv == ASSUME SInv, Lookup PROVE SInv'
<1>1. /\ sampling.at \in {"lookup", "again"} /\ SamplerOnly
      /\ UNCHANGED <<manager, monitor, items, result>>
  BY DEF Lookup
<1>2. sampling \in SamplingType /\ sampling.id \in Ids /\ sampling.conn \in Conns
  BY <1>1, SamplerFacts DEF Sampling
<1>3. clients[sampling.id] \in Clients \cup {NoClient}
  BY <1>2, SamplerFacts DEF TypeOK, ClientMap
<1>4. \/ /\ clients[sampling.id] # NoClient
         /\ sampling' = [sampling EXCEPT !.at = "query", !.client = clients[sampling.id]]
      \/ sampling' = [sampling EXCEPT !.at = "missing"]
      \/ sampling' = [sampling EXCEPT !.at = "offline"]
  BY DEF Lookup, SamplerAt, WithoutClient
<1>5. sampling' \in SamplingType /\ Sampling'
  BY <1>2, <1>3, <1>4 DEF SamplingType, Sampling
<1>6. QED
  BY <1>1, <1>5, SamplerFacts, WorkerStep

LEMMA UpsertBeginEffect ==
  ASSUME SInv, NEW id \in Ids, NEW conn \in Conns, UpsertBegin(Sampler, id, conn)
  PROVE  /\ IInv' /\ Serving' /\ pc'[Sampler] = "creating" /\ kind'[Sampler] = "Upsert"
         /\ UNCHANGED <<created, connOf, desired, generation>>
         /\ \A p \in Procs : UNCHANGED <<pc[p], kind[p], snapshot[p], want[p]>>
<1>1. Sampler \in Callers /\ Sampler \notin Procs /\ TypeOK
  BY CallerFacts, SamplerFacts
<1>2. Next
  BY <1>1 DEF Next, Begin
<1>3. UNCHANGED <<shared, pool>> /\ Enter(Sampler, "Upsert", Only(id, conn), {})
  BY DEF UpsertBegin
<1>4. IInv' /\ Serving' /\ UNCHANGED <<created, connOf, desired, generation>>
  BY <1>2, <1>3, NextInv DEF SInv, Serving, shared, pool
<1>5. QED
  BY <1>1, <1>3, <1>4 DEF Enter, TypeOK

LEMMA ReconnectInv == ASSUME SInv, Reconnect PROVE SInv'
<1>1. /\ sampling.at = "missing" /\ SamplerOnly /\ Ended(Sampler, "none")
      /\ UNCHANGED <<monitor, items>> /\ Sampler \in Callers /\ Sampler \notin Procs
  BY CallerFacts DEF Reconnect
<1>2. sampling \in SamplingType /\ sampling.id \in Ids /\ sampling.conn \in Conns
  BY <1>1, SamplerFacts DEF Sampling
<1>3. /\ result' \in [Callers -> {"none", "ok", "error"}]
      /\ \A p \in Procs : result'[p] = result[p]
  BY <1>1, SamplerFacts, CallerFacts DEF Ended
<1>4. sampling' \in SamplingType /\ Sampling'
  BY <1>2 DEF Reconnect, SamplerAt, SamplingType, Sampling
<1>5. CASE UNCHANGED manager
  BY <1>1, <1>3, <1>4, <1>5, SamplerFacts, WorkerStep
<1>6. CASE UpsertBegin(Sampler, sampling.id, sampling.conn)
  <2>1. /\ IInv' /\ Serving' /\ pc'[Sampler] = "creating" /\ kind'[Sampler] = "Upsert"
        /\ UNCHANGED <<created, connOf, desired, generation>>
        /\ \A p \in Procs : UNCHANGED <<pc[p], kind[p], snapshot[p], want[p]>>
    BY <1>2, <1>6, UpsertBeginEffect
  <2>2. UNCHANGED <<cfg, txn, stage, job, prev, file, hash, request, writes, monitor, items>>
    BY <1>1 DEF SamplerOnly, server
  <2>3. ServerTypeOK'
    BY <1>3, <1>4, <2>1, <2>2 DEF SInv, ServerTypeOK, SamplingType, IInv
  <2>4. Division' /\ Exclusive' /\ Transactions'
    BY <1>3, <2>1, <2>2 DEF SInv, Division, Exclusive, Transactions, Progress, Busy
  <2>5. Requests'
    BY <2>1, <2>2 DEF SInv, Requests, HandlerHolds, Reading, Writable
  <2>6. QED
    BY <1>4, <2>1, <2>3, <2>4, <2>5 DEF SInv
<1>7. QED
  BY <1>5, <1>6 DEF Reconnect

LEMMA ReconnectedInv == ASSUME SInv, Reconnected PROVE SInv'
<1>1. /\ sampling.at = "upserting" /\ SamplerOnly /\ Ended(Sampler, "none")
      /\ UNCHANGED <<manager, monitor, items>> /\ Sampler \in Callers /\ Sampler \notin Procs
  BY CallerFacts DEF Reconnected
<1>2. sampling \in SamplingType /\ sampling.id \in Ids /\ sampling.conn \in Conns
  BY <1>1, SamplerFacts DEF Sampling
<1>3. /\ result' \in [Callers -> {"none", "ok", "error"}]
      /\ \A p \in Procs : result'[p] = result[p]
  BY <1>1, SamplerFacts, CallerFacts DEF Ended
<1>4. sampling' \in SamplingType /\ Sampling'
  BY <1>2 DEF Reconnected, SamplerAt, SamplingType, Sampling
<1>5. QED
  BY <1>1, <1>3, <1>4, SamplerFacts, WorkerStep

LEMMA QueryInv == ASSUME SInv, Query PROVE SInv'
<1>1. /\ sampling.at = "query" /\ SamplerOnly
      /\ UNCHANGED <<manager, monitor, items, result>>
  BY DEF Query
<1>2. /\ sampling \in SamplingType /\ sampling.id \in Ids /\ sampling.conn \in Conns
      /\ sampling.client \in Clients
  BY <1>1, SamplerFacts DEF Sampling
<1>3. sampling' \in SamplingType /\ Sampling'
  BY <1>2 DEF Query, SamplerAt, SamplingType, Sampling
<1>4. QED
  BY <1>1, <1>3, SamplerFacts, WorkerStep

LEMMA MergeInv == ASSUME SInv, Merge PROVE SInv'
<1>1. /\ sampling.at \in {"offline", "online"} /\ SamplerOnly
      /\ UNCHANGED <<manager, monitor, result>> /\ sampling' = NotSampling
  BY DEF Merge
<1>2. /\ sampling.at = "online" => connOf[sampling.client] \in Conns \cup {NoConn}
  BY <1>1, SamplerFacts DEF Sampling, TypeOK
<1>3. items' \in [Ids -> Item]
  BY <1>2, SamplerFacts DEF Merge, Bare, Item
<1>4. sampling' \in SamplingType /\ Sampling'
  BY <1>1 DEF NotSampling, SamplingType, Sampling
<1>5. QED
  BY <1>1, <1>3, <1>4, SamplerFacts, WorkerStep

LEMMA SamplerStepInv == ASSUME SInv, SamplerStep PROVE SInv'
BY LookupInv, ReconnectInv, ReconnectedInv, QueryInv, MergeInv DEF SamplerStep

-----------------------------------------------------------------------------
(* The request handlers.                                                   *)

RequestType ==
  [at : {"idle", "config", "forRead", "forWrite", "read", "write"},
   id : Ids \cup {NoConn}, conn : Conns \cup {NoConn}, client : Clients \cup {NoClient}]

LEMMA HandlerInv ==
  ASSUME SInv, NEW h \in Handlers, HandlerOnly, NEW r \in RequestType,
         request' = [request EXCEPT ![h] = r], HandlerHolds(h)'
  PROVE  SInv'
<1>1. UNCHANGED <<cfg, txn, stage, job, prev, monitor, items, sampling, file, hash,
                  result, writes, manager>>
  BY DEF HandlerOnly, server, dashboard
<1>2. /\ IInv' /\ TypeOK' /\ Serving' /\ Division'
      /\ UNCHANGED <<desired, created, connOf, pc, want>>
  BY <1>1, ManagerSame
<1>3. request' \in [Handlers -> RequestType]
  BY DEF SInv, ServerTypeOK, RequestType
<1>4. ServerTypeOK'
  BY <1>1, <1>2, <1>3 DEF SInv, ServerTypeOK, RequestType
<1>5. Exclusive' /\ Transactions' /\ Sampling'
  BY <1>1, <1>2 DEF SInv, Exclusive, Transactions, Progress, Busy, Sampling
<1>6. \A g \in Handlers : g # h => HandlerHolds(g)'
  BY <1>1, <1>2 DEF SInv, ServerTypeOK, Requests, HandlerHolds, Reading, Writable
<1>7. QED
  BY <1>2, <1>4, <1>5, <1>6 DEF SInv, Requests

LEMMA RequestFacts ==
  ASSUME SInv, NEW h \in Handlers
  PROVE  /\ request \in [Handlers -> RequestType] /\ request[h] \in RequestType
         /\ HandlerHolds(h) /\ TypeOK
         /\ \A r : [request EXCEPT ![h] = r][h] = r
BY DEF SInv, ServerTypeOK, RequestType, Requests

LEMMA IdleHandler ==
  ASSUME SInv, NEW h \in Handlers, HandlerOnly, request' = [request EXCEPT ![h] = NotRequested]
  PROVE  SInv'
<1>1. NotRequested \in RequestType
  BY DEF NotRequested, RequestType
<1>2. HandlerHolds(h)'
  BY RequestFacts DEF HandlerHolds, Reading, NotRequested
<1>3. QED
  BY <1>1, <1>2, HandlerInv

LEMMA AskInv == ASSUME SInv, NEW h \in Handlers, NEW id \in Ids, Ask(h, id) PROVE SInv'
<1> DEFINE r == [NotRequested EXCEPT !.at = "config", !.id = id]
<1>1. /\ HandlerOnly /\ txn = Nobody /\ txn' = txn
      /\ request' = [request EXCEPT ![h] = r]
  BY DEF Ask, HandlerOnly, server
<1>2. r \in RequestType /\ request'[h] = r /\ r.at = "config" /\ r.id = id
  BY <1>1, RequestFacts DEF RequestType, NotRequested
<1>3. HandlerHolds(h)'
  BY <1>1, <1>2 DEF HandlerHolds, Reading
<1>4. QED
  BY <1>1, <1>2, <1>3, HandlerInv

LEMMA ReadConfigInv == ASSUME SInv, NEW h \in Handlers, ReadConfig(h) PROVE SInv'
<1>1. /\ request[h].at = "config" /\ HandlerOnly /\ UNCHANGED <<txn, cfg>>
  BY DEF ReadConfig, HandlerOnly, server
<1>2. txn = Nobody /\ request[h].id \in Ids /\ cfg.conns[request[h].id] \in Conns \cup {NoConn}
  <2>1. txn = Nobody /\ request[h].id \in Ids
    BY <1>1, RequestFacts DEF HandlerHolds, Reading
  <2>2. cfg.conns \in ConnMap
    BY ConfigFacts DEF SInv, ServerTypeOK
  <2>3. QED
    BY <2>1, <2>2 DEF ConnMap
<1>3. ASSUME NEW place \in {"forRead", "forWrite"},
             place = "forWrite" => Writable(request[h].id),
             request' = [request EXCEPT ![h].at = place,
                                        ![h].conn = cfg.conns[request[h].id]]
      PROVE  SInv'
  <2> DEFINE r == [request[h] EXCEPT !.at = place, !.conn = cfg.conns[request[h].id]]
  <2>1. request' = [request EXCEPT ![h] = r] /\ r \in RequestType /\ request'[h] = r
    BY <1>2, <1>3, RequestFacts DEF RequestType
  <2>2. r.at = place /\ r.conn = cfg.conns[request[h].id] /\ r.id = request[h].id
    BY RequestFacts DEF RequestType
  <2>3. HandlerHolds(h)'
    BY <1>1, <1>2, <1>3, <2>1, <2>2 DEF HandlerHolds, Reading, Writable
  <2>4. QED
    BY <1>1, <2>1, <2>3, HandlerInv
<1>4. CASE request' = [request EXCEPT ![h] = NotRequested]
  BY <1>1, <1>4, IdleHandler
<1>5. QED
  BY <1>3, <1>4 DEF ReadConfig

(* The client comes from the map while the lock is held: no transaction is *)
(* open, so the manager is at the configuration the handler has read.      *)
LEMMA ReadClientInv == ASSUME SInv, NEW h \in Handlers, ReadClient(h) PROVE SInv'
<1> DEFINE client == clients[request[h].id]
           place  == IF request[h].at = "forRead" THEN "read" ELSE "write"
           r      == [request[h] EXCEPT !.at = place, !.client = client]
<1>1. request[h].at \in {"forRead", "forWrite"} /\ HandlerOnly /\ UNCHANGED manager
  BY DEF ReadClient, HandlerOnly
<1>2. /\ txn = Nobody /\ request[h].id \in Ids
      /\ request[h].conn = cfg.conns[request[h].id]
  BY <1>1, RequestFacts DEF HandlerHolds, Reading
<1>3. desired = cfg.conns
  BY <1>2 DEF SInv, Transactions
<1>4. CASE client = NoClient
  BY <1>1, <1>4, IdleHandler DEF ReadClient
<1>5. CASE client # NoClient
  <2>1. client \in created /\ connOf[client] = request[h].conn
    BY <1>2, <1>3, <1>5 DEF SInv, IInv, Ownership, InstalledOpen, Pairing,
                            ConnectionsAuthoritative
  <2>2. client \in Clients
    BY <2>1, RequestFacts DEF TypeOK
  <2>3. request' = [request EXCEPT ![h] = r]
    BY <1>5, RequestFacts DEF ReadClient
  <2>4. r \in RequestType /\ request'[h] = r
    <3>1. request'[h] = r
      BY <2>3, RequestFacts
    <3>2. place \in {"read", "write"} /\ request[h] \in RequestType
      BY RequestFacts
    <3> HIDE DEF place, client
    <3>3. r \in RequestType
      BY <2>2, <3>2 DEF RequestType
    <3>4. QED
      BY <3>1, <3>3
  <2>5. r.at \in {"read", "write"} /\ r.client = client /\ r.conn = request[h].conn
    BY RequestFacts DEF RequestType
  <2>6. UNCHANGED <<created, connOf>>
    BY <1>1, ManagerSame
  <2>7. HandlerHolds(h)'
    BY <2>1, <2>4, <2>5, <2>6 DEF HandlerHolds, Reading
  <2>8. QED
    BY <1>1, <2>3, <2>4, <2>7, HandlerInv
<1>6. QED
  BY <1>4, <1>5

LEMMA HandlerStepInv == ASSUME SInv, NEW h \in Handlers, HandlerStep(h) PROVE SInv'
<1>1. CASE Finish(h)
  BY <1>1, IdleHandler DEF Finish
<1>2. QED
  BY <1>1, ReadConfigInv, ReadClientInv DEF HandlerStep

-----------------------------------------------------------------------------
LEMMA ServerInitInv == ServerInit => SInv
<1> SUFFICES ASSUME ServerInit PROVE SInv
  OBVIOUS
<1>1. NoConns \in ConnMap /\ NoClients \in ClientMap /\ cfg \in Configs
  BY DEF ConnMap, ClientMap, NoConns, NoClients, ServerInit
<1>2. cfg.conns \in ConnMap
  BY <1>1, ConfigFacts
<1>3. TypeOK
  <2>1. /\ phase \in {"new", "boot", "serve"} /\ desiredSet \in BOOLEAN
        /\ generation \in Nat /\ created \in SUBSET Clients
        /\ clients \in ClientMap /\ configs \in ConnMap /\ desired \in ConnMap
    BY <1>1, <1>2 DEF ServerInit
  <2>2. /\ connOf \in [Clients -> Conns \cup {NoConn}] /\ closes \in [Clients -> Nat]
    BY DEF ServerInit
  <2>3. /\ pc \in [Callers -> {"idle", "creating", "pinging", "closing"}]
        /\ kind \in [Callers -> {"none", "Apply", "Upsert", "Remove"}]
        /\ snapshot \in [Callers -> Nat]
    BY DEF ServerInit
  <2>4. /\ want \in [Callers -> ConnMap] /\ reused \in [Callers -> SUBSET Ids]
        /\ made \in [Callers -> ClientMap] /\ closing \in [Callers -> SUBSET Clients]
    BY <1>1 DEF ServerInit
  <2>5. QED
    BY <2>1, <2>2, <2>3, <2>4 DEF TypeOK
<1>4. IInv
  <2>1. \A a \in Callers : Held(a) = {}
    BY NoClientsEmpty DEF ServerInit, Held
  <2>2. Ownership
    BY <2>1 DEF ServerInit, Ownership, LocalShape, InstalledOpen, InstalledOnce, HeldOpen,
                HeldOnce, MadeOnce, ClosedOnce, UncreatedUnclosed, NoLeak, NoClients
  <2>3. Pairing
    BY DEF ServerInit, Pairing, ConnectionsAuthoritative, NoNilClient, MadeWanted,
           ReusedKept, SnapshotPast, DesiredFirst, UpsertSingle, NoClients, NoConns
  <2>4. QED
    BY <1>3, <2>2, <2>3 DEF IInv
<1>5. items \in [Ids -> Item]
  <2>1. \A id \in Ids : Loading(cfg.conns)[id] \in Item
    BY DEF Loading, Bare, Item
  <2>2. QED
    BY <2>1 DEF ServerInit, Loading
<1>6. /\ stage \in [Procs -> {"absent", "idle"}] /\ txn = Nobody
      /\ job \in [Procs -> Configs] /\ prev \in [Procs -> Configs]
      /\ result \in [Callers -> {"none", "ok", "error"}]
  BY <1>1 DEF ServerInit
<1>7. /\ sampling \in SamplingType /\ sampling.at = "idle"
      /\ request \in [Handlers -> RequestType] /\ \A h \in Handlers : request[h].at = "idle"
  BY DEF ServerInit, NotSampling, NotRequested, SamplingType, RequestType
<1>8. writes \in 0..MaxWrites
  BY ServerAssumption DEF ServerInit
<1>9. ServerTypeOK
  <2>1. file \in Configs \cup {Torn} /\ hash \in Configs \cup {Torn} /\ monitor \in ConnMap
    BY <1>1, <1>2 DEF ServerInit
  <2>2. QED
    BY <1>1, <1>3, <1>5, <1>6, <1>7, <1>8, <2>1 DEF ServerTypeOK, SamplingType, RequestType
<1>10. Serving /\ Division
  BY CallerFacts DEF ServerInit, Serving, Division, Busy
<1>11. Exclusive /\ Transactions
  BY <1>6, CallerFacts DEF ServerInit, Exclusive, Transactions, Progress, Inside
<1>12. Requests /\ Sampling
  BY <1>7 DEF Requests, HandlerHolds, Reading, Sampling
<1>13. QED
  BY <1>4, <1>9, <1>10, <1>11, <1>12 DEF SInv

LEMMA ServerNextInv == ASSUME SInv, [ServerNext]_serverVars PROVE SInv'
<1>1. CASE UNCHANGED serverVars
  <2>1. UNCHANGED <<manager, cfg, txn, stage, job, prev, monitor, items, sampling, file,
                    hash, result, request, writes>>
    BY <1>1 DEF serverVars, server, dashboard
  <2>2. SamplerOnly
    BY <2>1 DEF SamplerOnly, server
  <2>3. Sampling'
    BY <2>1, SamplerFacts DEF Sampling
  <2>4. QED
    BY <2>1, <2>2, <2>3, SamplerFacts, WorkerStep
<1>2. QED
  BY <1>1, ManagerStepInv, CollectInv, FileInv, ConfigStepInv, SampleBeginInv,
     SamplerStepInv, HandlerStepInv, AskInv DEF ServerNext

LEMMA ServerInvariance == ServerSpec => []SInv
BY ServerInitInv, ServerNextInv, PTL DEF ServerSpec

(* The program stays within its types, the manager's included.             *)
THEOREM ServerTypeCorrect == ServerSpec => []ServerTypeOK
<1>1. SInv => ServerTypeOK
  BY DEF SInv
<1>2. QED
  BY <1>1, ServerInvariance, PTL

(* What the manager promises holds in the running program, where clients   *)
(* that are closed and forgotten may be handed out again.                  *)
THEOREM ManagerInService ==
  ServerSpec => [](InstalledOpen /\ ClosedOnce /\ NoLeak /\ ConnectionsAuthoritative
                     /\ NoNilClient)
<1>1. SInv => InstalledOpen /\ ClosedOnce /\ NoLeak /\ ConnectionsAuthoritative /\ NoNilClient
  BY DEF SInv, IInv, Ownership, Pairing
<1>2. QED
  BY <1>1, ServerInvariance, PTL

(* A transaction that ends, however it ends, leaves the manager and the    *)
(* sampler at the configuration that is in service.                        *)
THEOREM AtomicTransactions == ServerSpec => []TransactionsAreAtomic
<1>1. SInv => TransactionsAreAtomic
  BY DEF SInv, Transactions, TransactionsAreAtomic
<1>2. QED
  BY <1>1, ServerInvariance, PTL

(* The client a handler uses belongs to the configuration it was checked   *)
(* against.                                                                *)
THEOREM PairedHandlers == ServerSpec => []HandlersArePaired
<1>1. SInv => HandlersArePaired
  BY DEF SInv, Requests, HandlerHolds, HandlersArePaired
<1>2. QED
  BY <1>1, ServerInvariance, PTL

(* No save or reload fails with ErrStaleConfiguration.                     *)
THEOREM NeverStale == ServerSpec => []ApplyNeverStale
<1>1. SInv => ApplyNeverStale
  BY DEF SInv, Division, Busy, ApplyNeverStale
<1>2. QED
  BY <1>1, ServerInvariance, PTL

(* A mutation gets its client only while its cluster is writable.          *)
THEOREM WritesAreRefused == ServerSpec => ReadOnlyRefusesWrites
<1>1. SInv /\ [ServerNext]_serverVars =>
        [\A h \in Handlers : request[h].at # "write" /\ request'[h].at = "write"
           => request[h].id \notin cfg.readOnly]_serverVars
  <2> SUFFICES ASSUME SInv, ServerNext, NEW h \in Handlers,
                      request[h].at # "write", request'[h].at = "write"
               PROVE  request[h].id \notin cfg.readOnly
    OBVIOUS
  <2>1. PICK g \in Handlers : HandlerStep(g) \/ \E id \in Ids : Ask(g, id)
    <3>1. request' # request
      OBVIOUS
    <3>2. ASSUME UNCHANGED request PROVE FALSE
      BY <3>1, <3>2
    <3>3. QED
      BY <3>2 DEF ServerNext, ManagerStep, Collect, Edit, Submit, NewWatcher, Poll,
        ConfigStep, Lock, Refuse, Decide, Applied, SaveOK, SaveFails, Restored, Narrowed,
        UpdateConfig, SampleBegin, SamplerStep, Lookup, Reconnect, Reconnected, Query,
        Merge, SamplerOnly
  <2>2. g = h
    BY <2>1, RequestFacts DEF HandlerStep, ReadConfig, ReadClient, Finish, Ask
  <2>3. request[h].at = "forWrite"
    <3>1. CASE \E id \in Ids : Ask(h, id)
      BY <3>1, RequestFacts DEF Ask, NotRequested
    <3>2. CASE Finish(h)
      BY <3>2, RequestFacts DEF Finish, NotRequested
    <3>3. CASE ReadConfig(h)
      BY <3>3, RequestFacts DEF ReadConfig, NotRequested, RequestType
    <3>4. CASE ReadClient(h)
      BY <3>4, RequestFacts DEF ReadClient, NotRequested, RequestType
    <3>5. QED
      BY <2>1, <2>2, <3>1, <3>2, <3>3, <3>4 DEF HandlerStep
  <2>4. QED
    BY <2>3, RequestFacts DEF HandlerHolds, Writable
<1>2. QED
  BY <1>1, ServerInvariance, PTL DEF ServerSpec, ReadOnlyRefusesWrites

-----------------------------------------------------------------------------
(* The abstract pool in service.                                           *)

(* To the manager a step of the program is one of its own steps, or lets   *)
(* a closed client stand for a new one.                                    *)
LEMMA ServerStepOfManager ==
  ASSUME SInv, [ServerNext]_serverVars
  PROVE  [Next]_vars \/ \E c \in Clients : Collect(c)
<1>1. ASSUME UNCHANGED manager PROVE [Next]_vars
  BY <1>1 DEF manager
<1>2. CASE UNCHANGED serverVars
  BY <1>1, <1>2 DEF serverVars
<1>3. ASSUME NEW a \in Callers, ManagerStep(a) PROVE Next
  BY <1>3 DEF ManagerStep, Next, Proceed
<1>4. CASE \/ \E f \in Configs : Edit(f) \/ \E p \in Writers : Submit(p, f)
           \/ NewWatcher \/ Poll
  BY <1>1, <1>4 DEF Edit, Submit, NewWatcher, Poll
<1>5. ASSUME NEW p \in Procs, ConfigStep(p) PROVE [Next]_vars
  <2>1. /\ p \in Callers /\ job[p].conns \in ConnMap
        /\ stage[p] \in Inside => prev[p].conns \in ConnMap
    BY CallerFacts, ConfigFacts, TxnFacts DEF Progress, SInv, ServerTypeOK
  <2>2. CASE Lock(p) \/ Refuse(p) \/ Applied(p) \/ SaveOK(p) \/ Narrowed(p) \/ UpdateConfig(p)
    BY <1>1, <2>2 DEF Lock, Refuse, Applied, SaveOK, Narrowed, UpdateConfig
  <2>3. CASE Decide(p)
    BY <1>1, <2>1, <2>3 DEF Decide, Next, Begin
  <2>4. CASE SaveFails(p)
    BY <1>1, <2>1, <2>4 DEF SaveFails, Inside, Next, Begin
  <2>5. CASE Restored(p)
    BY <1>1, <2>1, <2>5 DEF Restored, Inside, Next, Begin
  <2>6. QED
    BY <1>5, <2>2, <2>3, <2>4, <2>5 DEF ConfigStep
<1>6. CASE (\E id \in Ids : SampleBegin(id)) \/ Lookup \/ Reconnected \/ Query \/ Merge
  BY <1>1, <1>6 DEF SampleBegin, Lookup, Reconnected, Query, Merge
<1>7. CASE Reconnect
  <2>1. sampling.id \in Ids /\ sampling.conn \in Conns /\ Sampler \in Callers
    BY <1>7, SamplerFacts, CallerFacts DEF Reconnect, Sampling
  <2>2. QED
    BY <1>1, <1>7, <2>1 DEF Reconnect, Next, Begin
<1>8. ASSUME NEW h \in Handlers, HandlerStep(h) \/ \E id \in Ids : Ask(h, id)
      PROVE  [Next]_vars
  BY <1>1, <1>8 DEF HandlerStep, ReadConfig, ReadClient, Finish, Ask, HandlerOnly
<1>9. QED
  BY <1>2, <1>3, <1>4, <1>5, <1>6, <1>7, <1>8 DEF ServerNext, SamplerStep

(* Of what the program shows of its connections, every step is one the     *)
(* abstract pool allows: a switch of everything, a narrowing, or one       *)
(* cluster that comes up with its authoritative settings.                  *)
THEOREM PoolInService == ServerSpec => [][Pool!Next]_<<desired, Connected>>
<1>1. SInv /\ [ServerNext]_serverVars => [Pool!Next]_<<desired, Connected>>
  <2> SUFFICES ASSUME SInv, [ServerNext]_serverVars
               PROVE  [Pool!Next]_<<desired, Connected>>
    OBVIOUS
  <2>1. CASE [Next]_vars
    <3>1. ConnMap = Pool!ConnMap
      BY DEF ConnMap, Pool!ConnMap
    <3>2. QED
      BY <2>1, <3>1, StepCases DEF SInv, Pool!Next, Pool!Switch, Pool!Narrow, Pool!Connect
  <2>2. ASSUME NEW c \in Clients, Collect(c)
        PROVE  UNCHANGED <<desired, Connected>>
    <3>1. /\ UNCHANGED <<clients, desired>> /\ closes[c] > 0
          /\ connOf' = [connOf EXCEPT ![c] = NoConn]
      BY <2>2 DEF Collect, shared
    <3>2. \A id \in Ids : clients[id] # NoClient => connOf'[clients[id]] = connOf[clients[id]]
      BY <3>1, SamplerFacts DEF SInv, IInv, Ownership, InstalledOpen, TypeOK, ClientMap
    <3>3. QED
      BY <3>1, <3>2 DEF Connected
  <2>3. QED
    BY <2>1, <2>2, ServerStepOfManager
<1>2. QED
  BY <1>1, ServerInvariance, PTL DEF ServerSpec
=============================================================================
