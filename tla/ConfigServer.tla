---------------------------- MODULE ConfigServer ----------------------------
(***************************************************************************)
(* The running program around the connection manager: the configuration    *)
(* transactions of internal/api/server.go, the watcher that reloads the    *)
(* file, the dashboard sampler that reconnects and samples clusters, and   *)
(* the request handlers that use a client, all sharing one ClusterManager. *)
(*                                                                         *)
(* A configuration is the connections of its enabled clusters and which of *)
(* them are read-only.  Whatever else it says (names, sampling options,    *)
(* the blanked passwords putConfig fills in from the current settings) is  *)
(* part of the submitted value.  The file holds a configuration, or Torn   *)
(* when a write to a bind-mounted file stopped half way.                   *)
(*                                                                         *)
(* The instance starts where main has finished connect and NewServer, with *)
(* every cluster still offline; generations are counted from there.        *)
(***************************************************************************)
EXTENDS ClusterManager

CONSTANTS Writers,      (* requests that save or restore a configuration     *)
          Watcher,      (* the goroutine that polls the file                 *)
          Sampler,      (* a worker of Sampler.Refresh                       *)
          Handlers,     (* requests that use a cluster                       *)
          Configs,      (* the configurations somebody may write             *)
          Torn,         (* a file that does not parse                        *)
          Nobody,       (* configTxn is free                                 *)
          Flaky,        (* settings whose brokers may fail to answer         *)
          BindMounted,  (* the file is a bind mount: rename fails with EBUSY *)
          BootEdits,    (* the file may change before NewWatcher reads it    *)
          BackEdits,    (* an edit may put back what the watcher has seen    *)
          MaxWrites     (* bound on edits and requests that write the file   *)

ASSUME ServerAssumption ==
  /\ Callers = Writers \cup {Watcher, Sampler}
  /\ Watcher \notin Writers /\ Sampler \notin Writers /\ Watcher # Sampler
  /\ Nobody \notin Callers
  /\ Configs \subseteq [conns : ConnMap, readOnly : SUBSET Ids]
  /\ Torn \notin Configs
  /\ Flaky \subseteq Conns
  /\ BindMounted \in BOOLEAN /\ BootEdits \in BOOLEAN /\ BackEdits \in BOOLEAN
  /\ MaxWrites \in Nat

VARIABLES
  file,      (* config.yaml                                                  *)
  hash,      (* Watcher.hash: the content it last acted on                   *)
  cfg,       (* Server.cfg                                                   *)
  monitor,   (* Sampler.configs, as a map to connections                     *)
  items,     (* Sampler.items: what the dashboard shows                      *)
  txn,       (* who holds configTxn for writing                              *)
  stage,     (* where a writer or the watcher is                             *)
  job,       (* the configuration it is about                                *)
  prev,      (* its local variable current                                   *)
  result,    (* how the manager operation a caller last ran ended            *)
  sampling,  (* the sampler worker: its place, cluster, settings, client     *)
  request,   (* a handler: its place, cluster, what it read under the lock   *)
  writes     (* edits and requests so far                                    *)

manager    == vars
server     == <<cfg, txn, stage, job, prev>>
dashboard  == <<monitor, items, sampling>>
serverVars == <<manager, server, dashboard, file, hash, result, request, writes>>

Procs == Writers \cup {Watcher}
Item  == [status : {"absent", "loading", "offline", "online"},
          conn : Conns \cup {NoConn}]
Bare(status) == [status |-> status, conn |-> NoConn]

NotSampling  == [at |-> "idle", id |-> NoConn, conn |-> NoConn, client |-> NoClient]
NotRequested == [at |-> "idle", id |-> NoConn, conn |-> NoConn, client |-> NoClient]

ServerTypeOK ==
  /\ TypeOK
  /\ file \in Configs \cup {Torn}
  /\ hash \in Configs \cup {Torn}
  /\ cfg \in Configs
  /\ monitor \in ConnMap
  /\ items \in [Ids -> Item]
  /\ txn \in Procs \cup {Nobody}
  /\ stage \in [Procs -> {"absent", "idle", "waiting", "deciding", "applying", "saving",
                          "updating", "restoring", "narrowing"}]
  /\ job \in [Procs -> Configs] /\ prev \in [Procs -> Configs]
  /\ result \in [Callers -> {"none", "ok", "error"}]
  /\ writes \in 0..MaxWrites
  /\ sampling \in [at : {"idle", "lookup", "missing", "upserting", "again", "query", "offline", "online"},
                   id : Ids \cup {NoConn}, conn : Conns \cup {NoConn},
                   client : Clients \cup {NoClient}]
  /\ request \in [Handlers -> [at : {"idle", "config", "forRead", "forWrite",
                                     "read", "write"},
                               id : Ids \cup {NoConn}, conn : Conns \cup {NoConn},
                               client : Clients \cup {NoClient}]]

Loading(conns) == [id \in Ids |-> IF conns[id] = NoConn THEN Bare("absent")
                                                        ELSE Bare("loading")]

ServerInit ==
  /\ cfg \in Configs
  /\ file = cfg
  /\ hash = cfg
  /\ phase = "serve" /\ desired = cfg.conns /\ desiredSet = TRUE
  /\ clients = NoClients /\ configs = NoConns /\ generation = 0
  /\ created = {}
  /\ connOf = [c \in Clients |-> NoConn] /\ closes = [c \in Clients |-> 0]
  /\ pc = [a \in Callers |-> "idle"] /\ kind = [a \in Callers |-> "none"]
  /\ snapshot = [a \in Callers |-> 0] /\ want = [a \in Callers |-> NoConns]
  /\ reused = [a \in Callers |-> {}] /\ made = [a \in Callers |-> NoClients]
  /\ closing = [a \in Callers |-> {}]
  /\ monitor = cfg.conns
  /\ items = Loading(cfg.conns)
  /\ txn = Nobody
  /\ stage = [p \in Procs |-> IF p = Watcher THEN "absent" ELSE "idle"]
  /\ job = [p \in Procs |-> cfg] /\ prev = [p \in Procs |-> cfg]
  /\ result = [a \in Callers |-> "none"]
  /\ sampling = NotSampling
  /\ request = [h \in Handlers |-> NotRequested]
  /\ writes = 0

-----------------------------------------------------------------------------
(* Manager operations in flight.  Create and Ping can fail if the brokers  *)
(* may fail to answer, or if the browser of a saving request goes away.    *)
MayFail(a) == \/ \E id \in Ids \ reused[a] : want[a][id] \in Flaky
              \/ a \in Writers /\ stage[a] = "applying"

Ended(a, how) == result' = [result EXCEPT ![a] = how]

ManagerStep(a) ==
  /\ \/ (CreateClient(a) \/ PingOK(a) \/ CloseClient(a)) /\ UNCHANGED result
     \/ Fail(a) /\ MayFail(a) /\ Ended(a, "error")
     \/ ApplyCommit(a) /\ Ended(a, IF Current(a) THEN "ok" ELSE "error")
     \/ /\ UpsertCommit(a)
        /\ Ended(a, IF Current(a) /\ Allows(want[a]) THEN "ok" ELSE "error")
  /\ UNCHANGED <<server, dashboard, file, hash, request, writes>>

(* The factory's supply of clients is unbounded: a closed client that      *)
(* nobody refers to stands for a new one from then on.                     *)
Collect(c) ==
  /\ c \in created /\ closes[c] > 0
  /\ \A a \in Callers : c \notin closing[a]
  /\ sampling.client # c /\ \A h \in Handlers : request[h].client # c
  /\ created' = created \ {c}
  /\ closes' = [closes EXCEPT ![c] = 0]
  /\ connOf' = [connOf EXCEPT ![c] = NoConn]
  /\ UNCHANGED <<shared, local, server, dashboard, file, hash, result, request, writes>>

-----------------------------------------------------------------------------
(* The file and its watcher.                                               *)

(* NewWatcher has run: the goroutines are started, and HTTP is served.     *)
Started == stage[Watcher] # "absent"

(* Load parses and validates the content.                                  *)
Fault_LegalUnchecked(content) == TRUE
Legal(content) == content # Torn

(* Somebody edits the file by hand; the edit is legal.                     *)
Edit(f) ==
  /\ writes < MaxWrites
  /\ BootEdits \/ Started
  /\ BackEdits \/ f # hash
  /\ f # file
  /\ file' = f
  /\ writes' = writes + 1
  /\ UNCHANGED <<manager, server, dashboard, hash, result, request>>

(* NewWatcher takes what the file holds then as already acted upon; main   *)
(* loaded its configuration before it connected the clusters.              *)
NewWatcher ==
  /\ ~ Started
  /\ Legal(file)
  /\ hash' = file
  /\ stage' = [stage EXCEPT ![Watcher] = "idle"]
  /\ UNCHANGED <<manager, cfg, txn, job, prev, dashboard, file, result, request, writes>>

(* The hash covers the whole content, not only the connections in it.      *)
Fault_ChangedConnections == file.conns # hash.conns
Changed == file # hash

(* Poll reads a changed file that loads, remembers it, and calls onChange, *)
(* whose ReconcileConfig then waits for configTxn.                         *)
Poll ==
  /\ stage[Watcher] = "idle"
  /\ Changed
  /\ Legal(file)
  /\ hash' = file
  /\ job' = [job EXCEPT ![Watcher] = file]
  /\ stage' = [stage EXCEPT ![Watcher] = "waiting"]
  /\ UNCHANGED <<manager, cfg, txn, prev, dashboard, file, result, request, writes>>

-----------------------------------------------------------------------------
(* Configuration transactions: putConfig, restoreConfigBackup (by writers) *)
(* and ReconcileConfig (by the watcher).                                   *)

(* A request body is decoded, or a backup loaded, before the lock is asked *)
(* for.                                                                    *)
Submit(p, f) ==
  /\ p \in Writers
  /\ Started
  /\ stage[p] = "idle"
  /\ writes < MaxWrites
  /\ writes' = writes + 1
  /\ job' = [job EXCEPT ![p] = f]
  /\ stage' = [stage EXCEPT ![p] = "waiting"]
  /\ UNCHANGED <<manager, cfg, txn, prev, dashboard, file, hash, result, request>>

(* Who is inside configTxn.                                                *)
Fault_ReadingNothing(h) == FALSE
Reading(h) == request[h].at \in {"config", "forRead", "forWrite"}

Fault_UnlockedAlways == TRUE
Unlocked == txn = Nobody

(* configTxn.Lock, and the read of the current configuration.              *)
Lock(p) ==
  /\ stage[p] = "waiting"
  /\ Unlocked
  /\ \A h \in Handlers : ~ Reading(h)
  /\ txn' = p
  /\ prev' = [prev EXCEPT ![p] = cfg]
  /\ stage' = [stage EXCEPT ![p] = "deciding"]
  /\ UNCHANGED <<manager, cfg, job, dashboard, file, hash, result, request, writes>>

(* Manager.Matches                                                         *)
Matches(conns) == desiredSet /\ conns = desired

(* Where an unchanged or applied set of clusters takes p.                  *)
AfterApply(p) == IF p = Watcher THEN "updating" ELSE "saving"

(* applyClustersIfChanged: nothing to do for display-only changes.         *)
Decide(p) ==
  /\ stage[p] = "deciding"
  /\ IF Matches(job[p].conns)
       THEN /\ stage' = [stage EXCEPT ![p] = AfterApply(p)]
            /\ UNCHANGED manager
       ELSE /\ ApplyBegin(p, job[p].conns)
            /\ stage' = [stage EXCEPT ![p] = "applying"]
  /\ Ended(p, "none")
  /\ UNCHANGED <<cfg, txn, job, prev, dashboard, file, hash, request, writes>>

(* The deferred configTxn.Unlock as p returns, with served in service; its *)
(* locals are forgotten, as the next transaction sets them again.          *)
Fault_ReturnLocked(p, served) ==
  /\ UNCHANGED <<txn, job, prev>>
  /\ cfg' = served
  /\ stage' = [stage EXCEPT ![p] = "idle"]
  /\ Ended(p, "none")
Return(p, served) ==
  /\ txn' = Nobody
  /\ cfg' = served
  /\ stage' = [stage EXCEPT ![p] = "idle"]
  /\ job' = [job EXCEPT ![p] = served]
  /\ prev' = [prev EXCEPT ![p] = served]
  /\ Ended(p, "none")

(* putConfig validates what it has filled in only now, under the lock.     *)
Refuse(p) ==
  /\ p \in Writers
  /\ stage[p] = "deciding"
  /\ Return(p, cfg)
  /\ UNCHANGED <<manager, dashboard, file, hash, request, writes>>

(* Apply has returned: on an error the transaction ends as if never begun. *)
Applied(p) ==
  /\ stage[p] = "applying" /\ pc[p] = "idle"
  /\ IF result[p] = "ok"
       THEN /\ stage' = [stage EXCEPT ![p] = AfterApply(p)]
            /\ UNCHANGED <<cfg, txn, job, prev, result>>
       ELSE Return(p, cfg)
  /\ UNCHANGED <<manager, dashboard, file, hash, request, writes>>

SaveOK(p) ==
  /\ stage[p] = "saving"
  /\ file' = job[p]
  /\ stage' = [stage EXCEPT ![p] = "updating"]
  /\ UNCHANGED <<manager, cfg, txn, job, prev, dashboard, hash, result, request, writes>>

(* What a failed Save leaves in the file: the old content, unless it was   *)
(* being rewritten in place.                                               *)
AfterFailedSave(p) == {file} \cup IF BindMounted THEN {Torn, job[p]} ELSE {}

(* connectionsChanged: the transaction ran an Apply, and it succeeded.     *)
Fault_SwitchedForgotten(p) == FALSE
Switched(p) == result[p] = "ok"

(* Only a transaction that switched connections goes on to                 *)
(* rollbackClusters, which applies the previous ones.                      *)
SaveFails(p) ==
  /\ stage[p] = "saving"
  /\ file' \in AfterFailedSave(p)
  /\ IF Switched(p)
       THEN /\ ApplyBegin(p, prev[p].conns)
            /\ stage' = [stage EXCEPT ![p] = "restoring"]
            /\ UNCHANGED <<cfg, txn, job, prev, result>>
       ELSE Return(p, cfg) /\ UNCHANGED manager
  /\ UNCHANGED <<dashboard, hash, request, writes>>

(* rollbackClusters: if the previous connections cannot be restored, at    *)
(* least the new ones must go (SetDesired), and the sampler reconnects.    *)
Restored(p) ==
  /\ stage[p] = "restoring" /\ pc[p] = "idle"
  /\ IF result[p] = "ok"
       THEN Return(p, cfg) /\ UNCHANGED manager
       ELSE /\ SetDesired(p, prev[p].conns)
            /\ stage' = [stage EXCEPT ![p] = "narrowing"]
            /\ UNCHANGED <<cfg, txn, job, prev, result>>
  /\ UNCHANGED <<dashboard, file, hash, request, writes>>

Narrowed(p) ==
  /\ stage[p] = "narrowing" /\ pc[p] = "idle"
  /\ Return(p, cfg)
  /\ UNCHANGED <<manager, dashboard, file, hash, request, writes>>

(* updateConfig and Sampler.Update: items of clusters whose connection did *)
(* not change are carried over.  Nothing reads both s.cfg and the sampler, *)
(* so the two assignments are one step.                                    *)
UpdateConfig(p) ==
  /\ stage[p] = "updating"
  /\ monitor' = job[p].conns
  /\ items' = [id \in Ids |-> IF monitor[id] = job[p].conns[id]
                                THEN items[id] ELSE Loading(job[p].conns)[id]]
  /\ Return(p, job[p])
  /\ UNCHANGED <<manager, sampling, file, hash, request, writes>>

ConfigStep(p) ==
  \/ Lock(p) \/ Refuse(p) \/ Decide(p) \/ Applied(p) \/ SaveOK(p) \/ SaveFails(p)
  \/ Restored(p) \/ Narrowed(p) \/ UpdateConfig(p)

-----------------------------------------------------------------------------
(* The sampler worker: KafkaSource.Snapshot for one cluster, and the merge *)
(* of its result by Refresh.                                               *)

SamplerOnly == UNCHANGED <<server, file, hash, request, writes>>
SamplerAt(place) == sampling' = [sampling EXCEPT !.at = place]

(* Refresh starts a worker for a cluster of the sampler's configuration.   *)
SampleBegin(id) ==
  /\ Started
  /\ sampling.at = "idle"
  /\ monitor[id] # NoConn
  /\ sampling' = [NotSampling EXCEPT !.at = "lookup", !.id = id, !.conn = monitor[id]]
  /\ SamplerOnly /\ UNCHANGED <<manager, monitor, items, result>>

(* Where the worker goes if there is no client: it reconnects once.        *)
Fault_GivesUp == "offline"
WithoutClient == IF sampling.at = "lookup" THEN "missing" ELSE "offline"

(* Clusters.Kafka(id), before and after the reconnect.                     *)
Lookup ==
  /\ sampling.at \in {"lookup", "again"}
  /\ LET client == clients[sampling.id]
     IN IF client # NoClient
          THEN sampling' = [sampling EXCEPT !.at = "query", !.client = client]
          ELSE SamplerAt(WithoutClient)
  /\ SamplerOnly /\ UNCHANGED <<manager, monitor, items, result>>

(* Clusters.Upsert begins, or is refused because the settings are stale.   *)
Reconnect ==
  /\ sampling.at = "missing"
  /\ IF Allows(Only(sampling.id, sampling.conn))
       THEN /\ UpsertBegin(Sampler, sampling.id, sampling.conn)
            /\ SamplerAt("upserting")
       ELSE SamplerAt("offline") /\ UNCHANGED manager
  /\ Ended(Sampler, "none")
  /\ SamplerOnly /\ UNCHANGED <<monitor, items>>

Reconnected ==
  /\ sampling.at = "upserting" /\ pc[Sampler] = "idle"
  /\ SamplerAt(IF result[Sampler] = "ok" THEN "again" ELSE "offline")
  /\ Ended(Sampler, "none")
  /\ SamplerOnly /\ UNCHANGED <<manager, monitor, items>>

(* The admin requests: they fail on a closed client, and may fail if the   *)
(* brokers may not answer.                                                 *)
Query ==
  /\ sampling.at = "query"
  /\ \/ closes[sampling.client] = 0 /\ SamplerAt("online")
     \/ /\ closes[sampling.client] > 0 \/ connOf[sampling.client] \in Flaky
        /\ SamplerAt("offline")
  /\ SamplerOnly /\ UNCHANGED <<manager, monitor, items, result>>

(* currentConfigLocked: is a result for these settings still wanted?       *)
StillCurrent == monitor[sampling.id] = sampling.conn

(* Refresh merges the result unless the cluster's settings have changed.   *)
Merge ==
  /\ sampling.at \in {"offline", "online"}
  /\ IF StillCurrent
       THEN items' = [items EXCEPT ![sampling.id] =
              IF sampling.at = "online"
                THEN [status |-> "online", conn |-> connOf[sampling.client]]
                ELSE Bare("offline")]
       ELSE UNCHANGED items
  /\ sampling' = NotSampling
  /\ SamplerOnly /\ UNCHANGED <<manager, monitor, result>>

SamplerStep == Lookup \/ Reconnect \/ Reconnected \/ Query \/ Merge

-----------------------------------------------------------------------------
(* Request handlers: kafka, kafkaClient, writableKafka, writableKafkaClient *)

HandlerOnly == UNCHANGED <<manager, server, dashboard, file, hash, result, writes>>

(* configTxn.RLock: a waiting Lock keeps new readers out.                  *)
Ask(h, id) ==
  /\ Started
  /\ request[h].at = "idle"
  /\ txn = Nobody
  /\ \A p \in Procs : stage[p] # "waiting"
  /\ request' = [request EXCEPT ![h] = [NotRequested EXCEPT !.at = "config", !.id = id]]
  /\ HandlerOnly

(* The read-only check writableKafka and writableKafkaClient make.         *)
Writable(id) == id \notin cfg.readOnly

(* clusterConfig, and for a mutation the read-only check.                  *)
ReadConfig(h) ==
  /\ request[h].at = "config"
  /\ LET id == request[h].id
         Admit(place) == [request EXCEPT ![h].at = place, ![h].conn = cfg.conns[id]]
     IN \/ request' = Admit("forRead")
        \/ request' = IF Writable(id) THEN Admit("forWrite")
                                      ELSE [request EXCEPT ![h] = NotRequested]
  /\ HandlerOnly

(* Clusters.Kafka(id), RUnlock: the handler goes on to use the client.     *)
ReadClient(h) ==
  /\ request[h].at \in {"forRead", "forWrite"}
  /\ LET client == clients[request[h].id]
         place  == IF request[h].at = "forRead" THEN "read" ELSE "write"
     IN request' = IF client = NoClient
                     THEN [request EXCEPT ![h] = NotRequested]
                     ELSE [request EXCEPT ![h].at = place, ![h].client = client]
  /\ HandlerOnly

(* The Kafka operation ends, with or without an error.                     *)
Finish(h) ==
  /\ request[h].at \in {"read", "write"}
  /\ request' = [request EXCEPT ![h] = NotRequested]
  /\ HandlerOnly

HandlerStep(h) == ReadConfig(h) \/ ReadClient(h) \/ Finish(h)

-----------------------------------------------------------------------------
ServerNext ==
  \/ \E a \in Callers : ManagerStep(a)
  \/ \E c \in Clients : Collect(c)
  \/ \E f \in Configs : Edit(f) \/ \E p \in Writers : Submit(p, f)
  \/ NewWatcher
  \/ Poll
  \/ \E p \in Procs : ConfigStep(p)
  \/ \E id \in Ids : SampleBegin(id)
  \/ SamplerStep
  \/ \E h \in Handlers : HandlerStep(h) \/ \E id \in Ids : Ask(h, id)

ServerSpec == ServerInit /\ [][ServerNext]_serverVars

(* Goroutines keep running, calls return, locks are handed over, the       *)
(* tickers of the watcher and the sampler keep firing, every cluster is    *)
(* sampled again and again, and memory is reclaimed.  Nobody has to edit   *)
(* the file or send a request.                                             *)
ServerFairness ==
  /\ \A a \in Callers : WF_serverVars(ManagerStep(a))
  /\ \A c \in Clients : WF_serverVars(Collect(c))
  /\ WF_serverVars(NewWatcher) /\ WF_serverVars(Poll)
  /\ \A p \in Procs : WF_serverVars(ConfigStep(p))
  /\ \A id \in Ids : SF_serverVars(SampleBegin(id))
  /\ WF_serverVars(SamplerStep)
  /\ \A h \in Handlers : WF_serverVars(HandlerStep(h))

FairServerSpec == ServerSpec /\ ServerFairness

-----------------------------------------------------------------------------
(* Safety.                                                                 *)

(* Whenever no transaction is open, the manager, the sampler and the       *)
(* handlers agree on what is configured: a save that was rejected, failed  *)
(* or was rolled back, even one whose rollback failed, leaves no trace.    *)
TransactionsAreAtomic ==
  txn = Nobody => desired = cfg.conns /\ monitor = cfg.conns

(* A handler that gets a client gets one for the configuration it read,    *)
(* whose read-only flag it checked, and keeps it through later changes.    *)
HandlersArePaired ==
  \A h \in Handlers : request[h].at \in {"read", "write"} =>
    connOf[request[h].client] = request[h].conn

(* Under configTxn no Apply ever fails with ErrStaleConfiguration: nobody  *)
(* else moves the generation, so saves and reloads never fail spuriously   *)
(* and a rollback only fails if a broker does.                             *)
ApplyNeverStale ==
  \A p \in Procs : kind[p] = "Apply" /\ pc[p] \in {"creating", "pinging"}
                     => snapshot[p] = generation

(* A mutation that gets its client does so while the cluster is writable:  *)
(* no save or reload that makes the cluster read-only comes between the    *)
(* check and the moment the client is handed out.                          *)
ReadOnlyRefusesWrites ==
  [][\A h \in Handlers : request[h].at # "write" /\ request'[h].at = "write"
       => request[h].id \notin cfg.readOnly]_serverVars

(* What the dashboard shows as online was measured on the connection the   *)
(* configuration names.                                                    *)
SnapshotsAreTruthful ==
  \A id \in Ids : items[id].status = "online" => items[id].conn = monitor[id]

-----------------------------------------------------------------------------
(* Liveness.                                                               *)

(* If the file keeps a legal content, that content is in service in the    *)
(* end, whatever saves, stale polls and rollbacks went on meanwhile.       *)
FileIsServed ==
  \A f \in Configs : <>[](file = f) => <>[](cfg = f)

(* A reload that failed because a broker did not answer is tried again,    *)
(* until it succeeds or the file changes.                                  *)
ReloadIsRetried ==
  \A f \in Configs :
    <>[](file = f) => <>[](cfg = f) \/ []<>(stage[Watcher] = "applying")

(* Every save, restore and reload comes to an end.                         *)
TransactionsEnd ==
  \A p \in Procs : (stage[p] = "waiting") ~> (stage[p] = "idle")

(* A cluster whose settings stay is connected in the end, whoever          *)
(* disconnected it.                                                        *)
ClustersReconnect ==
  \A id \in Ids, conn \in Conns :
    <>[](desired[id] = conn) => <>[](clients[id] # NoClient)
=============================================================================
