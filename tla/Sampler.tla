------------------------------- MODULE Sampler -------------------------------
(***************************************************************************)
(* The dashboard sampler of internal/dashboard/sampler.go: the loop that   *)
(* samples every cluster in rounds, backs off from offline clusters, and   *)
(* is woken up by configuration changes, which may come in the middle of a *)
(* round.                                                                  *)
(*                                                                         *)
(* Time is counted down in ticks: a timer or a backoff is the number of    *)
(* ticks it still has to run, so nothing grows without bound.  A tick      *)
(* passes only when everything due has been done, as goroutines react to   *)
(* timers within a small part of one.                                      *)
(*                                                                         *)
(* A sampled value is reduced to the connection settings it was asked for  *)
(* and its status.  Which client answered is the subject of ConfigServer.  *)
(***************************************************************************)
EXTENDS Naturals, Sequences, FiniteSets

CONSTANTS Ids,            (* cluster ids                                     *)
          Conns,          (* connection settings                             *)
          Metas,          (* what else is shown: Name and ReadOnly           *)
          NoConfig,       (* not configured, or disabled                     *)
          Intervals,      (* values of Options.Interval, in ticks            *)
          HistorySizes,   (* values of Options.HistoryPoints                 *)
          MaxConcurrent,  (* Options.MaxConcurrent                           *)
          MaxDelay,       (* the longest backoff: five minutes, in ticks     *)
          Patience,       (* the timeout of Source.Snapshot, in ticks        *)
          FailureCap,     (* failures are counted up to here: the backoff is *)
                          (* MaxDelay from then on                           *)
          AgeCap          (* the age of a result is counted up to here       *)

ASSUME SamplerAssumption ==
  /\ NoConfig \notin [conn : Conns, meta : Metas]
  /\ IsFiniteSet(Ids)
  /\ Intervals \subseteq Nat \ {0} /\ Intervals # {} /\ IsFiniteSet(Intervals)
  /\ HistorySizes \subseteq Nat \ {0, 1} /\ HistorySizes # {}
  /\ MaxConcurrent \in Nat \ {0} /\ Patience \in Nat
  /\ FailureCap \in Nat \ {0} /\ AgeCap \in Nat
  /\ MaxDelay \in 1..2 ^ FailureCap

VARIABLES
  configs,   (* s.configs, by id                                             *)
  options,   (* s.options                                                    *)
  items,     (* s.items, by id                                               *)
  history,   (* s.history: the connection each point was sampled from        *)
  retries,   (* s.retries: the failures, and the ticks until `after`         *)
  wake,      (* the token in s.wake                                          *)
  loop,      (* where Run is                                                 *)
  timer,     (* ticks its timer still has to run                             *)
  round,     (* the workers of Refresh, by id                                *)
  age        (* ticks since an offline result was merged                     *)

state == <<configs, options, items, history, retries>>
svars == <<state, wake, loop, timer, round, age>>

Config  == [conn : Conns, meta : Metas]
Status  == {"loading", "offline", "online"}
Outcome == {"offline", "online", "onlineWithoutLag"}

Absent    == [status |-> "absent"]
NoRetry   == [failures |-> 0, left |-> 0]
NoWorker  == [at |-> "none"]
Item      == [status : Status, conn : Conns, meta : Metas]
Worker(c) == [at : {"queued"}, cfg : c] \cup [at : {"running"}, cfg : c, spent : 0..Patience]
             \cup [at : {"done"}, cfg : c, outcome : Outcome]

TypeOK ==
  /\ configs \in [Ids -> Config \cup {NoConfig}]
  /\ options \in [interval : Intervals, points : HistorySizes]
  /\ items \in [Ids -> Item \cup {Absent}]
  /\ history \in [Ids -> Seq(Conns)]
  /\ retries \in [Ids -> [failures : 0..FailureCap, left : 0..MaxDelay]]
  /\ wake \in BOOLEAN
  /\ loop \in {"refresh", "sampling", "arming", "waiting"}
  /\ timer \in Nat
  /\ round \in [Ids -> Worker(Config) \cup {NoWorker}]
  /\ age \in [Ids -> 0..AgeCap]

Loading(cfg) == [status |-> "loading", conn |-> cfg.conn, meta |-> cfg.meta]
Enabled(c)   == {id \in Ids : c[id] # NoConfig}

(* NewSampler calls Update on an empty sampler and takes the token back.   *)
Init ==
  /\ configs \in [Ids -> Config \cup {NoConfig}]
  /\ options \in [interval : Intervals, points : HistorySizes]
  /\ items = [id \in Ids |-> IF configs[id] = NoConfig THEN Absent
                                                        ELSE Loading(configs[id])]
  /\ history = [id \in Ids |-> <<>>]
  /\ retries = [id \in Ids |-> NoRetry]
  /\ wake = FALSE
  /\ loop = "refresh"
  /\ timer = 0
  /\ round = [id \in Ids |-> NoWorker]
  /\ age = [id \in Ids |-> 0]

-----------------------------------------------------------------------------
(* Update: a saved or reloaded configuration.                              *)

(* The latest n points of a history.  (A name that starts with Fault_ is a *)
(* seeded fault: see PROJECT.json.)                                        *)
Latest(points, n) ==
  IF Len(points) > n THEN SubSeq(points, Len(points) - n + 1, Len(points)) ELSE points

(* The clusters that were there before with the same Brokers and Security. *)
Fault_SameById(new) == {id \in Enabled(new) : configs[id] # NoConfig}
SameConnection(new) ==
  {id \in Enabled(new) : configs[id] # NoConfig /\ configs[id].conn = new[id].conn}

(* The name and the read-only mark an item shows are always the new ones.  *)
WithMeta(item, cfg) == [item EXCEPT !.meta = cfg.meta]

(* The non-blocking send into the channel of capacity one.                 *)
Fault_SignalIfReceived == wake' = (loop = "waiting")
Signal == wake' = TRUE

(* A backoff ends when the settings of its cluster change.                 *)
Fault_RetriesKept(id, same) == retries[id]
Carried(id, same) == IF id \in same THEN retries[id] ELSE NoRetry

Update(new, opts) ==
  LET same == SameConnection(new)
  IN /\ configs' = new
     /\ options' = opts
     /\ items' = [id \in Ids |-> CASE id \in same -> WithMeta(items[id], new[id])
                                   [] id \in Enabled(new) \ same -> Loading(new[id])
                                   [] OTHER -> Absent]
     /\ history' = [id \in Ids |-> IF id \in same THEN Latest(history[id], opts.points)
                                                  ELSE <<>>]
     /\ retries' = [id \in Ids |-> Carried(id, same)]
     /\ age' = [id \in Ids |-> IF id \in same THEN age[id] ELSE 0]
     /\ Signal
     /\ UNCHANGED <<loop, timer, round>>

-----------------------------------------------------------------------------
(* Refresh: one round.                                                     *)

(* Clusters whose retry.after is still to come are left out of the round.  *)
Fault_BackedOffForever(id) == retries[id].failures > 0
BackedOff(id) == retries[id].left > 0

(* Refresh begins; with nothing to sample it returns at once.              *)
Refresh ==
  /\ loop = "refresh"
  /\ LET due == {id \in Enabled(configs) : ~ BackedOff(id)}
     IN /\ round' = [id \in Ids |->
                       IF id \in due THEN [at |-> "queued", cfg |-> configs[id]]
                                     ELSE NoWorker]
        /\ loop' = IF due = {} THEN "arming" ELSE "sampling"
  /\ UNCHANGED <<state, wake, timer, age>>

At(place) == {id \in Ids : round[id].at = place}

(* A worker gets past the semaphore.                                       *)
StartWorker(id) ==
  /\ round[id].at = "queued"
  /\ Cardinality(At("running")) < MaxConcurrent
  /\ round' = [round EXCEPT ![id] = [at |-> "running", cfg |-> @.cfg, spent |-> 0]]
  /\ UNCHANGED <<state, wake, loop, timer, age>>

(* Source.Snapshot returns, at the latest when its timeout expires.        *)
FinishWorker(id) ==
  /\ round[id].at = "running"
  /\ \E outcome \in Outcome :
       round' = [round EXCEPT ![id] = [at |-> "done", cfg |-> @.cfg, outcome |-> outcome]]
  /\ UNCHANGED <<state, wake, loop, timer, age>>

(* failureBackoff: base doubled once per failure, as far as MaxDelay.      *)
Fault_Uncapped(base, failures) == base * 2 ^ failures
FailureBackoff(base, failures) ==
  LET delay[i \in 0..failures] ==
        IF i = 0 THEN base
        ELSE IF 2 * delay[i - 1] >= MaxDelay THEN MaxDelay ELSE 2 * delay[i - 1]
  IN IF delay[failures] > MaxDelay THEN MaxDelay ELSE delay[failures]

(* currentConfigLocked: the results that still describe the configuration. *)
Fault_WantedById == {id \in At("done") : configs[id] # NoConfig}
Wanted == {id \in At("done") : /\ configs[id] # NoConfig
                               /\ configs[id].conn = round[id].cfg.conn}

Sampled(id) == [status |-> IF round[id].outcome = "offline" THEN "offline" ELSE "online",
                conn |-> round[id].cfg.conn,
                meta |-> configs[id].meta]

(* Another failure, or none any more.                                      *)
Retry(id) ==
  LET failures == IF retries[id].failures = FailureCap THEN FailureCap
                                                       ELSE retries[id].failures + 1
  IN IF round[id].outcome # "offline" THEN NoRetry
     ELSE [failures |-> failures, left |-> FailureBackoff(options.interval, failures)]

(* All workers have returned; Refresh merges their results and returns.    *)
Merge ==
  /\ loop = "sampling"
  /\ At("queued") \cup At("running") = {}
  /\ items' = [id \in Ids |-> IF id \in Wanted THEN Sampled(id) ELSE items[id]]
  /\ retries' = [id \in Ids |-> IF id \in Wanted THEN Retry(id) ELSE retries[id]]
  /\ history' = [id \in Ids |->
                   IF id \in Wanted /\ round[id].outcome = "online"
                     THEN Latest(Append(history[id], round[id].cfg.conn), options.points)
                     ELSE history[id]]
  /\ age' = [id \in Ids |-> IF id \in Wanted THEN 0 ELSE age[id]]
  /\ round' = [id \in Ids |-> NoWorker]
  /\ loop' = "arming"
  /\ UNCHANGED <<configs, options, wake, timer>>

-----------------------------------------------------------------------------
(* Run: rounds, one interval apart or as soon as an Update asks for one.   *)

Arm ==
  /\ loop = "arming"
  /\ timer' = options.interval
  /\ loop' = "waiting"
  /\ UNCHANGED <<state, wake, round, age>>

Woken ==
  /\ loop = "waiting"
  /\ wake
  /\ wake' = FALSE
  /\ timer' = 0
  /\ loop' = "refresh"
  /\ UNCHANGED <<state, round, age>>

TimerFires ==
  /\ loop = "waiting"
  /\ timer = 0
  /\ loop' = "refresh"
  /\ UNCHANGED <<state, wake, timer, round, age>>

(* Nothing that is due is left to do.                                      *)
Quiet ==
  \/ loop = "waiting" /\ timer > 0 /\ ~ wake
  \/ /\ loop = "sampling"
     /\ At("running") # {}
     /\ At("queued") # {} => Cardinality(At("running")) >= MaxConcurrent
     /\ \A id \in At("running") : round[id].spent < Patience

Less(n) == IF n = 0 THEN 0 ELSE n - 1

Tick ==
  /\ Quiet
  /\ timer' = Less(timer)
  /\ retries' = [id \in Ids |-> [retries[id] EXCEPT !.left = Less(@)]]
  /\ round' = [id \in Ids |-> IF id \in At("running") THEN [round[id] EXCEPT !.spent = @ + 1]
                                                      ELSE round[id]]
  /\ age' = [id \in Ids |-> IF items[id].status = "offline" /\ age[id] < AgeCap
                              THEN age[id] + 1 ELSE age[id]]
  /\ UNCHANGED <<configs, options, items, history, wake, loop>>

Step ==
  \/ Refresh
  \/ \E id \in Ids : StartWorker(id) \/ FinishWorker(id)
  \/ Merge \/ Arm \/ Woken \/ TimerFires

Next ==
  \/ Step
  \/ Tick
  \/ \E new \in [Ids -> Config \cup {NoConfig}],
        opts \in [interval : Intervals, points : HistorySizes] : Update(new, opts)

Spec == Init /\ [][Next]_svars

(* Run keeps running, Snapshot returns, and time diverges: configuration   *)
(* changes do not fill all of a tick.                                      *)
FairSpec == Spec /\ WF_svars(Step) /\ []<><<Tick>>_svars

-----------------------------------------------------------------------------
(* The dashboard shows the configured clusters with their present names    *)
(* and read-only marks, and never a result for settings that have been     *)
(* changed, even if the change came while the cluster was being sampled.   *)
ShowsConfigured ==
  \A id \in Ids :
    IF configs[id] = NoConfig THEN items[id] = Absent
    ELSE items[id].conn = configs[id].conn /\ items[id].meta = configs[id].meta

(* A trend line never mixes the brokers of two configurations, and never   *)
(* has more points than configured.                                        *)
TrendsAreUnmixed ==
  \A id \in Ids :
    /\ Len(history[id]) <= options.points
    /\ \A i \in 1..Len(history[id]) : configs[id] # NoConfig /\ history[id][i] = configs[id].conn

(* A cluster is backed off from exactly if it is shown as offline: new     *)
(* settings start afresh, and a cluster that answers loses its failures.   *)
BackoffMatchesStatus ==
  \A id \in Ids : retries[id].failures > 0 <=> items[id].status = "offline"

(* The token is not lost: the loop never sleeps on a cluster that has not  *)
(* been sampled with its present settings.                                 *)
NoLostWake ==
  loop = "waiting" /\ (\E id \in Ids : items[id].status = "loading") => wake

Ceiling(n, k) == (n + k - 1) \div k
LongestRound == Patience * Ceiling(Cardinality(Ids), MaxConcurrent)
LongestInterval == CHOOSE i \in Intervals : \A j \in Intervals : j <= i
Waits(id) == items[id].status = "offline" /\ round[id] = NoWorker

(* An offline cluster is sampled again within the longest backoff plus the *)
(* interval and the round that may be under way when it ends.              *)
OfflineIsRetried ==
  \A id \in Ids : Waits(id) => age[id] <= MaxDelay + LongestInterval + LongestRound

(* What docs/configuration.md says: it is retried after five minutes at    *)
(* the latest (not counting a round under way).                            *)
RetriedWithinMaxDelay ==
  \A id \in Ids : Waits(id) => age[id] <= MaxDelay + LongestRound

(* However often the configuration changes, and whatever the other         *)
(* clusters do, a cluster that stays configured is sampled again and again. *)
SampledForever ==
  \A id \in Ids : <>[](configs[id] # NoConfig) => []<>(round[id].at = "done")
=============================================================================
