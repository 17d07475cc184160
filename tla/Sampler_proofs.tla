--------------------------- MODULE Sampler_proofs ---------------------------
(***************************************************************************)
(* Proofs about Sampler, for every set of clusters, settings, intervals    *)
(* and history sizes, and every number of workers.                         *)
(***************************************************************************)
EXTENDS Sampler, InductionLemmas, SequenceTheorems

(* A round is under way only while Refresh is.                             *)
RoundShape == loop # "sampling" => \A id \in Ids : round[id] = NoWorker

(* What the dashboard shows of a cluster, and of none.                     *)
Shown(id) ==
  IF configs[id] = NoConfig THEN items[id] = Absent
  ELSE /\ items[id] \in Item
       /\ items[id].conn = configs[id].conn /\ items[id].meta = configs[id].meta

(* A cluster that is not offline has no failures behind it.                *)
Retrying(id) ==
  IF items[id].status = "offline" THEN retries[id].failures > 0
                                  ELSE retries[id] = NoRetry

(* A cluster not sampled yet is in the round under way, or in the next,    *)
(* which begins as soon as Run gets there.                                 *)
Awaited(id) ==
  items[id].status = "loading" =>
    \/ wake
    \/ loop = "refresh"
    \/ /\ loop = "sampling" /\ round[id] # NoWorker
       /\ round[id].cfg.conn = configs[id].conn

SamplerInv == /\ TypeOK /\ RoundShape /\ TrendsAreUnmixed
              /\ \A id \in Ids : Shown(id) /\ Retrying(id) /\ Awaited(id)

-----------------------------------------------------------------------------
(* The helpers.                                                            *)

LEMMA LatestPoints ==
  ASSUME NEW S, NEW p \in Seq(S), NEW n \in Nat
  PROVE  /\ Latest(p, n) \in Seq(S) /\ Len(Latest(p, n)) <= n
         /\ \A i \in 1..Len(Latest(p, n)) :
              \E j \in 1..Len(p) : Latest(p, n)[i] = p[j]
<1>1. Len(p) \in Nat
  OBVIOUS
<1>2. CASE Len(p) > n
  <2> DEFINE q == SubSeq(p, Len(p) - n + 1, Len(p))
  <2>1. /\ q \in Seq(S) /\ Len(q) = n
        /\ \A i \in 1..n : q[i] = p[Len(p) - n + 1 + i - 1]
    BY <1>1, <1>2, SubSeqProperties
  <2>2. Latest(p, n) = q
    BY <1>2 DEF Latest
  <2> HIDE DEF q
  <2>3. \A i \in 1..n : Len(p) - n + 1 + i - 1 \in 1..Len(p)
    BY <1>1, <1>2
  <2>4. ASSUME NEW i \in 1..n PROVE \E j \in 1..Len(p) : q[i] = p[j]
    <3>1. q[i] = p[Len(p) - n + 1 + i - 1] /\ Len(p) - n + 1 + i - 1 \in 1..Len(p)
      BY <2>1, <2>3
    <3>2. QED
      BY <3>1
  <2>5. QED
    BY <2>1, <2>2, <2>4
<1>3. CASE Len(p) <= n
  BY <1>1, <1>3 DEF Latest
<1>4. QED
  BY <1>1, <1>2, <1>3

LEMMA LoadingItem ==
  ASSUME NEW c \in Config
  PROVE  /\ Loading(c) \in Item /\ Loading(c).status = "loading"
         /\ Loading(c).conn = c.conn /\ Loading(c).meta = c.meta
<1>1. c.conn \in Conns /\ c.meta \in Metas
  BY DEF Config
<1>2. QED
  BY <1>1 DEF Loading, Item, Status

(* The backoff is never longer than MaxDelay.                              *)
LEMMA BackoffBounded ==
  ASSUME NEW base \in Nat, NEW n \in Nat
  PROVE  FailureBackoff(base, n) \in 0..MaxDelay
<1> DEFINE step(d) == IF 2 * d >= MaxDelay THEN MaxDelay ELSE 2 * d
           Body(f) == [i \in 0..n |-> IF i = 0 THEN base
                         ELSE IF 2 * f[i - 1] >= MaxDelay THEN MaxDelay ELSE 2 * f[i - 1]]
           delay == CHOOSE f : f = Body(f)
           g == [i \in Nat |-> [d \in Nat |-> step(d)]]
<1>1. MaxDelay \in Nat
  BY SamplerAssumption
<1>2. g \in [Nat -> [Nat -> Nat]]
  BY <1>1
<1>3. PICK f \in [0..n -> Nat] :
        \A i \in 0..n : f[i] = IF i = 0 THEN base ELSE g[i][f[i - 1]]
  <2> HIDE DEF step, Body, delay, g
  <2>1. \E f : Iteration(f, Nat, base, g, n)
    BY <1>2, IterationExists
  <2>2. QED
    BY <2>1 DEF Iteration
<1>4. f = Body(f)
  <2>1. \A i \in 0..n : i # 0 => g[i][f[i - 1]] = step(f[i - 1])
    OBVIOUS
  <2>2. \A i \in 0..n : f[i] = Body(f)[i]
    BY <1>3, <2>1
  <2>3. f = [i \in 0..n |-> f[i]]
    OBVIOUS
  <2>4. Body(f) = [i \in 0..n |-> Body(f)[i]]
    OBVIOUS
  <2> HIDE DEF Body
  <2>5. QED
    BY <2>2, <2>3, <2>4
<1>5. delay = Body(delay)
  <2> HIDE DEF Body
  <2>1. QED
    BY <1>4
<1>6. FailureBackoff(base, n) = IF delay[n] > MaxDelay THEN MaxDelay ELSE delay[n]
  BY Zenon DEF FailureBackoff
<1>7. delay[n] \in Nat
  <2> DEFINE S == {k \in Nat : k \in 0..n => delay[k] \in Nat}
  <2> HIDE DEF delay
  <2>1. delay[0] = base
    BY <1>5
  <2>2. \A k \in Nat : k + 1 \in 0..n =>
          delay[k + 1] = IF 2 * delay[k] >= MaxDelay THEN MaxDelay ELSE 2 * delay[k]
    BY <1>5
  <2>3. 0 \in S
    BY <2>1
  <2>4. ASSUME NEW k \in S PROVE k + 1 \in S
    <3>1. k \in Nat /\ k + 1 \in Nat
      OBVIOUS
    <3>2. ASSUME k + 1 \in 0..n PROVE delay[k + 1] \in Nat
      <4>1. delay[k] \in Nat
        BY <3>1, <3>2
      <4>2. delay[k + 1] = IF 2 * delay[k] >= MaxDelay THEN MaxDelay ELSE 2 * delay[k]
        BY <2>2, <3>1, <3>2
      <4>3. QED
        BY <1>1, <4>1, <4>2
    <3>3. QED
      BY <3>1, <3>2
  <2>5. S \in SUBSET Nat
    OBVIOUS
  <2> HIDE DEF S
  <2>6. n \in S
    BY <2>3, <2>4, <2>5, SetInduction
  <2>7. QED
    BY <2>6 DEF S
<1> HIDE DEF delay
<1>8. QED
  BY <1>1, <1>6, <1>7

-----------------------------------------------------------------------------
(* The actions, one after the other.                                       *)

THEOREM InitInv == Init => SamplerInv
<1> SUFFICES ASSUME Init PROVE SamplerInv
  OBVIOUS
<1>1. TypeOK
  <2>1. items \in [Ids -> Item \cup {Absent}]
    BY DEF Init, Item, Absent, Loading, Config, Status
  <2>2. history \in [Ids -> Seq(Conns)]
    BY DEF Init
  <2>3. retries \in [Ids -> [failures : 0..FailureCap, left : 0..MaxDelay]]
    BY SamplerAssumption DEF Init, NoRetry
  <2>4. round \in [Ids -> Worker(Config) \cup {NoWorker}]
    BY DEF Init
  <2>5. age \in [Ids -> 0..AgeCap]
    BY SamplerAssumption DEF Init
  <2>6. QED
    BY <2>1, <2>2, <2>3, <2>4, <2>5 DEF Init, TypeOK
<1>2. RoundShape
  BY DEF Init, RoundShape
<1>3. TrendsAreUnmixed
  <2>1. options.points \in Nat /\ \A id \in Ids : history[id] = <<>>
    BY SamplerAssumption DEF Init
  <2>2. QED
    BY <2>1 DEF TrendsAreUnmixed
<1>4. \A id \in Ids : Shown(id) /\ Retrying(id) /\ Awaited(id)
  BY DEF Init, Shown, Retrying, Awaited, Absent, Loading, Item, Status, Config
<1>5. QED
  BY <1>1, <1>2, <1>3, <1>4 DEF SamplerInv

LEMMA UpdateInv ==
  ASSUME SamplerInv,
         NEW new \in [Ids -> Config \cup {NoConfig}],
         NEW opts \in [interval : Intervals, points : HistorySizes],
         Update(new, opts)
  PROVE  SamplerInv'
<1> DEFINE same == SameConnection(new)
<1>1. \A id \in same : /\ id \in Ids /\ new[id] # NoConfig /\ configs[id] # NoConfig
                       /\ new[id] \in Config /\ configs[id] \in Config
                       /\ configs[id].conn = new[id].conn
  BY DEF SameConnection, Enabled, SamplerInv, TypeOK
<1>2. \A id \in same : /\ items[id] \in Item /\ items[id].conn = configs[id].conn
                       /\ items'[id] = WithMeta(items[id], new[id])
                       /\ history'[id] = Latest(history[id], opts.points)
                       /\ retries'[id] = retries[id] /\ age'[id] = age[id]
  BY <1>1 DEF SamplerInv, Shown, Update, Carried
<1>3. \A id \in Enabled(new) \ same :
        /\ id \in Ids /\ new[id] \in Config /\ new[id] # NoConfig
        /\ items'[id] = Loading(new[id])
        /\ history'[id] = <<>> /\ retries'[id] = NoRetry /\ age'[id] = 0
  BY DEF Update, Carried, Enabled
<1>4. \A id \in Ids \ Enabled(new) :
        /\ new[id] = NoConfig /\ id \notin same
        /\ items'[id] = Absent
        /\ history'[id] = <<>> /\ retries'[id] = NoRetry /\ age'[id] = 0
  BY <1>1 DEF Update, Carried, Enabled
<1>5. /\ configs' = new /\ options' = opts /\ wake' = TRUE
      /\ UNCHANGED <<loop, timer, round>>
      /\ items' = [id \in Ids |-> items'[id]] /\ history' = [id \in Ids |-> history'[id]]
      /\ retries' = [id \in Ids |-> retries'[id]] /\ age' = [id \in Ids |-> age'[id]]
  BY DEF Update, Signal
<1>6. opts.points \in Nat /\ opts.interval \in Intervals
  BY SamplerAssumption
<1> HIDE DEF same
<1>7. \A id \in Ids : id \in same \/ id \in Enabled(new) \ same \/ id \in Ids \ Enabled(new)
  OBVIOUS
<1>8. \A id \in same : /\ items'[id] \in Item
                       /\ items'[id].status = items[id].status
                       /\ items'[id].conn = new[id].conn
                       /\ items'[id].meta = new[id].meta
  BY <1>1, <1>2 DEF WithMeta, Item, Config
<1>9. \A id \in Enabled(new) \ same :
        /\ items'[id] \in Item /\ items'[id].status = "loading"
        /\ items'[id].conn = new[id].conn /\ items'[id].meta = new[id].meta
  <2> SUFFICES ASSUME NEW id \in Enabled(new) \ same
               PROVE  /\ items'[id] \in Item /\ items'[id].status = "loading"
                      /\ items'[id].conn = new[id].conn /\ items'[id].meta = new[id].meta
    OBVIOUS
  <2>1. QED
    BY <1>3, LoadingItem
<1>10. \A id \in Ids : Shown(id)'
  BY <1>1, <1>3, <1>4, <1>5, <1>7, <1>8, <1>9 DEF Shown
<1>11. \A id \in Ids : Retrying(id)'
  <2>1. \A id \in same : Retrying(id)'
    BY <1>1, <1>2, <1>8 DEF SamplerInv, Retrying
  <2>2. \A id \in Enabled(new) \ same : Retrying(id)'
    BY <1>3, <1>9 DEF Retrying
  <2>3. \A id \in Ids \ Enabled(new) : Retrying(id)'
    BY <1>4 DEF Retrying, Absent
  <2>4. QED
    BY <1>7, <2>1, <2>2, <2>3
<1>12. \A id \in Ids : Awaited(id)'
  BY <1>5 DEF Awaited
<1>13. \A id \in same : /\ history'[id] \in Seq(Conns) /\ Len(history'[id]) <= opts.points
                        /\ \A i \in 1..Len(history'[id]) : history'[id][i] = new[id].conn
  <2> SUFFICES ASSUME NEW id \in same
               PROVE  /\ history'[id] \in Seq(Conns) /\ Len(history'[id]) <= opts.points
                      /\ \A i \in 1..Len(history'[id]) : history'[id][i] = new[id].conn
    OBVIOUS
  <2>1. /\ history[id] \in Seq(Conns)
        /\ \A j \in 1..Len(history[id]) : history[id][j] = configs[id].conn
    BY <1>1 DEF SamplerInv, TypeOK, TrendsAreUnmixed
  <2>2. /\ history'[id] \in Seq(Conns) /\ Len(history'[id]) <= opts.points
        /\ \A i \in 1..Len(history'[id]) :
             \E j \in 1..Len(history[id]) : history'[id][i] = history[id][j]
    BY <1>2, <1>6, <2>1, LatestPoints
  <2>3. QED
    BY <1>1, <2>1, <2>2
<1>14. TrendsAreUnmixed'
  <2>1. \A id \in Ids \ same : history'[id] = <<>>
    BY <1>3, <1>4
  <2>2. QED
    BY <1>1, <1>5, <1>6, <1>13, <2>1 DEF TrendsAreUnmixed
<1>15. TypeOK'
  <2>1. items' \in [Ids -> Item \cup {Absent}]
    BY <1>4, <1>5, <1>7, <1>8, <1>9
  <2>2. \A id \in Ids : history'[id] \in Seq(Conns)
    <3>1. <<>> \in Seq(Conns)
      OBVIOUS
    <3>2. QED
      BY <1>3, <1>4, <1>7, <1>13, <3>1
  <2>3. history' \in [Ids -> Seq(Conns)]
    BY <1>5, <2>2
  <2>4. NoRetry \in [failures : 0..FailureCap, left : 0..MaxDelay] /\ 0 \in 0..AgeCap
    BY SamplerAssumption DEF NoRetry
  <2>5. retries' \in [Ids -> [failures : 0..FailureCap, left : 0..MaxDelay]]
    BY <1>2, <1>3, <1>4, <1>5, <1>7, <2>4 DEF SamplerInv, TypeOK
  <2>6. age' \in [Ids -> 0..AgeCap]
    <3>1. \A id \in Ids : age[id] \in 0..AgeCap
      BY DEF SamplerInv, TypeOK
    <3>2. \A id \in Ids : age'[id] \in 0..AgeCap
      BY <1>2, <1>3, <1>4, <1>7, <2>4, <3>1
    <3>3. QED
      BY <1>5, <3>2
  <2>7. QED
    BY <1>5, <2>1, <2>3, <2>5, <2>6 DEF SamplerInv, TypeOK
<1>16. RoundShape'
  BY <1>5 DEF SamplerInv, RoundShape
<1>17. QED
  BY <1>10, <1>11, <1>12, <1>14, <1>15, <1>16 DEF SamplerInv

LEMMA RefreshInv ==
  ASSUME SamplerInv, Refresh
  PROVE  SamplerInv'
<1> DEFINE due == {id \in Enabled(configs) : ~ BackedOff(id)}
<1>1. /\ loop = "refresh" /\ UNCHANGED <<configs, options, items, history, retries, wake, timer, age>>
      /\ round' = [id \in Ids |-> IF id \in due THEN [at |-> "queued", cfg |-> configs[id]]
                                                ELSE NoWorker]
      /\ loop' = IF due = {} THEN "arming" ELSE "sampling"
  BY DEF Refresh, state
<1>2. \A id \in due : configs[id] \in Config
  BY DEF Enabled, SamplerInv, TypeOK
<1>3. \A id \in due : [at |-> "queued", cfg |-> configs[id]] \in Worker(Config)
  BY <1>2 DEF Worker
<1>4. TypeOK'
  BY <1>1, <1>3 DEF SamplerInv, TypeOK
<1>5. RoundShape'
  <2>1. due = {} => \A id \in Ids : round'[id] = NoWorker
    BY <1>1
  <2> HIDE DEF due
  <2>2. QED
    BY <1>1, <2>1 DEF RoundShape
<1>6. TrendsAreUnmixed'
  BY <1>1 DEF SamplerInv, TrendsAreUnmixed
<1>7. ASSUME NEW id \in Ids PROVE Shown(id)' /\ Retrying(id)' /\ Awaited(id)'
  <2>1. Shown(id) /\ Retrying(id)
    BY DEF SamplerInv
  <2>2. ASSUME items[id].status = "loading" PROVE id \in due
    <3>1. configs[id] # NoConfig
      BY <2>1, <2>2 DEF Shown, Absent
    <3>2. retries[id].left = 0
      BY <2>1, <2>2 DEF Retrying, NoRetry
    <3>3. QED
      BY <3>1, <3>2 DEF Enabled, BackedOff
  <2>3. ASSUME id \in due
        PROVE  loop' = "sampling" /\ round'[id] # NoWorker /\ round'[id].cfg = configs[id]
    BY <1>1, <2>3 DEF NoWorker
  <2> HIDE DEF due
  <2>4. Awaited(id)'
    BY <1>1, <2>2, <2>3 DEF Awaited
  <2>5. QED
    BY <1>1, <2>1, <2>4 DEF Shown, Retrying
<1>8. QED
  BY <1>4, <1>5, <1>6, <1>7 DEF SamplerInv

(* A worker's step changes the worker, and neither its settings nor what   *)
(* the others do.                                                          *)
LEMMA WorkerInv ==
  ASSUME SamplerInv, NEW id \in Ids, round[id] # NoWorker,
         NEW w \in Worker(Config), w.cfg = round[id].cfg,
         round' = [round EXCEPT ![id] = w],
         UNCHANGED <<state, wake, loop, timer, age>>
  PROVE  SamplerInv'
<1>1. UNCHANGED <<configs, options, items, history, retries, wake, loop, timer, age>>
  BY DEF state
<1>2. loop = "sampling" /\ loop' = "sampling"
  BY <1>1 DEF SamplerInv, RoundShape
<1>3. TypeOK'
  BY <1>1 DEF SamplerInv, TypeOK
<1>4. RoundShape' /\ TrendsAreUnmixed'
  BY <1>1, <1>2 DEF SamplerInv, RoundShape, TrendsAreUnmixed
<1>5. w # NoWorker
  BY DEF Worker, NoWorker
<1>6. ASSUME NEW k \in Ids PROVE Shown(k)' /\ Retrying(k)' /\ Awaited(k)'
  <2>1. Shown(k) /\ Retrying(k) /\ Awaited(k)
    BY DEF SamplerInv
  <2>2. round[k] # NoWorker => round'[k] # NoWorker /\ round'[k].cfg = round[k].cfg
    BY <1>5 DEF SamplerInv, TypeOK
  <2>3. QED
    BY <1>1, <2>1, <2>2 DEF Shown, Retrying, Awaited
<1>7. QED
  BY <1>3, <1>4, <1>6 DEF SamplerInv

LEMMA StartWorkerInv ==
  ASSUME SamplerInv, NEW id \in Ids, StartWorker(id)
  PROVE  SamplerInv'
<1> DEFINE w == [at |-> "running", cfg |-> round[id].cfg, spent |-> 0]
<1>1. round[id].at = "queued" /\ round[id] \in Worker(Config) \cup {NoWorker}
  BY DEF StartWorker, SamplerInv, TypeOK
<1>2. round[id] # NoWorker /\ round[id].cfg \in Config
  BY <1>1 DEF Worker, NoWorker
<1>3. w \in Worker(Config) /\ w.cfg = round[id].cfg
  BY <1>2, SamplerAssumption DEF Worker
<1>4. round' = [round EXCEPT ![id] = w] /\ UNCHANGED <<state, wake, loop, timer, age>>
  BY DEF StartWorker
<1> HIDE DEF w
<1>5. QED
  BY <1>2, <1>3, <1>4, WorkerInv

LEMMA FinishWorkerInv ==
  ASSUME SamplerInv, NEW id \in Ids, FinishWorker(id)
  PROVE  SamplerInv'
<1>1. PICK outcome \in Outcome :
        round' = [round EXCEPT ![id] = [at |-> "done", cfg |-> @.cfg, outcome |-> outcome]]
  BY DEF FinishWorker
<1> DEFINE w == [at |-> "done", cfg |-> round[id].cfg, outcome |-> outcome]
<1>2. round[id].at = "running" /\ round[id] \in Worker(Config) \cup {NoWorker}
  BY DEF FinishWorker, SamplerInv, TypeOK
<1>3. round[id] # NoWorker /\ round[id].cfg \in Config
  BY <1>2 DEF Worker, NoWorker
<1>4. w \in Worker(Config) /\ w.cfg = round[id].cfg
  BY <1>3 DEF Worker
<1>5. round' = [round EXCEPT ![id] = w] /\ UNCHANGED <<state, wake, loop, timer, age>>
  BY <1>1 DEF FinishWorker
<1> HIDE DEF w
<1>6. QED
  BY <1>3, <1>4, <1>5, WorkerInv

LEMMA MergeInv ==
  ASSUME SamplerInv, Merge
  PROVE  SamplerInv'
<1>1. /\ loop = "sampling" /\ loop' = "arming"
      /\ UNCHANGED <<configs, options, wake, timer>>
      /\ round' = [id \in Ids |-> NoWorker]
      /\ items' = [id \in Ids |-> IF id \in Wanted THEN Sampled(id) ELSE items[id]]
      /\ retries' = [id \in Ids |-> IF id \in Wanted THEN Retry(id) ELSE retries[id]]
      /\ age' = [id \in Ids |-> IF id \in Wanted THEN 0 ELSE age[id]]
      /\ history' = [id \in Ids |->
                       IF id \in Wanted /\ round[id].outcome = "online"
                         THEN Latest(Append(history[id], round[id].cfg.conn), options.points)
                         ELSE history[id]]
  BY DEF Merge
<1>2. /\ configs \in [Ids -> Config \cup {NoConfig}]
      /\ options.interval \in Nat /\ options.points \in Nat
  <2>1. options.interval \in Intervals /\ options.points \in HistorySizes
    BY DEF SamplerInv, TypeOK
  <2>2. QED
    BY <2>1, SamplerAssumption DEF SamplerInv, TypeOK
<1>3. ASSUME NEW id \in Ids
      PROVE  \/ round[id] = NoWorker
             \/ /\ round[id].at = "done"
                /\ round[id].cfg \in Config /\ round[id].outcome \in Outcome
  <2>1. round[id].at \notin {"queued", "running"}
    BY DEF Merge, At
  <2>2. round[id] \in Worker(Config) \cup {NoWorker}
    BY DEF SamplerInv, TypeOK
  <2>3. QED
    BY <2>1, <2>2 DEF Worker
<1>4. ASSUME NEW id \in Wanted
      PROVE  /\ id \in Ids /\ round[id] # NoWorker /\ configs[id] \in Config
             /\ configs[id] # NoConfig /\ round[id].cfg \in Config
             /\ round[id].outcome \in Outcome /\ configs[id].conn = round[id].cfg.conn
  <2>1. id \in Ids /\ round[id].at = "done"
    BY DEF Wanted, At
  <2>2. round[id] # NoWorker
    BY <2>1 DEF NoWorker
  <2>3. QED
    BY <1>2, <1>3, <2>1, <2>2 DEF Wanted
<1>5. ASSUME NEW id \in Wanted
      PROVE  /\ Sampled(id) \in Item /\ Sampled(id).conn = configs[id].conn
             /\ Sampled(id).meta = configs[id].meta /\ Sampled(id).status # "loading"
             /\ Sampled(id).status = "offline" <=> round[id].outcome = "offline"
  <2>1. configs[id].conn \in Conns /\ configs[id].meta \in Metas
    BY <1>4 DEF Config
  <2>2. QED
    BY <1>4, <2>1 DEF Sampled, Item, Status
<1>6. ASSUME NEW id \in Wanted
      PROVE  /\ Retry(id) \in [failures : 0..FailureCap, left : 0..MaxDelay]
             /\ round[id].outcome # "offline" => Retry(id) = NoRetry
             /\ round[id].outcome = "offline" => Retry(id).failures > 0
  <2> DEFINE failures == IF retries[id].failures = FailureCap THEN FailureCap
                                                              ELSE retries[id].failures + 1
  <2>1. retries[id].failures \in 0..FailureCap
    BY <1>4 DEF SamplerInv, TypeOK
  <2>2. failures \in 1..FailureCap
    BY <2>1, SamplerAssumption
  <2>3. Retry(id) = IF round[id].outcome # "offline" THEN NoRetry
                    ELSE [failures |-> failures,
                          left |-> FailureBackoff(options.interval, failures)]
    BY DEF Retry
  <2> HIDE DEF failures
  <2>4. FailureBackoff(options.interval, failures) \in 0..MaxDelay
    <3>1. failures \in Nat
      BY <2>2
    <3>2. QED
      BY <1>2, <3>1, BackoffBounded
  <2>5. NoRetry \in [failures : 0..FailureCap, left : 0..MaxDelay]
    BY SamplerAssumption DEF NoRetry
  <2>6. QED
    BY <2>2, <2>3, <2>4, <2>5, SamplerAssumption
<1>7. ASSUME NEW id \in Ids
      PROVE  /\ history'[id] \in Seq(Conns) /\ Len(history'[id]) <= options.points
             /\ \A i \in 1..Len(history'[id]) :
                  configs[id] # NoConfig /\ history'[id][i] = configs[id].conn
  <2>1. /\ history[id] \in Seq(Conns) /\ Len(history[id]) <= options.points
        /\ \A i \in 1..Len(history[id]) :
             configs[id] # NoConfig /\ history[id][i] = configs[id].conn
    BY DEF SamplerInv, TypeOK, TrendsAreUnmixed
  <2>2. CASE ~ (id \in Wanted /\ round[id].outcome = "online")
    BY <1>1, <2>1, <2>2
  <2>3. CASE id \in Wanted /\ round[id].outcome = "online"
    <3> DEFINE longer == Append(history[id], configs[id].conn)
    <3>1. configs[id] # NoConfig /\ configs[id].conn \in Conns
      BY <1>4, <2>3 DEF Config
    <3>2. /\ longer \in Seq(Conns) /\ Len(longer) = Len(history[id]) + 1
          /\ \A j \in 1..Len(longer) : longer[j] = configs[id].conn
      BY <2>1, <3>1
    <3>3. history'[id] = Latest(longer, options.points)
      BY <1>1, <1>4, <2>3
    <3> HIDE DEF longer
    <3>4. /\ history'[id] \in Seq(Conns) /\ Len(history'[id]) <= options.points
          /\ \A i \in 1..Len(history'[id]) :
               \E j \in 1..Len(longer) : history'[id][i] = longer[j]
      BY <1>2, <3>2, <3>3, LatestPoints
    <3>5. QED
      BY <3>1, <3>2, <3>4
  <2>4. QED
    BY <2>2, <2>3
<1>8. TypeOK'
  <2>1. items' \in [Ids -> Item \cup {Absent}]
    BY <1>1, <1>5 DEF SamplerInv, TypeOK
  <2>2. retries' \in [Ids -> [failures : 0..FailureCap, left : 0..MaxDelay]]
    BY <1>1, <1>6 DEF SamplerInv, TypeOK
  <2>3. history' \in [Ids -> Seq(Conns)]
    <3>1. history' = [id \in Ids |-> history'[id]]
      BY <1>1
    <3>2. QED
      BY <1>7, <3>1
  <2>4. age' \in [Ids -> 0..AgeCap]
    BY <1>1, SamplerAssumption DEF SamplerInv, TypeOK
  <2>5. QED
    BY <1>1, <2>1, <2>2, <2>3, <2>4 DEF SamplerInv, TypeOK
<1>9. TrendsAreUnmixed' /\ RoundShape'
  BY <1>1, <1>7 DEF TrendsAreUnmixed, RoundShape
<1>10. ASSUME NEW id \in Ids PROVE Shown(id)' /\ Retrying(id)' /\ Awaited(id)'
  <2>1. Shown(id) /\ Retrying(id) /\ Awaited(id)
    BY DEF SamplerInv
  <2>2. CASE id \in Wanted
    <3>1. /\ items'[id] = Sampled(id) /\ retries'[id] = Retry(id)
          /\ configs'[id] = configs[id] /\ configs[id] # NoConfig
      BY <1>1, <1>4, <2>2
    <3>2. Shown(id)' /\ Awaited(id)'
      BY <1>5, <2>2, <3>1 DEF Shown, Awaited
    <3>3. Retrying(id)'
      BY <1>5, <1>6, <2>2, <3>1 DEF Retrying
    <3>4. QED
      BY <3>2, <3>3
  <2>3. CASE id \notin Wanted
    <3>1. items'[id] = items[id] /\ retries'[id] = retries[id] /\ configs'[id] = configs[id]
      BY <1>1, <2>3
    <3>2. Shown(id)' /\ Retrying(id)'
      BY <2>1, <3>1 DEF Shown, Retrying
    <3>3. ASSUME items[id].status = "loading" PROVE wake
      <4>1. configs[id] # NoConfig
        BY <2>1, <3>3 DEF Shown, Absent
      <4>2. ~ (round[id] # NoWorker /\ round[id].cfg.conn = configs[id].conn)
        BY <1>3, <2>3, <4>1 DEF Wanted, At
      <4>3. QED
        BY <1>1, <2>1, <3>3, <4>2 DEF Awaited
    <3>4. QED
      BY <1>1, <3>1, <3>2, <3>3 DEF Awaited
  <2>4. QED
    BY <2>2, <2>3
<1>11. QED
  BY <1>8, <1>9, <1>10 DEF SamplerInv

LEMMA LoopInv ==
  ASSUME SamplerInv, Arm \/ Woken \/ TimerFires
  PROVE  SamplerInv'
<1>1. /\ UNCHANGED <<configs, options, items, history, retries, round, age>>
      /\ loop # "sampling"
      /\ \/ loop' = "waiting" /\ timer' \in Nat /\ wake' = wake /\ loop = "arming"
         \/ loop' = "refresh" /\ timer' \in Nat /\ wake' \in BOOLEAN
  <2>1. timer \in Nat /\ wake \in BOOLEAN /\ options.interval \in Nat
    <3>1. options.interval \in Intervals
      BY DEF SamplerInv, TypeOK
    <3>2. QED
      BY <3>1, SamplerAssumption DEF SamplerInv, TypeOK
  <2>2. CASE Arm
    BY <2>1, <2>2 DEF Arm, state
  <2>3. CASE Woken
    BY <2>1, <2>3 DEF Woken, state
  <2>4. CASE TimerFires
    BY <2>1, <2>4 DEF TimerFires, state
  <2>5. QED
    BY <2>2, <2>3, <2>4
<1>2. TypeOK'
  BY <1>1 DEF SamplerInv, TypeOK
<1>3. RoundShape' /\ TrendsAreUnmixed'
  BY <1>1 DEF SamplerInv, RoundShape, TrendsAreUnmixed
<1>4. ASSUME NEW id \in Ids PROVE Shown(id)' /\ Retrying(id)' /\ Awaited(id)'
  <2>1. Shown(id) /\ Retrying(id) /\ Awaited(id)
    BY DEF SamplerInv
  <2>2. QED
    BY <1>1, <2>1 DEF Shown, Retrying, Awaited
<1>5. QED
  BY <1>2, <1>3, <1>4 DEF SamplerInv

LEMMA TickInv ==
  ASSUME SamplerInv, Tick
  PROVE  SamplerInv'
<1>1. /\ UNCHANGED <<configs, options, items, history, wake, loop>>
      /\ timer' = Less(timer)
      /\ retries' = [id \in Ids |-> [retries[id] EXCEPT !.left = Less(@)]]
      /\ round' = [id \in Ids |-> IF id \in At("running")
                                    THEN [round[id] EXCEPT !.spent = @ + 1] ELSE round[id]]
      /\ age' = [id \in Ids |-> IF items[id].status = "offline" /\ age[id] < AgeCap
                                  THEN age[id] + 1 ELSE age[id]]
  BY DEF Tick
<1>2. ASSUME NEW id \in Ids
      PROVE  /\ retries'[id] \in [failures : 0..FailureCap, left : 0..MaxDelay]
             /\ retries'[id].failures = retries[id].failures
             /\ retries[id] = NoRetry => retries'[id] = NoRetry
  <2>1. retries[id] \in [failures : 0..FailureCap, left : 0..MaxDelay]
    BY DEF SamplerInv, TypeOK
  <2>2. Less(retries[id].left) \in 0..MaxDelay /\ Less(0) = 0
    BY <2>1, SamplerAssumption DEF Less
  <2>3. retries'[id] = [retries[id] EXCEPT !.left = Less(retries[id].left)]
    BY <1>1
  <2>4. QED
    BY <2>1, <2>2, <2>3 DEF NoRetry
<1>3. ASSUME NEW id \in Ids
      PROVE  /\ round'[id] \in Worker(Config) \cup {NoWorker}
             /\ round[id] = NoWorker <=> round'[id] = NoWorker
             /\ round[id] # NoWorker => round'[id].cfg = round[id].cfg
  <2>1. round[id] \in Worker(Config) \cup {NoWorker}
    BY DEF SamplerInv, TypeOK
  <2>2. CASE id \notin At("running")
    BY <1>1, <2>1, <2>2
  <2>3. CASE id \in At("running")
    <3>1. round[id].at = "running" /\ loop = "sampling"
      BY <2>3 DEF At, SamplerInv, RoundShape, NoWorker
    <3>2. round[id].spent < Patience
      BY <2>3, <3>1 DEF Tick, Quiet
    <3>3. round[id] \in [at : {"running"}, cfg : Config, spent : 0..Patience]
      BY <2>1, <3>1 DEF Worker, NoWorker
    <3>4. round[id].spent + 1 \in 0..Patience
      BY <3>2, <3>3, SamplerAssumption
    <3>5. round'[id] = [round[id] EXCEPT !.spent = round[id].spent + 1]
      BY <1>1, <2>3
    <3>6. round'[id] \in [at : {"running"}, cfg : Config, spent : 0..Patience]
      BY <3>3, <3>4, <3>5
    <3>7. QED
      BY <3>1, <3>3, <3>5, <3>6 DEF Worker, NoWorker
  <2>4. QED
    BY <2>2, <2>3
<1>4. TypeOK'
  <2>1. retries' \in [Ids -> [failures : 0..FailureCap, left : 0..MaxDelay]]
    BY <1>1, <1>2
  <2>2. round' \in [Ids -> Worker(Config) \cup {NoWorker}]
    BY <1>1, <1>3
  <2>3. age' \in [Ids -> 0..AgeCap]
    BY <1>1, SamplerAssumption DEF SamplerInv, TypeOK
  <2>4. timer' \in Nat
    BY <1>1 DEF Less, SamplerInv, TypeOK
  <2>5. QED
    BY <1>1, <2>1, <2>2, <2>3, <2>4 DEF SamplerInv, TypeOK
<1>5. RoundShape' /\ TrendsAreUnmixed'
  BY <1>1, <1>3 DEF SamplerInv, RoundShape, TrendsAreUnmixed
<1>6. ASSUME NEW id \in Ids PROVE Shown(id)' /\ Retrying(id)' /\ Awaited(id)'
  <2>1. Shown(id) /\ Retrying(id) /\ Awaited(id)
    BY DEF SamplerInv
  <2>2. QED
    BY <1>1, <1>2, <1>3, <2>1 DEF Shown, Retrying, Awaited
<1>7. QED
  BY <1>4, <1>5, <1>6 DEF SamplerInv

THEOREM StepInv == SamplerInv /\ [Next]_svars => SamplerInv'
<1> SUFFICES ASSUME SamplerInv, [Next]_svars PROVE SamplerInv'
  OBVIOUS
<1>1. CASE Refresh
  BY <1>1, RefreshInv
<1>2. ASSUME NEW id \in Ids, StartWorker(id) PROVE SamplerInv'
  BY <1>2, StartWorkerInv
<1>3. ASSUME NEW id \in Ids, FinishWorker(id) PROVE SamplerInv'
  BY <1>3, FinishWorkerInv
<1>4. CASE Merge
  BY <1>4, MergeInv
<1>5. CASE Arm \/ Woken \/ TimerFires
  BY <1>5, LoopInv
<1>6. CASE Tick
  BY <1>6, TickInv
<1>7. ASSUME NEW new \in [Ids -> Config \cup {NoConfig}],
             NEW opts \in [interval : Intervals, points : HistorySizes], Update(new, opts)
      PROVE  SamplerInv'
  BY <1>7, UpdateInv
<1>8. CASE UNCHANGED svars
  BY <1>8 DEF svars, state, SamplerInv, TypeOK, RoundShape, TrendsAreUnmixed,
              Shown, Retrying, Awaited
<1>9. QED
  BY <1>1, <1>2, <1>3, <1>4, <1>5, <1>6, <1>7, <1>8 DEF Next, Step

-----------------------------------------------------------------------------
(* Types: in particular, no backoff is longer than MaxDelay, and no answer *)
(* is waited for longer than the timeout of Source.Snapshot.               *)
THEOREM SamplerTypeCorrect == Spec => []TypeOK
<1>1. SamplerInv => TypeOK
  BY DEF SamplerInv
<1>2. QED
  BY <1>1, InitInv, StepInv, PTL DEF Spec

(* The dashboard shows the configured clusters with their present          *)
(* settings, though the configuration changes in the middle of a round.    *)
THEOREM ConfiguredIsShown == Spec => []ShowsConfigured
<1>1. SamplerInv => ShowsConfigured
  BY DEF SamplerInv, Shown, ShowsConfigured
<1>2. QED
  BY <1>1, InitInv, StepInv, PTL DEF Spec

(* A trend line never mixes the brokers of two configurations.             *)
THEOREM UnmixedTrends == Spec => []TrendsAreUnmixed
<1>1. SamplerInv => TrendsAreUnmixed
  BY DEF SamplerInv
<1>2. QED
  BY <1>1, InitInv, StepInv, PTL DEF Spec

(* A cluster is backed off from exactly if it is shown as offline.         *)
THEOREM BackoffIsShown == Spec => []BackoffMatchesStatus
<1>1. SamplerInv => BackoffMatchesStatus
  BY DEF SamplerInv, Retrying, BackoffMatchesStatus, NoRetry
<1>2. QED
  BY <1>1, InitInv, StepInv, PTL DEF Spec

(* The loop never sleeps on a cluster that waits to be sampled.            *)
THEOREM WakeIsKept == Spec => []NoLostWake
<1>1. SamplerInv => NoLostWake
  BY DEF SamplerInv, Awaited, NoLostWake
<1>2. QED
  BY <1>1, InitInv, StepInv, PTL DEF Spec

-----------------------------------------------------------------------------
(* How long an offline cluster waits.                                      *)

(* What a lane of workers needs for t of them, one after the other.        *)
Work(t) == Patience * t

LEMMA WorkAdds ==
  /\ Patience \in Nat /\ MaxConcurrent \in Nat \ {0}
  /\ \A t \in Nat : Work(t) \in Nat /\ Work(t + 1) = Work(t) + Patience
  BY SamplerAssumption DEF Work

LEMMA WorkGrows == \A t, c \in Nat : t <= c => Work(t) <= Work(c)
  BY SamplerAssumption DEF Work

Lanes == 1..MaxConcurrent

(* The round is over within T ticks: there is a lane for every worker, so  *)
(* that each that runs has one for itself, and each that is queued has a   *)
(* turn in one, of its own, that ends in time.                             *)
Schedule(T, slot, lane, turn) ==
  /\ slot \in [Ids -> Lanes] /\ lane \in [Ids -> Lanes] /\ turn \in [Ids -> Nat \ {0}]
  /\ \A i, j \in At("running") : slot[i] = slot[j] => i = j
  /\ \A i \in At("running") : Patience <= T + round[i].spent
  /\ \A i, j \in At("queued") : lane[i] = lane[j] /\ turn[i] = turn[j] => i = j
  /\ \A i \in At("queued") : Work(turn[i]) <= T
  /\ \A i \in At("queued"), j \in At("running") :
       lane[i] = slot[j] => Work(turn[i] + 1) <= T + round[j].spent

EndsIn(T) == \E slot, lane, turn : Schedule(T, slot, lane, turn)

LEMMA Numbers ==
  /\ LongestInterval \in Intervals /\ LongestInterval \in Nat
  /\ \A i \in Intervals : i \in Nat /\ i <= LongestInterval
  /\ LongestRound \in Nat /\ MaxDelay \in Nat /\ AgeCap \in Nat
<1>1. \A i \in Intervals : i \in Nat
  BY SamplerAssumption
<1>2. \E i \in Intervals : \A j \in Intervals : j <= i
  <2> DEFINE R == {p \in Intervals \X Intervals : p[1] < p[2]}
  <2>1. \A x, y \in Intervals : <<x, y>> \in R <=> x < y
    OBVIOUS
  <2> HIDE DEF R
  <2>2. /\ \A x, y \in Intervals : x # y => <<x, y>> \in R \/ <<y, x>> \in R
        /\ \A x, y, z \in Intervals : <<x, y>> \in R /\ <<y, z>> \in R => <<x, z>> \in R
    BY <1>1, <2>1
  <2>3. IsFiniteSet(Intervals) /\ Intervals # {}
    BY SamplerAssumption
  <2>4. PICK x \in Intervals : \A y \in Intervals : y # x => <<y, x>> \in R
    BY <2>2, <2>3, LastOfFinite
  <2>5. \A y \in Intervals : y <= x
    <3> SUFFICES ASSUME NEW y \in Intervals, y # x PROVE y <= x
      BY <1>1
    <3>1. y < x
      BY <2>1, <2>4
    <3>2. QED
      BY <1>1, <3>1
  <2>6. QED
    BY <2>5
<1>3. LongestInterval \in Intervals /\ \A j \in Intervals : j <= LongestInterval
  BY <1>2 DEF LongestInterval
<1>4. LongestRound \in Nat
  <2>1. Cardinality(Ids) \in Nat
    BY SamplerAssumption, FS_CardinalityType
  <2>2. Patience \in Nat /\ MaxConcurrent \in Nat \ {0}
    BY SamplerAssumption
  <2>3. Ceiling(Cardinality(Ids), MaxConcurrent) \in Nat
    BY <2>1, <2>2 DEF Ceiling
  <2>4. QED
    BY <2>2, <2>3 DEF LongestRound
<1>5. QED
  BY <1>1, <1>3, <1>4, SamplerAssumption

(* At the beginning of a round there is a turn for every cluster.          *)
LEMMA LongEnough == At("running") = {} => EndsIn(LongestRound)
<1> SUFFICES ASSUME At("running") = {} PROVE EndsIn(LongestRound)
  OBVIOUS
<1> DEFINE n == Cardinality(Ids)
           c == Ceiling(n, MaxConcurrent)
           P == Lanes \X (1..c)
<1>1. n \in Nat /\ IsFiniteSet(Ids)
  BY SamplerAssumption, FS_CardinalityType
<1>2. c \in Nat /\ n <= MaxConcurrent * c /\ MaxConcurrent * c \in Nat
  <2>1. MaxConcurrent \in Nat \ {0}
    BY SamplerAssumption
  <2> HIDE DEF n
  <2> DEFINE a == n + MaxConcurrent - 1
  <2>2. a \in Nat /\ c = a \div MaxConcurrent
    BY <1>1, <2>1 DEF Ceiling
  <2>3. c \in Nat /\ a < MaxConcurrent * c + MaxConcurrent /\ MaxConcurrent * c \in Nat
    <3> HIDE DEF a, c
    <3>1. QED
      BY <2>1, <2>2
  <2>4. QED
    BY <1>1, <2>1, <2>3
<1>3. IsFiniteSet(P) /\ Cardinality(P) = MaxConcurrent * c
  <2>1. IsFiniteSet(Lanes) /\ Cardinality(Lanes) = MaxConcurrent
    BY SamplerAssumption, FS_Interval DEF Lanes
  <2>2. IsFiniteSet(1..c) /\ Cardinality(1..c) = c
    <3> HIDE DEF c
    <3>1. QED
      BY <1>2, FS_Interval
  <2> HIDE DEF c
  <2>3. IsFiniteSet(P) /\ Cardinality(P) = Cardinality(Lanes) * Cardinality(1..c)
    BY <2>1, <2>2, FS_Product, Zenon
  <2>4. QED
    BY <2>1, <2>2, <2>3, Zenon
<1>4. PICK f \in Bijection(Ids, 1..n) : TRUE
  <2>1. IsFiniteSet(1..n) /\ Cardinality(1..n) = n
    <3> HIDE DEF n
    <3>1. QED
      BY <1>1, FS_Interval
  <2>2. ExistsBijection(Ids, 1..n)
    <3>1. Cardinality(Ids) = Cardinality(1..n)
      BY <2>1
    <3>2. QED
      BY <1>1, <2>1, <3>1, FS_SameCardinalityBij
  <2>3. QED
    BY <2>2 DEF ExistsBijection
<1> DEFINE k == MaxConcurrent * c
<1>5. PICK g \in Bijection(1..k, P) : TRUE
  <2> HIDE DEF P
  <2>1. IsFiniteSet(1..k) /\ Cardinality(1..k) = k
    <3>1. k \in Nat
      BY <1>2
    <3> HIDE DEF k
    <3>2. QED
      BY <3>1, FS_Interval
  <2>2. Cardinality(1..k) = Cardinality(P)
    BY <1>3, <2>1
  <2> HIDE DEF k
  <2>3. ExistsBijection(1..k, P)
    BY <1>3, <2>1, <2>2, FS_SameCardinalityBij
  <2>4. QED
    BY <2>3 DEF ExistsBijection
<1> HIDE DEF n, c, k
<1>6. \A i \in Ids : f[i] \in 1..n /\ f[i] \in 1..k
  <2>1. \A i \in Ids : f[i] \in 1..n
    BY <1>4 DEF Bijection, Injection, Surjection
  <2>2. n <= k /\ k \in Nat
    BY <1>2 DEF k
  <2>3. QED
    BY <1>1, <2>1, <2>2
<1>7. \A i, j \in Ids : f[i] = f[j] => i = j
  BY <1>4 DEF Bijection, Injection, IsInjective
<1>8. \A x \in 1..k : g[x] \in P
  BY <1>5 DEF Bijection, Injection, Surjection
<1>9. \A x, y \in 1..k : g[x] = g[y] => x = y
  BY <1>5 DEF Bijection, Injection, IsInjective
<1> DEFINE lane == [i \in Ids |-> g[f[i]][1]]
           turn == [i \in Ids |-> g[f[i]][2]]
<1>10. \A i \in Ids : lane[i] \in Lanes /\ turn[i] \in 1..c /\ g[f[i]] = <<lane[i], turn[i]>>
  BY <1>6, <1>8
<1>11. lane \in [Ids -> Lanes] /\ turn \in [Ids -> Nat \ {0}]
  <2>1. \A i \in Ids : g[f[i]][1] \in Lanes /\ g[f[i]][2] \in Nat \ {0}
    BY <1>2, <1>10
  <2>2. QED
    BY <2>1
<1> HIDE DEF lane, turn
<1>12. \A i, j \in Ids : lane[i] = lane[j] /\ turn[i] = turn[j] => i = j
  <2> SUFFICES ASSUME NEW i \in Ids, NEW j \in Ids, lane[i] = lane[j], turn[i] = turn[j]
               PROVE  i = j
    OBVIOUS
  <2>1. g[f[i]] = g[f[j]]
    BY <1>10
  <2>2. f[i] = f[j]
    BY <1>6, <1>9, <2>1
  <2>3. QED
    BY <1>7, <2>2
<1>13. \A i \in Ids : Work(turn[i]) <= LongestRound
  <2>1. LongestRound = Work(c)
    BY DEF LongestRound, Work, c, n
  <2>2. \A t \in 1..c : Work(t) <= Work(c)
    BY <1>2, WorkGrows
  <2>3. QED
    BY <1>10, <2>1, <2>2
<1>14. Schedule(LongestRound, lane, lane, turn)
  BY <1>11, <1>12, <1>13 DEF Schedule, At
<1>15. QED
  BY <1>14 DEF EndsIn

(* A worker starts in a lane that is free; whoever had its first turn goes *)
(* where the one that starts would have gone.                              *)
LEMMA StartKeepsEnd ==
  ASSUME SamplerInv, NEW T \in Nat, EndsIn(T), NEW id \in Ids, StartWorker(id)
  PROVE  EndsIn(T)'
<1> DEFINE Run == At("running")
           Queue == At("queued")
<1>1. PICK slot, lane, turn : Schedule(T, slot, lane, turn)
  BY DEF EndsIn
<1>2. /\ id \in Queue /\ id \notin Run /\ Cardinality(Run) < MaxConcurrent
      /\ At("running")' = Run \cup {id} /\ At("queued")' = Queue \ {id}
      /\ round'[id].spent = 0 /\ \A j \in Run : round'[j] = round[j]
  <2>1. round' = [round EXCEPT ![id] = [at |-> "running", cfg |-> round[id].cfg, spent |-> 0]]
        /\ round[id].at = "queued" /\ Cardinality(Run) < MaxConcurrent
    BY DEF StartWorker
  <2>2. round \in [Ids -> Worker(Config) \cup {NoWorker}]
    BY DEF SamplerInv, TypeOK
  <2>3. round'[id].at = "running" /\ round'[id].spent = 0
        /\ \A j \in Ids : j # id => round'[j] = round[j]
    BY <2>1, <2>2
  <2>4. QED
    BY <2>1, <2>3 DEF At
<1>3. Run \subseteq Ids /\ Queue \subseteq Ids
  BY DEF At
<1>4. /\ slot \in [Ids -> Lanes] /\ lane \in [Ids -> Lanes] /\ turn \in [Ids -> Nat \ {0}]
      /\ \A i, j \in Run : slot[i] = slot[j] => i = j
      /\ \A i \in Run : Patience <= T + round[i].spent
      /\ \A i, j \in Queue : lane[i] = lane[j] /\ turn[i] = turn[j] => i = j
      /\ \A i \in Queue : Work(turn[i]) <= T
      /\ \A i \in Queue, j \in Run : lane[i] = slot[j] => Work(turn[i] + 1) <= T + round[j].spent
  BY <1>1 DEF Schedule
<1>5. PICK s \in Lanes : \A j \in Run : slot[j] # s
  <2> SUFFICES ASSUME \A s \in Lanes : \E j \in Run : slot[j] = s PROVE FALSE
    OBVIOUS
  <2> DEFINE h == [j \in Run |-> slot[j]]
  <2>1. h \in Surjection(Run, Lanes)
    BY <1>3, <1>4 DEF Surjection
  <2>2. IsFiniteSet(Run)
    BY <1>3, SamplerAssumption, FS_Subset
  <2>3. Cardinality(Lanes) <= Cardinality(Run)
    BY <2>1, <2>2, FS_Surjection
  <2>4. Cardinality(Lanes) = MaxConcurrent
    BY SamplerAssumption, FS_Interval DEF Lanes
  <2>5. Cardinality(Run) \in Nat /\ MaxConcurrent \in Nat
    BY <2>2, FS_CardinalityType, SamplerAssumption
  <2>6. QED
    BY <1>2, <2>3, <2>4, <2>5
<1> DEFINE First(j) == lane[j] = s /\ turn[j] = 1
           L(j) == IF First(j) THEN lane[id] ELSE lane[j]
           K(j) == IF First(j) THEN turn[id] ELSE turn[j]
           N(j) == IF L(j) = s THEN K(j) - 1 ELSE K(j)
           rest == Queue \ {id}
           newSlot == [slot EXCEPT ![id] = s]
           newLane == [j \in Ids |-> IF j \in rest THEN L(j) ELSE s]
           newTurn == [j \in Ids |-> IF j \in rest THEN N(j) ELSE 1]
<1> HIDE DEF Run, Queue
<1>6. \A i \in Ids : lane[i] \in Lanes /\ turn[i] \in Nat \ {0} /\ slot[i] \in Lanes
  BY <1>4
<1>7. ASSUME NEW i \in rest
      PROVE  /\ L(i) \in Lanes /\ K(i) \in Nat \ {0} /\ Work(K(i)) <= T
             /\ L(i) = s => K(i) - 1 \in Nat \ {0}
             /\ \A j \in Run : L(i) = slot[j] => Work(K(i) + 1) <= T + round[j].spent
  <2>1. i \in Queue /\ i # id /\ i \in Ids
    BY <1>3
  <2>2. CASE First(i)
    <3>1. L(i) = lane[id] /\ K(i) = turn[id]
      BY <2>2
    <3>2. ~ (lane[id] = s /\ turn[id] = 1)
      BY <1>2, <1>4, <2>1, <2>2
    <3>3. QED
      BY <1>2, <1>4, <1>6, <3>1, <3>2
  <2>3. CASE ~ First(i)
    <3>1. L(i) = lane[i] /\ K(i) = turn[i]
      BY <2>3
    <3>2. QED
      BY <1>4, <1>6, <2>1, <2>3, <3>1
  <2>4. QED
    BY <2>2, <2>3
<1>8. \A i, j \in rest : L(i) = L(j) /\ K(i) = K(j) => i = j
  <2> SUFFICES ASSUME NEW i \in rest, NEW j \in rest, L(i) = L(j), K(i) = K(j)
               PROVE  i = j
    OBVIOUS
  <2>1. i \in Queue /\ j \in Queue /\ i # id /\ j # id
    OBVIOUS
  <2>2. QED
    BY <1>2, <1>4, <2>1
<1> HIDE DEF L, K
<1>9. ASSUME NEW i \in rest
      PROVE  /\ N(i) \in Nat \ {0} /\ Work(N(i)) <= T
             /\ \A j \in Run : L(i) = slot[j] => Work(N(i) + 1) <= T + round[j].spent
             /\ L(i) = s => Work(N(i) + 1) <= T
  <2>1. CASE L(i) = s
    <3>1. N(i) = K(i) - 1 /\ K(i) - 1 \in Nat \ {0} /\ K(i) \in Nat /\ N(i) + 1 = K(i)
      BY <1>7, <2>1
    <3>2. Work(N(i)) <= Work(K(i)) /\ Work(K(i)) \in Nat /\ Work(N(i)) \in Nat
      BY <3>1, WorkGrows, WorkAdds
    <3>3. Work(K(i)) <= T
      BY <1>7
    <3>4. \A j \in Run : L(i) # slot[j]
      BY <1>5, <2>1
    <3> HIDE DEF N
    <3>5. QED
      BY <3>1, <3>2, <3>3, <3>4
  <2>2. CASE L(i) # s
    <3>1. N(i) = K(i)
      BY <2>2
    <3> HIDE DEF N
    <3>2. QED
      BY <1>7, <2>2, <3>1
  <2>3. QED
    BY <2>1, <2>2
<1>10. \A i, j \in rest : L(i) = L(j) /\ N(i) = N(j) => i = j
  <2> SUFFICES ASSUME NEW i \in rest, NEW j \in rest, L(i) = L(j), N(i) = N(j)
               PROVE  i = j
    OBVIOUS
  <2>1. K(i) \in Nat /\ K(j) \in Nat
    BY <1>7
  <2>2. K(i) = K(j)
    BY <2>1
  <2>3. QED
    BY <1>8, <2>2
<1> HIDE DEF N
<1>11. /\ newSlot \in [Ids -> Lanes] /\ newSlot[id] = s
       /\ \A j \in Run : newSlot[j] = slot[j]
  BY <1>2, <1>3, <1>4
<1>12. newLane \in [Ids -> Lanes] /\ newTurn \in [Ids -> Nat \ {0}]
       /\ \A j \in rest : newLane[j] = L(j) /\ newTurn[j] = N(j)
  BY <1>3, <1>7, <1>9
<1>13. Patience <= T
  <2>1. turn[id] \in Nat /\ 1 <= turn[id] /\ Work(turn[id]) <= T
    BY <1>2, <1>4, <1>6
  <2>2. Work(1) <= Work(turn[id])
    BY <2>1, WorkGrows
  <2>3. Work(1) = Patience /\ Work(1) \in Nat /\ Work(turn[id]) \in Nat /\ Patience \in Nat
    <3>1. Patience * 1 = Patience
      BY SamplerAssumption
    <3>2. QED
      BY <2>1, <3>1, WorkAdds DEF Work
  <2>4. QED
    BY <2>1, <2>2, <2>3
<1> HIDE DEF newSlot, newLane, newTurn, rest
<1>14. /\ \A i, j \in Run \cup {id} : newSlot[i] = newSlot[j] => i = j
       /\ \A i \in Run \cup {id} : Patience <= T + round'[i].spent
  <2>1. \A i, j \in Run \cup {id} : newSlot[i] = newSlot[j] => i = j
    BY <1>4, <1>5, <1>11
  <2>2. \A i \in Run \cup {id} : Patience <= T + round'[i].spent
    BY <1>2, <1>4, <1>13
  <2>3. QED
    BY <2>1, <2>2
<1>15. /\ \A i, j \in rest : newLane[i] = newLane[j] /\ newTurn[i] = newTurn[j] => i = j
       /\ \A i \in rest : Work(newTurn[i]) <= T
  BY <1>9, <1>10, <1>12
<1>16. ASSUME NEW i \in rest, NEW j \in Run \cup {id}, newLane[i] = newSlot[j]
       PROVE  Work(newTurn[i] + 1) <= T + round'[j].spent
  <2>1. newLane[i] = L(i) /\ newTurn[i] = N(i)
    BY <1>12
  <2>2. CASE j = id
    <3>1. Work(N(i) + 1) <= T
      BY <1>9, <1>11, <1>16, <2>1, <2>2
    <3>2. T + round'[j].spent = T
      BY <1>2, <2>2
    <3>3. QED
      BY <2>1, <3>1, <3>2
  <2>3. CASE j \in Run
    BY <1>2, <1>9, <1>11, <1>16, <2>1, <2>3
  <2>4. QED
    BY <2>2, <2>3
<1>17. \E sl, la, tu : Schedule(T, sl, la, tu)'
  <2>1. PICK sl, la, tu : sl = newSlot /\ la = newLane /\ tu = newTurn
    OBVIOUS
  <2>2. sl \in [Ids -> Lanes] /\ la \in [Ids -> Lanes] /\ tu \in [Ids -> Nat \ {0}]
    BY <1>11, <1>12, <2>1
  <2>3. /\ \A i, j \in At("running")' : sl[i] = sl[j] => i = j
        /\ \A i \in At("running")' : Patience <= T + round'[i].spent
    BY <1>2, <1>14, <2>1
  <2>4. /\ \A i, j \in At("queued")' : la[i] = la[j] /\ tu[i] = tu[j] => i = j
        /\ \A i \in At("queued")' : Work(tu[i]) <= T
    BY <1>2, <1>15, <2>1 DEF rest
  <2>5. \A i \in At("queued")', j \in At("running")' :
          la[i] = sl[j] => Work(tu[i] + 1) <= T + round'[j].spent
    BY <1>2, <1>16, <2>1 DEF rest
  <2>6. Schedule(T, sl, la, tu)'
    BY <2>2, <2>3, <2>4, <2>5 DEF Schedule
  <2>7. QED
    BY <2>6
<1>18. QED
  BY <1>17 DEF EndsIn

(* A worker that is done leaves its lane.                                  *)
LEMMA FinishKeepsEnd ==
  ASSUME SamplerInv, NEW T \in Nat, EndsIn(T), NEW id \in Ids, FinishWorker(id)
  PROVE  EndsIn(T)'
<1>1. PICK slot, lane, turn : Schedule(T, slot, lane, turn)
  BY DEF EndsIn
<1>2. /\ At("running")' \subseteq At("running") /\ At("queued")' = At("queued")
      /\ \A j \in At("running")' : round'[j] = round[j]
  <2>1. PICK outcome \in Outcome :
          round' = [round EXCEPT ![id] = [at |-> "done", cfg |-> round[id].cfg, outcome |-> outcome]]
    BY DEF FinishWorker
  <2>2. round[id].at = "running"
    BY DEF FinishWorker
  <2>3. round \in [Ids -> Worker(Config) \cup {NoWorker}]
    BY DEF SamplerInv, TypeOK
  <2>4. round'[id].at = "done" /\ \A j \in Ids : j # id => round'[j] = round[j]
    BY <2>1, <2>3
  <2>5. QED
    BY <2>2, <2>4 DEF At
<1>3. Schedule(T, slot, lane, turn)'
  BY <1>1, <1>2 DEF Schedule
<1>4. QED
  BY <1>3 DEF EndsIn

(* While somebody is queued no lane is free, so all get nearer to the end. *)
LEMMA TickKeepsEnd ==
  ASSUME SamplerInv, NEW T \in Nat, EndsIn(T), Tick, loop = "sampling"
  PROVE  T - 1 \in Nat /\ EndsIn(T - 1)'
<1> DEFINE Run == At("running")
           Queue == At("queued")
<1>1. PICK slot, lane, turn : Schedule(T, slot, lane, turn)
  BY DEF EndsIn
<1>2. /\ Run # {} /\ (Queue # {} => Cardinality(Run) >= MaxConcurrent)
      /\ \A i \in Run : round[i].spent < Patience
  BY DEF Tick, Quiet
<1>3. \A i \in Run : i \in Ids /\ round[i].spent \in Nat
  <2> SUFFICES ASSUME NEW i \in Run PROVE i \in Ids /\ round[i].spent \in Nat
    OBVIOUS
  <2>1. i \in Ids /\ round[i].at = "running" /\ round[i] \in Worker(Config) \cup {NoWorker}
    BY DEF At, SamplerInv, TypeOK
  <2>2. QED
    BY <2>1, SamplerAssumption DEF Worker, NoWorker
<1>4. /\ At("running")' = Run /\ At("queued")' = Queue
      /\ \A i \in Run : round'[i].spent = round[i].spent + 1
  <2>1. round' = [i \in Ids |-> IF i \in Run THEN [round[i] EXCEPT !.spent = @ + 1] ELSE round[i]]
    BY DEF Tick
  <2>2. \A i \in Run : /\ round[i] \in [at : {"running"}, cfg : Config, spent : 0..Patience]
                       /\ i \in Ids
    BY DEF At, SamplerInv, TypeOK, Worker, NoWorker
  <2>3. \A i \in Run : round'[i].at = "running" /\ round'[i].spent = round[i].spent + 1
    BY <2>1, <2>2
  <2>4. \A i \in Ids : i \notin Run => round'[i] = round[i]
    BY <2>1
  <2>5. \A i \in Ids : round'[i].at = round[i].at
    <3> SUFFICES ASSUME NEW i \in Ids PROVE round'[i].at = round[i].at
      OBVIOUS
    <3>1. i \in Run => round[i].at = "running"
      BY DEF At
    <3>2. QED
      BY <2>3, <2>4, <3>1
  <2>6. QED
    BY <2>3, <2>5 DEF At
<1>5. /\ slot \in [Ids -> Lanes] /\ lane \in [Ids -> Lanes] /\ turn \in [Ids -> Nat \ {0}]
      /\ \A i, j \in Run : slot[i] = slot[j] => i = j
      /\ \A i \in Run : Patience <= T + round[i].spent
      /\ \A i, j \in Queue : lane[i] = lane[j] /\ turn[i] = turn[j] => i = j
      /\ \A i \in Queue : Work(turn[i]) <= T
      /\ \A i \in Queue, j \in Run : lane[i] = slot[j] => Work(turn[i] + 1) <= T + round[j].spent
  BY <1>1 DEF Schedule
<1>6. Queue \subseteq Ids /\ Run \subseteq Ids
  BY DEF At
<1> HIDE DEF Run, Queue
<1>7. T - 1 \in Nat
  <2>1. PICK i \in Run : TRUE
    BY <1>2
  <2>2. round[i].spent < Patience /\ Patience <= T + round[i].spent /\ round[i].spent \in Nat
    BY <1>2, <1>3, <1>5
  <2>3. QED
    BY <2>2, WorkAdds
<1>8. ASSUME NEW i \in Queue PROVE \E j \in Run : slot[j] = lane[i]
  <2> DEFINE h == [j \in Run |-> slot[j]]
  <2>1. h \in Injection(Run, Lanes)
    BY <1>5, <1>6 DEF Injection, IsInjective
  <2>2. IsFiniteSet(Lanes) /\ Cardinality(Lanes) = MaxConcurrent
    BY SamplerAssumption, FS_Interval DEF Lanes
  <2>3. IsFiniteSet(Run)
    BY <1>6, SamplerAssumption, FS_Subset
  <2>4. Cardinality(Run) <= Cardinality(Lanes)
        /\ (Cardinality(Run) = Cardinality(Lanes) => h \in Surjection(Run, Lanes))
    BY <2>1, <2>2, FS_Injection
  <2>5. Cardinality(Run) = Cardinality(Lanes)
    <3>1. Cardinality(Run) \in Nat /\ MaxConcurrent \in Nat
      BY <2>3, FS_CardinalityType, SamplerAssumption
    <3>2. QED
      BY <1>2, <2>2, <2>4, <3>1
  <2>6. h \in Surjection(Run, Lanes) /\ lane[i] \in Lanes
    BY <1>5, <1>6, <2>4, <2>5
  <2>7. QED
    BY <2>6 DEF Surjection
<1>9. ASSUME NEW i \in Queue PROVE Work(turn[i]) <= T - 1
  <2>1. PICK j \in Run : slot[j] = lane[i]
    BY <1>8
  <2>2. turn[i] \in Nat
    BY <1>5, <1>6
  <2>3. Work(turn[i]) + Patience <= T + round[j].spent
    BY <1>5, <2>1, <2>2, WorkAdds
  <2>4. round[j].spent < Patience /\ round[j].spent \in Nat /\ Work(turn[i]) \in Nat
    BY <1>2, <1>3, <2>2, WorkAdds
  <2>5. QED
    BY <2>3, <2>4, WorkAdds
<1>10. \A i \in Run : (T - 1) + round'[i].spent = T + round[i].spent
  BY <1>3, <1>4
<1>11. Schedule(T - 1, slot, lane, turn)'
  <2>1. \A i \in At("running")' : Patience <= (T - 1) + round'[i].spent
    BY <1>4, <1>5, <1>10
  <2>2. \A i \in At("queued")', j \in At("running")' :
          lane[i] = slot[j] => Work(turn[i] + 1) <= (T - 1) + round'[j].spent
    BY <1>4, <1>5, <1>10
  <2>3. \A i \in At("queued")' : Work(turn[i]) <= T - 1
    BY <1>4, <1>9
  <2>4. QED
    BY <1>4, <1>5, <2>1, <2>2, <2>3 DEF Schedule
<1>12. QED
  BY <1>7, <1>11 DEF EndsIn

-----------------------------------------------------------------------------
(* When it is tried again.                                                 *)

(* Ticks until the round that a cluster without a backoff is in, if the    *)
(* round under way takes T more.                                           *)
Late(T) == CASE loop = "sampling" -> T + LongestInterval
             [] loop = "arming"   -> LongestInterval
             [] loop = "waiting"  -> timer
             [] loop = "refresh"  -> 0

(* A backoff ends in time, and so does the wait for the round after it.    *)
DueAgain(id, T) ==
  /\ retries[id].left > 0 => age[id] + retries[id].left <= MaxDelay
  /\ retries[id].left = 0 => age[id] + Late(T) <= MaxDelay + LongestInterval + LongestRound

OnTime(T) == /\ loop = "sampling" => EndsIn(T)
             /\ \A id \in Ids : Waits(id) => DueAgain(id, T)

(* An offline cluster in the round is asked with its present settings.     *)
AskedAsShown ==
  \A id \in Ids : items[id].status = "offline" /\ round[id] # NoWorker
                   => round[id].cfg.conn = configs[id].conn

RetriedInv == /\ SamplerInv /\ AskedAsShown
              /\ loop = "waiting" => timer <= LongestInterval
              /\ \E T \in 0..LongestRound : OnTime(T)

LEMMA LongEnoughNext == (At("running") = {} => EndsIn(LongestRound))'
  BY LongEnough, PTL

LEMMA LateIs ==
  ASSUME NEW T \in Nat
  PROVE  /\ loop = "sampling" => Late(T) = T + LongestInterval
         /\ loop = "arming" => Late(T) = LongestInterval
         /\ loop = "waiting" => Late(T) = timer
         /\ loop = "refresh" => Late(T) = 0
  BY DEF Late

LEMMA LateIsNext ==
  ASSUME NEW T \in Nat
  PROVE  /\ loop' = "sampling" => Late(T)' = T + LongestInterval
         /\ loop' = "arming" => Late(T)' = LongestInterval
         /\ loop' = "waiting" => Late(T)' = timer'
         /\ loop' = "refresh" => Late(T)' = 0
  BY DEF Late

LEMMA WaitsTypes ==
  ASSUME SamplerInv, NEW id \in Ids
  PROVE  age[id] \in Nat /\ retries[id].left \in 0..MaxDelay /\ retries[id].left \in Nat
<1>1. age[id] \in 0..AgeCap /\ retries[id] \in [failures : 0..FailureCap, left : 0..MaxDelay]
  BY DEF SamplerInv, TypeOK
<1>2. QED
  BY <1>1, Numbers

(* What is left of the wait is never negative.                             *)
LEMMA LateIsNat ==
  ASSUME SamplerInv, NEW T \in Nat
  PROVE  Late(T) \in Nat
<1>1. loop \in {"refresh", "sampling", "arming", "waiting"} /\ timer \in Nat
  BY DEF SamplerInv, TypeOK
<1>2. LongestInterval \in Nat
  BY Numbers
<1>3. CASE loop = "sampling"
  BY <1>2, <1>3, LateIs
<1>4. CASE loop # "sampling"
  BY <1>1, <1>2, <1>4, LateIs
<1>5. QED
  BY <1>3, <1>4

LEMMA OnTimeIsEnough == RetriedInv => OfflineIsRetried
<1> SUFFICES ASSUME RetriedInv, NEW id \in Ids, Waits(id)
             PROVE  age[id] <= MaxDelay + LongestInterval + LongestRound
  BY DEF OfflineIsRetried
<1>1. PICK T \in 0..LongestRound : OnTime(T)
  BY DEF RetriedInv
<1>2. DueAgain(id, T)
  BY <1>1 DEF OnTime
<1>3. T \in Nat /\ LongestRound \in Nat /\ LongestInterval \in Nat /\ MaxDelay \in Nat
  BY Numbers
<1>4. age[id] \in Nat /\ retries[id].left \in Nat
  BY WaitsTypes DEF RetriedInv
<1>5. Late(T) \in Nat
  BY <1>3, LateIsNat DEF RetriedInv
<1>6. QED
  BY <1>2, <1>3, <1>4, <1>5 DEF DueAgain

-----------------------------------------------------------------------------
LEMMA RetriedInit == Init => RetriedInv
<1> SUFFICES ASSUME Init PROVE RetriedInv
  OBVIOUS
<1>1. SamplerInv
  BY InitInv
<1>2. loop = "refresh" /\ \A id \in Ids : round[id] = NoWorker
  BY DEF Init
<1>3. \A id \in Ids : items[id].status # "offline"
  BY DEF Init, Absent, Loading
<1>4. 0 \in 0..LongestRound
  BY Numbers
<1>5. OnTime(0)
  BY <1>2, <1>3 DEF OnTime, Waits
<1>6. AskedAsShown
  BY <1>2 DEF AskedAsShown
<1>7. QED
  BY <1>1, <1>2, <1>4, <1>5, <1>6 DEF RetriedInv

(* A round begins with every cluster that need not wait.                   *)
LEMMA RefreshRetries ==
  ASSUME RetriedInv, Refresh
  PROVE  RetriedInv'
<1> DEFINE due == {id \in Enabled(configs) : ~ BackedOff(id)}
<1>1. /\ loop = "refresh" /\ UNCHANGED <<configs, options, items, history, retries, wake, timer, age>>
      /\ round' = [id \in Ids |-> IF id \in due THEN [at |-> "queued", cfg |-> configs[id]]
                                                ELSE NoWorker]
      /\ loop' \in {"arming", "sampling"}
  BY DEF Refresh, state
<1> HIDE DEF due
<1>2. SamplerInv /\ SamplerInv'
  BY RefreshInv DEF RetriedInv
<1>3. LongestRound \in 0..LongestRound
  BY Numbers
<1>4. EndsIn(LongestRound)'
  <2>1. \A id \in Ids : round'[id].at # "running"
    BY <1>1 DEF NoWorker
  <2>2. (At("running") = {})'
    BY <2>1 DEF At
  <2>3. QED
    BY <2>2, LongEnoughNext
<1>5. AskedAsShown'
  <2> SUFFICES ASSUME NEW id \in Ids, round'[id] # NoWorker
               PROVE  round'[id].cfg.conn = configs'[id].conn
    BY DEF AskedAsShown
  <2>1. round'[id] = [at |-> "queued", cfg |-> configs[id]]
    BY <1>1
  <2>2. QED
    BY <1>1, <2>1
<1>6. ASSUME NEW id \in Ids, Waits(id)'
      PROVE  DueAgain(id, LongestRound)'
  <2>1. items[id].status = "offline" /\ round'[id] = NoWorker
    BY <1>1, <1>6 DEF Waits
  <2>2. configs[id] # NoConfig
    BY <1>2, <2>1 DEF SamplerInv, Shown, Absent
  <2>3. id \notin due
    BY <1>1, <2>1 DEF NoWorker
  <2>4. retries[id].left > 0
    BY <2>2, <2>3 DEF due, Enabled, BackedOff
  <2>5. round[id] = NoWorker
    BY <1>1, <1>2 DEF SamplerInv, RoundShape
  <2>6. age[id] + retries[id].left <= MaxDelay
    BY <2>1, <2>4, <2>5 DEF RetriedInv, OnTime, Waits, DueAgain
  <2>7. retries[id].left \in Nat
    BY <1>2, WaitsTypes
  <2>8. retries'[id].left > 0 /\ age'[id] + retries'[id].left <= MaxDelay /\ retries'[id].left # 0
    BY <1>1, <2>4, <2>6, <2>7
  <2>9. QED
    BY <2>8 DEF DueAgain
<1>7. OnTime(LongestRound)'
  BY <1>4, <1>6 DEF OnTime
<1>8. QED
  <2>1. loop' # "waiting"
    BY <1>1
  <2>2. PICK T \in 0..LongestRound : T = LongestRound
    BY <1>3
  <2>3. OnTime(T)'
    BY <1>7, <2>2
  <2>4. QED
    BY <1>2, <1>5, <2>1, <2>3 DEF RetriedInv

(* A worker only moves on: the round ends when it did.                     *)
LEMMA WorkerRetries ==
  ASSUME RetriedInv, NEW id \in Ids, StartWorker(id) \/ FinishWorker(id)
  PROVE  RetriedInv'
<1>1. SamplerInv /\ SamplerInv'
  BY StartWorkerInv, FinishWorkerInv DEF RetriedInv
<1>2. UNCHANGED <<configs, options, items, history, retries, wake, loop, timer, age>>
  BY DEF StartWorker, FinishWorker, state
<1>3. PICK T \in 0..LongestRound : OnTime(T)
  BY DEF RetriedInv
<1>4. round[id] # NoWorker /\ loop = "sampling"
  <2>1. round[id] # NoWorker
    BY DEF StartWorker, FinishWorker, NoWorker
  <2>2. QED
    BY <1>1, <2>1 DEF SamplerInv, RoundShape
<1>5. EndsIn(T)'
  <2>1. T \in Nat
    BY Numbers
  <2>2. EndsIn(T)
    BY <1>3, <1>4 DEF OnTime
  <2>3. QED
    BY <1>1, <2>1, <2>2, StartKeepsEnd, FinishKeepsEnd
<1>6. /\ round'[id] # NoWorker /\ round'[id].cfg = round[id].cfg
      /\ \A i \in Ids : i # id => round'[i] = round[i]
  <2>1. round \in [Ids -> Worker(Config) \cup {NoWorker}]
    BY <1>1 DEF SamplerInv, TypeOK
  <2>2. CASE StartWorker(id)
    BY <2>1, <2>2 DEF StartWorker, NoWorker
  <2>3. CASE FinishWorker(id)
    BY <2>1, <2>3 DEF FinishWorker, NoWorker
  <2>4. QED
    BY <2>2, <2>3
<1>7. AskedAsShown'
  <2> SUFFICES ASSUME NEW i \in Ids, items'[i].status = "offline", round'[i] # NoWorker
               PROVE  round'[i].cfg.conn = configs'[i].conn
    BY DEF AskedAsShown
  <2>1. round[i] # NoWorker /\ round'[i].cfg = round[i].cfg
    BY <1>4, <1>6
  <2>2. round[i].cfg.conn = configs[i].conn
    BY <1>2, <2>1 DEF RetriedInv, AskedAsShown
  <2>3. QED
    BY <1>2, <2>1, <2>2
<1>8. \A i \in Ids : Waits(i)' => DueAgain(i, T)'
  <2> SUFFICES ASSUME NEW i \in Ids, Waits(i)' PROVE DueAgain(i, T)'
    OBVIOUS
  <2>1. Waits(i)
    BY <1>2, <1>6 DEF Waits
  <2>2. DueAgain(i, T)
    BY <1>3, <2>1 DEF OnTime
  <2>3. QED
    BY <1>2, <2>2 DEF DueAgain, Late
<1>9. OnTime(T)'
  BY <1>5, <1>8 DEF OnTime
<1>10. QED
  BY <1>1, <1>2, <1>4, <1>7, <1>9 DEF RetriedInv

(* Time brings every deadline nearer.                                      *)
LEMMA TickRetries ==
  ASSUME RetriedInv, Tick
  PROVE  RetriedInv'
<1>1. /\ UNCHANGED <<configs, options, items, history, wake, loop>>
      /\ timer' = Less(timer)
      /\ retries' = [id \in Ids |-> [retries[id] EXCEPT !.left = Less(@)]]
      /\ round' = [id \in Ids |-> IF id \in At("running")
                                    THEN [round[id] EXCEPT !.spent = @ + 1] ELSE round[id]]
      /\ age' = [id \in Ids |-> IF items[id].status = "offline" /\ age[id] < AgeCap
                                  THEN age[id] + 1 ELSE age[id]]
      /\ \/ loop = "waiting" /\ timer > 0
         \/ loop = "sampling"
  BY DEF Tick, Quiet
<1>2. SamplerInv /\ SamplerInv'
  BY TickInv DEF RetriedInv
<1>3. PICK T \in 0..LongestRound : OnTime(T)
  BY DEF RetriedInv
<1>4. T \in Nat /\ LongestInterval \in Nat /\ LongestRound \in Nat /\ MaxDelay \in Nat /\ T <= LongestRound
  BY Numbers
<1>5. PICK U \in 0..LongestRound :
        /\ loop = "sampling" => U = T - 1 /\ EndsIn(U)'
        /\ loop # "sampling" => U = T
  <2>1. CASE loop = "sampling"
    <3>1. EndsIn(T)
      BY <1>3, <2>1 DEF OnTime
    <3>2. T - 1 \in Nat /\ EndsIn(T - 1)'
      BY <1>2, <1>4, <2>1, <3>1, TickKeepsEnd
    <3>3. T - 1 \in 0..LongestRound
      BY <1>4, <3>2
    <3>4. PICK U \in 0..LongestRound : U = T - 1
      BY <3>3
    <3>5. EndsIn(U)'
      BY <3>2, <3>4
    <3>6. QED
      BY <2>1, <3>4, <3>5
  <2>2. CASE loop # "sampling"
    BY <2>2
  <2>3. QED
    BY <2>1, <2>2
<1>6. U \in Nat /\ U <= LongestRound
  BY <1>4
<1>7. timer \in Nat /\ (loop = "waiting" => timer' = timer - 1 /\ timer <= LongestInterval)
  <2>1. timer \in Nat
    BY <1>2 DEF SamplerInv, TypeOK
  <2>2. loop = "waiting" => timer <= LongestInterval
    BY DEF RetriedInv
  <2>3. QED
    BY <1>1, <2>1, <2>2 DEF Less
<1>8. \A id \in Ids : /\ round'[id] # NoWorker <=> round[id] # NoWorker
                      /\ round[id] # NoWorker => round'[id].cfg = round[id].cfg
  <2> SUFFICES ASSUME NEW id \in Ids
               PROVE  /\ round'[id] # NoWorker <=> round[id] # NoWorker
                      /\ round[id] # NoWorker => round'[id].cfg = round[id].cfg
    OBVIOUS
  <2>1. CASE id \in At("running")
    <3>1. round[id] \in [at : {"running"}, cfg : Config, spent : 0..Patience]
      BY <1>2, <2>1 DEF At, SamplerInv, TypeOK, Worker, NoWorker
    <3>2. round'[id].at = "running" /\ round'[id].cfg = round[id].cfg /\ round[id].at = "running"
      BY <1>1, <2>1, <3>1
    <3>3. QED
      BY <3>2 DEF NoWorker
  <2>2. CASE id \notin At("running")
    BY <1>1, <2>2
  <2>3. QED
    BY <2>1, <2>2
<1>9. AskedAsShown'
  <2> SUFFICES ASSUME NEW i \in Ids, items'[i].status = "offline", round'[i] # NoWorker
               PROVE  round'[i].cfg.conn = configs'[i].conn
    BY DEF AskedAsShown
  <2>1. round[i] # NoWorker /\ round'[i].cfg = round[i].cfg
    BY <1>8
  <2>2. round[i].cfg.conn = configs[i].conn
    BY <1>1, <2>1 DEF RetriedInv, AskedAsShown
  <2>3. QED
    BY <1>1, <2>1, <2>2
<1>10. Late(U)' + 1 <= Late(T) /\ Late(U)' \in Nat /\ Late(U)' <= LongestInterval + LongestRound
       /\ Late(T) \in Nat
  <2>1. CASE loop = "sampling"
    <3>1. Late(T) = T + LongestInterval
      BY <1>4, <2>1, LateIs
    <3>2. Late(U)' = U + LongestInterval
      BY <1>1, <1>6, <2>1, LateIsNext
    <3>3. QED
      BY <1>4, <1>5, <1>6, <2>1, <3>1, <3>2
  <2>2. CASE loop = "waiting" /\ timer > 0
    <3>1. Late(T) = timer
      BY <1>4, <2>2, LateIs
    <3>2. Late(U)' = timer - 1
      BY <1>1, <1>6, <1>7, <2>2, LateIsNext
    <3>3. QED
      BY <1>4, <1>7, <2>2, <3>1, <3>2
  <2>3. QED
    BY <1>1, <2>1, <2>2
<1>11. ASSUME NEW id \in Ids, Waits(id)'
       PROVE  DueAgain(id, U)'
  <2>1. Waits(id)
    BY <1>1, <1>8, <1>11 DEF Waits
  <2>2. DueAgain(id, T)
    BY <1>3, <2>1 DEF OnTime
  <2>3. /\ age[id] \in Nat /\ retries[id].left \in Nat
        /\ age'[id] \in Nat /\ age'[id] <= age[id] + 1
        /\ retries'[id].left = Less(retries[id].left)
    <3>1. age[id] \in Nat /\ retries[id].left \in Nat
      BY <1>2, WaitsTypes
    <3>2. age'[id] = IF items[id].status = "offline" /\ age[id] < AgeCap THEN age[id] + 1 ELSE age[id]
      BY <1>1
    <3>3. age'[id] \in Nat /\ age'[id] <= age[id] + 1
      BY <3>1, <3>2
    <3>4. retries'[id].left = Less(retries[id].left)
      <4>1. retries[id] \in [failures : 0..FailureCap, left : 0..MaxDelay]
        BY <1>2 DEF SamplerInv, TypeOK
      <4>2. QED
        BY <1>1, <4>1
    <3>5. QED
      BY <3>1, <3>3, <3>4
  <2> DEFINE l == retries[id].left
             a == age[id]
  <2>4. /\ l > 0 => a + l <= MaxDelay
        /\ l = 0 => a + Late(T) <= MaxDelay + LongestInterval + LongestRound
    BY <2>2 DEF DueAgain
  <2>5. retries'[id].left > 0 => age'[id] + retries'[id].left <= MaxDelay
    <3>1. retries'[id].left > 0 => l > 0 /\ retries'[id].left = l - 1
      BY <2>3 DEF Less
    <3>2. QED
      BY <1>4, <2>3, <2>4, <3>1
  <2>6. retries'[id].left = 0 => age'[id] + Late(U)' <= MaxDelay + LongestInterval + LongestRound
    <3>1. retries'[id].left = 0 => l = 0 \/ l = 1
      BY <2>3 DEF Less
    <3>2. CASE l = 0
      BY <1>4, <1>10, <2>3, <2>4, <3>2
    <3>3. CASE l = 1
      BY <1>4, <1>10, <2>3, <2>4, <3>3
    <3>4. QED
      BY <3>1, <3>2, <3>3
  <2>7. QED
    BY <2>5, <2>6 DEF DueAgain
<1>12. OnTime(U)'
  BY <1>1, <1>5, <1>11 DEF OnTime
<1>13. loop' = "waiting" => timer' <= LongestInterval
  BY <1>1, <1>4, <1>7
<1>14. QED
  BY <1>2, <1>9, <1>12, <1>13 DEF RetriedInv

(* Whoever was asked has a new backoff, that starts now.                   *)
LEMMA MergeRetries ==
  ASSUME RetriedInv, Merge
  PROVE  RetriedInv'
<1>1. /\ loop = "sampling" /\ loop' = "arming"
      /\ UNCHANGED <<configs, options, wake, timer>>
      /\ round' = [id \in Ids |-> NoWorker]
      /\ items' = [id \in Ids |-> IF id \in Wanted THEN Sampled(id) ELSE items[id]]
      /\ retries' = [id \in Ids |-> IF id \in Wanted THEN Retry(id) ELSE retries[id]]
      /\ age' = [id \in Ids |-> IF id \in Wanted THEN 0 ELSE age[id]]
      /\ At("queued") \cup At("running") = {}
  BY DEF Merge
<1>2. SamplerInv /\ SamplerInv'
  BY MergeInv DEF RetriedInv
<1>3. PICK T \in 0..LongestRound : OnTime(T)
  BY DEF RetriedInv
<1>4. T \in Nat /\ LongestInterval \in Nat /\ LongestRound \in Nat /\ MaxDelay \in Nat
  BY Numbers
<1>5. Late(T) = T + LongestInterval /\ Late(T)' = LongestInterval
  BY <1>1, <1>4, LateIs, LateIsNext
<1>6. ASSUME NEW id \in Ids, Waits(id)'
      PROVE  DueAgain(id, T)'
  <2>1. retries'[id].left \in 0..MaxDelay
    <3>1. retries'[id] \in [failures : 0..FailureCap, left : 0..MaxDelay]
      BY <1>2 DEF SamplerInv, TypeOK
    <3>2. QED
      BY <3>1
  <2>2. items'[id].status = "offline"
    BY <1>6 DEF Waits
  <2>3. CASE id \in Wanted
    <3>1. age'[id] = 0
      BY <1>1, <2>3
    <3>2. retries'[id].left > 0 => age'[id] + retries'[id].left <= MaxDelay
      BY <1>4, <2>1, <3>1
    <3>3. age'[id] + Late(T)' <= MaxDelay + LongestInterval + LongestRound
      BY <1>4, <1>5, <3>1
    <3>4. QED
      BY <3>2, <3>3 DEF DueAgain
  <2>4. CASE id \notin Wanted
    <3>1. items[id].status = "offline" /\ retries'[id] = retries[id] /\ age'[id] = age[id]
      BY <1>1, <2>2, <2>4
    <3>2. round[id] = NoWorker
      <4> SUFFICES ASSUME round[id] # NoWorker PROVE FALSE
        OBVIOUS
      <4>1. round[id] \in Worker(Config)
        BY <1>2 DEF SamplerInv, TypeOK
      <4>2. round[id].at \in {"queued", "running", "done"}
        BY <4>1 DEF Worker
      <4>3. id \in At("done")
        BY <1>1, <4>2 DEF At
      <4>4. configs[id] # NoConfig
        BY <1>2, <3>1 DEF SamplerInv, Shown, Absent
      <4>5. round[id].cfg.conn = configs[id].conn
        BY <3>1 DEF RetriedInv, AskedAsShown
      <4>6. QED
        BY <2>4, <4>3, <4>4, <4>5 DEF Wanted
    <3>3. DueAgain(id, T)
      BY <1>3, <3>1, <3>2 DEF OnTime, Waits
    <3>4. age[id] \in Nat /\ retries[id].left \in Nat
      BY <1>2, WaitsTypes
    <3>5. age[id] + LongestInterval <= age[id] + Late(T)
      BY <1>4, <1>5, <3>4
    <3>6. retries[id].left = 0 => age[id] + Late(T)' <= MaxDelay + LongestInterval + LongestRound
      BY <1>4, <1>5, <3>3, <3>4 DEF DueAgain
    <3>7. QED
      BY <3>1, <3>3, <3>6 DEF DueAgain
  <2>5. QED
    BY <2>3, <2>4
<1>7. OnTime(T)'
  BY <1>1, <1>6 DEF OnTime
<1>8. AskedAsShown'
  BY <1>1 DEF AskedAsShown
<1>9. QED
  BY <1>1, <1>2, <1>7, <1>8 DEF RetriedInv

(* Between two rounds the loop sleeps for an interval at most.             *)
LEMMA LoopRetries ==
  ASSUME RetriedInv, Arm \/ Woken \/ TimerFires
  PROVE  RetriedInv'
<1>1. /\ UNCHANGED <<configs, options, items, history, retries, round, age>>
      /\ \/ loop = "arming" /\ loop' = "waiting" /\ timer' = options.interval
         \/ loop = "waiting" /\ loop' = "refresh"
  BY DEF Arm, Woken, TimerFires, state
<1>2. SamplerInv /\ SamplerInv'
  BY LoopInv DEF RetriedInv
<1>3. PICK T \in 0..LongestRound : OnTime(T)
  BY DEF RetriedInv
<1>4. T \in Nat /\ LongestInterval \in Nat /\ LongestRound \in Nat /\ MaxDelay \in Nat
  BY Numbers
<1>5. options.interval \in Nat /\ options.interval <= LongestInterval
  <2>1. options.interval \in Intervals
    BY <1>2 DEF SamplerInv, TypeOK
  <2>2. QED
    BY <2>1, Numbers
<1>6. Late(T)' <= Late(T) /\ Late(T)' \in Nat /\ Late(T) \in Nat
  <2>1. Late(T) \in Nat
    BY <1>2, <1>4, LateIsNat
  <2>2. CASE loop = "arming" /\ loop' = "waiting" /\ timer' = options.interval
    BY <1>4, <1>5, <2>1, <2>2, LateIs, LateIsNext
  <2>3. CASE loop = "waiting" /\ loop' = "refresh"
    BY <1>4, <2>1, <2>3, LateIsNext
  <2>4. QED
    BY <1>1, <2>2, <2>3
<1>7. ASSUME NEW id \in Ids, Waits(id)'
      PROVE  DueAgain(id, T)'
  <2>1. Waits(id)
    BY <1>1, <1>7 DEF Waits
  <2>2. DueAgain(id, T)
    BY <1>3, <2>1 DEF OnTime
  <2>3. age[id] \in Nat
    BY <1>2, WaitsTypes
  <2>4. age[id] + Late(T)' <= age[id] + Late(T)
    BY <1>6, <2>3
  <2>5. retries[id].left = 0 => age[id] + Late(T)' <= MaxDelay + LongestInterval + LongestRound
    BY <1>4, <1>6, <2>2, <2>3, <2>4 DEF DueAgain
  <2>6. QED
    BY <1>1, <2>2, <2>5 DEF DueAgain
<1>8. OnTime(T)'
  BY <1>1, <1>7 DEF OnTime
<1>9. AskedAsShown'
  BY <1>1 DEF RetriedInv, AskedAsShown
<1>10. loop' = "waiting" => timer' <= LongestInterval
  BY <1>1, <1>5
<1>11. QED
  BY <1>2, <1>8, <1>9, <1>10 DEF RetriedInv

(* A cluster stays offline only with the settings it has; others are new.  *)
LEMMA UpdateRetries ==
  ASSUME RetriedInv,
         NEW new \in [Ids -> Config \cup {NoConfig}],
         NEW opts \in [interval : Intervals, points : HistorySizes],
         Update(new, opts)
  PROVE  RetriedInv'
<1> DEFINE same == SameConnection(new)
<1>1. SamplerInv /\ SamplerInv'
  BY UpdateInv DEF RetriedInv
<1>2. PICK T \in 0..LongestRound : OnTime(T)
  BY DEF RetriedInv
<1>3. /\ UNCHANGED <<loop, timer, round>> /\ configs' = new
      /\ items' = [id \in Ids |-> CASE id \in same -> WithMeta(items[id], new[id])
                                    [] id \in Enabled(new) \ same -> Loading(new[id])
                                    [] OTHER -> Absent]
      /\ retries' = [id \in Ids |-> IF id \in same THEN retries[id] ELSE NoRetry]
      /\ age' = [id \in Ids |-> IF id \in same THEN age[id] ELSE 0]
  BY DEF Update, Carried
<1>4. ASSUME NEW id \in Ids, items'[id].status = "offline"
      PROVE  /\ id \in same /\ items[id].status = "offline"
             /\ configs'[id].conn = configs[id].conn
             /\ retries'[id] = retries[id] /\ age'[id] = age[id]
  <2>1. id \in same
    <3>1. CASE id \in Enabled(new) \ same
      <4>1. items'[id].status = "loading"
        BY <1>3, <3>1 DEF Loading
      <4>2. QED
        BY <1>4, <4>1
    <3>2. CASE id \notin Enabled(new) /\ id \notin same
      <4>1. items'[id].status = "absent"
        BY <1>3, <3>2 DEF Absent
      <4>2. QED
        BY <1>4, <4>1
    <3>3. QED
      BY <3>1, <3>2
  <2>2. configs[id] # NoConfig /\ configs[id].conn = new[id].conn
    BY <2>1 DEF SameConnection
  <2>3. items[id] \in Item
    BY <1>1, <2>2 DEF SamplerInv, Shown
  <2>4. items'[id] = [items[id] EXCEPT !.meta = new[id].meta]
    BY <1>3, <2>1 DEF WithMeta
  <2>5. items'[id].status = items[id].status
    BY <2>3, <2>4 DEF Item
  <2> HIDE DEF same
  <2>6. QED
    BY <1>3, <1>4, <2>1, <2>2, <2>5
<1> HIDE DEF same
<1>5. AskedAsShown'
  BY <1>3, <1>4 DEF RetriedInv, AskedAsShown
<1>6. ASSUME NEW id \in Ids, Waits(id)'
      PROVE  DueAgain(id, T)'
  <2>1. items'[id].status = "offline" /\ round[id] = NoWorker
    BY <1>3, <1>6 DEF Waits
  <2>2. DueAgain(id, T)
    BY <1>2, <1>4, <2>1 DEF OnTime, Waits
  <2>3. Late(T)' = Late(T)
    BY <1>3 DEF Late
  <2>4. QED
    BY <1>4, <2>1, <2>2, <2>3 DEF DueAgain
<1>7. loop = "sampling" => EndsIn(T)'
  BY <1>2, <1>3 DEF OnTime, EndsIn, Schedule, At
<1>8. OnTime(T)'
  BY <1>3, <1>6, <1>7 DEF OnTime
<1>9. QED
  BY <1>1, <1>3, <1>5, <1>8 DEF RetriedInv

LEMMA StutterRetries ==
  ASSUME RetriedInv, UNCHANGED svars
  PROVE  RetriedInv'
<1>1. UNCHANGED <<configs, options, items, history, retries, wake, loop, timer, round, age>>
  BY DEF svars, state
<1>2. PICK T \in 0..LongestRound : OnTime(T)
  BY DEF RetriedInv
<1>3. SamplerInv'
  BY StepInv DEF RetriedInv
<1>4. OnTime(T)'
  <2>1. loop = "sampling" => EndsIn(T)'
    BY <1>1, <1>2 DEF OnTime, EndsIn, Schedule, At
  <2>2. \A id \in Ids : Waits(id)' => DueAgain(id, T)'
    BY <1>1, <1>2 DEF OnTime, Waits, DueAgain, Late
  <2>3. QED
    BY <1>1, <2>1, <2>2 DEF OnTime
<1>5. QED
  BY <1>1, <1>3, <1>4 DEF RetriedInv, AskedAsShown

THEOREM RetriedStep == RetriedInv /\ [Next]_svars => RetriedInv'
<1> SUFFICES ASSUME RetriedInv, [Next]_svars PROVE RetriedInv'
  OBVIOUS
<1>1. CASE Refresh
  BY <1>1, RefreshRetries
<1>2. ASSUME NEW id \in Ids, StartWorker(id) \/ FinishWorker(id) PROVE RetriedInv'
  BY <1>2, WorkerRetries
<1>3. CASE Merge
  BY <1>3, MergeRetries
<1>4. CASE Arm \/ Woken \/ TimerFires
  BY <1>4, LoopRetries
<1>5. CASE Tick
  BY <1>5, TickRetries
<1>6. ASSUME NEW new \in [Ids -> Config \cup {NoConfig}],
             NEW opts \in [interval : Intervals, points : HistorySizes],
             Update(new, opts)
      PROVE  RetriedInv'
  BY <1>6, UpdateRetries
<1>7. CASE UNCHANGED svars
  BY <1>7, StutterRetries
<1>8. QED
  BY <1>1, <1>2, <1>3, <1>4, <1>5, <1>6, <1>7 DEF Next, Step

(* An offline cluster is sampled again within the longest backoff, the     *)
(* longest interval and the longest round, however many workers share the  *)
(* semaphore and whatever the configuration is changed to meanwhile.       *)
THEOREM OfflineIsTriedAgain == Spec => []OfflineIsRetried
<1>1. QED
  BY RetriedInit, RetriedStep, OnTimeIsEnough, PTL DEF Spec
=============================================================================
