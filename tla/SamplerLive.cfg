\* Under fairness, with a short interval and one longer than the longest backoff: when clusters are sampled.
SPECIFICATION FairSpec
CONSTANTS
  Ids = {i1, i2}
  Conns = {k1}
  Metas = {m1}
  NoConfig = NoConfig
  Intervals = {1, 4}
  HistorySizes = {2}
  MaxConcurrent = 1
  MaxDelay = 3
  Patience = 1
  FailureCap = 2
  AgeCap = 12
INVARIANTS OfflineIsRetried
PROPERTIES SampledForever
