\* Two clusters that share one worker slot: what the dashboard shows.
SPECIFICATION Spec
CONSTANTS
  Ids = {i1, i2}
  Conns = {k1, k2}
  Metas = {m1, m2}
  NoConfig = NoConfig
  Intervals = {1}
  HistorySizes = {2, 3}
  MaxConcurrent = 1
  MaxDelay = 3
  Patience = 1
  FailureCap = 2
  AgeCap = 0
SYMMETRY Symmetry
INVARIANTS ShowsConfigured TrendsAreUnmixed NoLostWake
