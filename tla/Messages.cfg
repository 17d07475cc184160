\* Every mode over two partitions, with appends and a deletion at any moment, under fairness of the consumer.
SPECIFICATION FairSpec
CONSTANTS
  Partitions = {0, 1}
  Modes = {"earliest", "latest", "offset", "timestamp", "live"}
  Limits = {3}
  ScanLimits = {0, 3, 4}
  Offsets = {1}
  Times = {1}
  DefaultLimit = 1
  MaxLimit = 2
  DefaultScan = 2
  MaxScan = 3
  PerMilli = 2
  MaxRecords = 3
  MaxDeletions = 1
INVARIANTS NewestMatchesKept CompleteUnlessLimited LatestOfPartition
PROPERTIES StreamDelivers
\* A query ends, and appends and deletions are bounded.
CHECK_DEADLOCK FALSE
