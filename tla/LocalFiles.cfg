\* The log: two sizes, two hours a day, two failing calls, two restarts.
\* The store: renamed or rewritten in place, edits at any time, one kill.
SPECIFICATION Spec
CONSTANTS
  NoFile = NoFile
  Sizes = {2, 3}
  MaxFileSize = 5
  AuditRetentionDays = 1
  HoursPerDay = 2
  LastHour = 5
  LastEntry = 4
  MaxFiles = 5
  MaxFaults = 2
  MaxRestarts = 2
  Contents = {t1, t2, t3}
  Empty = Empty
  Part = Part
  Mounts = {TRUE, FALSE}
  BackupRetentionDays = 1
  LastDay = 3
  MaxSaves = 3
  MaxCrashes = 1
INVARIANTS FilesAsConfigured RestartSpoilsOneAtMost FileIsWhole ReadIsKept
PROPERTIES AppendOnly
\* Time, entries, Saves, restarts and kills are bounded; a torn file cannot be started from.
CHECK_DEADLOCK FALSE
