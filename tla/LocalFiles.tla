----------------------------- MODULE LocalFiles -----------------------------
(***************************************************************************)
(* What the program keeps on its disk: the audit log and the configuration *)
(* with its backups.  The two have separate directories, locks and         *)
(* retentions and hand nothing to each other, so each is checked in the    *)
(* behaviours where the other stands still; subject says which it is.      *)
(***************************************************************************)
EXTENDS Integers, Sequences, FiniteSets

CONSTANTS NoFile, Sizes, MaxFileSize, HoursPerDay,
          LastHour, LastEntry, MaxFiles, MaxFaults, MaxRestarts,
          Contents, Empty, Part, Mounts, LastDay, MaxSaves, MaxCrashes,
          AuditRetentionDays,   (* Audit.RetentionDays                       *)
          BackupRetentionDays   (* Audit.ConfigBackupRetentionDays           *)

VARIABLES
  subject,
  now, files, writer, count, recorded, removed, faults, restarts,
  mounted, file, backups, tmps, save, running, today, cleaned, replaced,
  writes, crashes

Log == INSTANCE AuditLog WITH RetentionDays <- AuditRetentionDays
Store == INSTANCE ConfigStore WITH RetentionDays <- BackupRetentionDays

ASSUME FilesAssumption == Log!AuditAssumption /\ Store!StoreAssumption

LogVars   == <<now, files, writer, count, recorded, removed, faults, restarts>>
StoreVars == <<mounted, file, backups, tmps, save, running, today, cleaned, replaced,
               writes, crashes>>

First == CHOOSE text \in Contents : TRUE
Init ==
  /\ subject \in {"log", "store"}
  /\ Log!Init /\ Store!Init
  /\ subject = "log" => file = First /\ mounted = FALSE

LogStep   == subject = "log" /\ Log!Next /\ UNCHANGED <<subject, StoreVars>>
StoreStep == subject = "store" /\ Store!Next /\ UNCHANGED <<subject, LogVars>>

Next == LogStep \/ StoreStep

Spec == Init /\ [][Next]_<<subject, LogVars, StoreVars>>

-----------------------------------------------------------------------------
(* The audit log keeps to its configuration: no file is larger than        *)
(* allowed unless one entry alone is, an entry is in the directory of its  *)
(* day, and no day is removed before it was kept for RetentionDays - 1     *)
(* whole days; over midnights, restarts and failed writes.                 *)
FilesAsConfigured == Log!FilesBounded /\ Log!FiledByDay /\ Log!KeptForFullDays

(* However many writes fail, a restart spoils one entry at most of those   *)
(* that were reported as recorded.                                         *)
RestartSpoilsOneAtMost == Log!RestartSpoilsOneAtMost

(* The log is append-only until Cleanup removes a day.                     *)
AppendOnly == Log!AppendOnly

(* A config.yaml that can be renamed can be loaded at every moment, and    *)
(* only a killed Save leaves its temporary file behind.                    *)
FileIsWhole == Store!FileIsWhole /\ Store!TempsRemoved

(* What a Save has read and replaced stays in the backups for as long as   *)
(* they are kept, whatever fails and whoever edits the file meanwhile.     *)
ReadIsKept == Store!ReadIsKept
=============================================================================
