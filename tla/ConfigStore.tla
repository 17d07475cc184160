----------------------------- MODULE ConfigStore -----------------------------
(***************************************************************************)
(* The configuration file and its backups, internal/config/store.go: a     *)
(* Save is a sequence of file operations, each of which may fail, between  *)
(* any two of which the program may be killed, and around which somebody   *)
(* may edit the file by hand.  Store.mu allows one Save or cleanup at a    *)
(* time.  (A name that starts with Fault_ is a seeded fault: see           *)
(* PROJECT.json.)                                                          *)
(***************************************************************************)
EXTENDS Naturals, FiniteSets

CONSTANTS Contents,       (* texts that load and validate                    *)
          Empty,          (* a file truncated, or a backup not yet written   *)
          Part,           (* the beginning of a text                         *)
          Mounts,         (* whether the file may be a bind mount            *)
          RetentionDays,  (* Audit.ConfigBackupRetentionDays                 *)
          LastDay,        (* bound on time                                   *)
          MaxSaves,       (* bound on Saves and on edits                     *)
          MaxCrashes      (* bound on kills of the program                   *)

(* Assumed where the module is instantiated.                               *)
StoreAssumption ==
  /\ Empty \notin Contents /\ Part \notin Contents \cup {Empty}
  /\ Mounts \subseteq BOOLEAN /\ Mounts # {}
  /\ {RetentionDays, LastDay, MaxSaves, MaxCrashes} \subseteq Nat

VARIABLES
  mounted,   (* the file is a bind mount: rename fails with EBUSY            *)
  file,      (* config.yaml                                                  *)
  backups,   (* files below data/config-backups: day and text                *)
  tmps,      (* temporary files next to config.yaml                          *)
  save,      (* the Save under way: its place, data and old text             *)
  running,   (* the program runs                                             *)
  today,     (* the day                                                      *)
  cleaned,   (* the day of the last CleanupBackups                           *)
  replaced,  (* the texts Saves have replaced, the days of their backups,    *)
             (* and whether it is the text that Save had read                *)
  writes,    (* Saves and edits so far                                       *)
  crashes    (* kills so far                                                 *)

svars == <<mounted, file, backups, tmps, save, running, today, cleaned, replaced, writes, crashes>>

Texts == Contents \cup {Empty, Part}
Backup == [day : 0..LastDay, text : Texts]
Idle == [at |-> "idle"]
Places == {"read", "named", "backedUp", "staged", "written", "busy", "truncated"}

TypeOK ==
  /\ mounted \in Mounts
  /\ file \in Texts
  /\ backups \subseteq Backup
  /\ tmps \in 0..(MaxCrashes + 1)
  /\ save \in {Idle} \cup [at : Places, data : Contents, old : Texts, day : 0..LastDay]
  /\ running \in BOOLEAN
  /\ today \in 0..LastDay /\ cleaned \in 0..LastDay
  /\ replaced \subseteq [day : 0..LastDay, text : Contents, read : BOOLEAN]
  /\ writes \in 0..MaxSaves /\ crashes \in 0..MaxCrashes

Init ==
  /\ mounted \in Mounts
  /\ file \in Contents
  /\ backups = {} /\ tmps = 0
  /\ save = Idle
  /\ running = TRUE
  /\ today = 0 /\ cleaned = 0
  /\ replaced = {}
  /\ writes = 0 /\ crashes = 0

-----------------------------------------------------------------------------
At(place) == running /\ save.at = place
To(place) == save' = [save EXCEPT !.at = place]
Others == UNCHANGED <<mounted, running, today, cleaned, writes, crashes>>

(* A Save puts a text into the file, in place of a legal one or not.       *)
Put(text) ==
  /\ file' = text
  /\ replaced' = replaced \cup
       {[day |-> save.day, text |-> old, read |-> old = save.old] : old \in {file} \cap Contents}

(* Save is called with data that loads, and reads the present text.        *)
SaveBegins(data) ==
  /\ running /\ save = Idle
  /\ writes < MaxSaves
  /\ writes' = writes + 1
  /\ save' = [at |-> "read", data |-> data, old |-> file, day |-> today]
  /\ UNCHANGED <<mounted, file, backups, tmps, running, today, cleaned, replaced, crashes>>

(* An empty file needs no backup; otherwise the backup is named by the     *)
(* time and created empty (the first half of os.WriteFile).                *)
NameBackup ==
  /\ At("read")
  /\ IF save.old = Empty
       THEN To("backedUp") /\ UNCHANGED backups
       ELSE /\ save' = [save EXCEPT !.at = "named", !.day = today]
            /\ backups' = backups \cup {[day |-> today, text |-> Empty]}
  /\ UNCHANGED <<file, tmps, replaced>> /\ Others

(* The backup gets the text that Save has read.                            *)
WriteBackup ==
  /\ At("named")
  /\ backups' = (backups \ {[day |-> save.day, text |-> Empty]})
                  \cup {[day |-> save.day, text |-> save.old]}
  /\ To("backedUp")
  /\ UNCHANGED <<file, tmps, replaced>> /\ Others

(* CreateTemp, then Chmod, Write, Sync and Close of the temporary file.    *)
Stage ==
  /\ At("backedUp")
  /\ tmps' = tmps + 1
  /\ To("staged")
  /\ UNCHANGED <<file, backups, replaced>> /\ Others

WriteTemp ==
  /\ At("staged")
  /\ To("written")
  /\ UNCHANGED <<file, backups, tmps, replaced>> /\ Others

(* Rename replaces the file at once, or is refused for a bind mount.       *)
Fault_InPlace == TRUE
Refused == mounted

Rename ==
  /\ At("written")
  /\ IF Refused
       THEN To("busy") /\ UNCHANGED <<file, tmps, replaced>>
       ELSE Put(save.data) /\ tmps' = tmps - 1 /\ save' = Idle
  /\ UNCHANGED backups /\ Others

(* Then the mounted file is rewritten in place: O_TRUNC, Write, Sync.      *)
Truncate ==
  /\ At("busy")
  /\ Put(Empty)
  /\ To("truncated")
  /\ UNCHANGED <<backups, tmps>> /\ Others

(* The deferred os.Remove of the temporary file.                           *)
Fault_TempKept == tmps
TempsLeft == tmps - 1

(* Over a text that was edited in again meanwhile, it may stay a mixture.  *)
Rewrite ==
  /\ At("truncated")
  /\ \E text \in {save.data} \cup (IF file = Empty THEN {} ELSE {Part}) : Put(text)
  /\ tmps' = TempsLeft
  /\ save' = Idle
  /\ UNCHANGED backups /\ Others

(* Any of the operations fails: Save returns its error.  A write that      *)
(* fails may have written a part.                                          *)
SaveFails ==
  /\ running /\ save # Idle
  /\ IF save.at = "truncated" THEN \E text \in {Empty, Part} : Put(text)
                              ELSE UNCHANGED <<file, replaced>>
  /\ IF save.at = "named"
       THEN \E text \in {Empty, Part} :
              backups' = (backups \ {[day |-> save.day, text |-> Empty]})
                           \cup {[day |-> save.day, text |-> text]}
       ELSE UNCHANGED backups
  /\ tmps' = IF save.at \in {"staged", "written", "busy", "truncated"} THEN TempsLeft ELSE tmps
  /\ save' = Idle
  /\ Others

SaveStep == NameBackup \/ WriteBackup \/ Stage \/ WriteTemp \/ Rename \/ Truncate \/ Rewrite

(* Restore: LoadBackup refuses a text that does not load, and the Save     *)
(* then keeps what it replaces as any other does.                          *)
Restore(backup) == backup.text \in Contents /\ SaveBegins(backup.text)

-----------------------------------------------------------------------------
(* Days whose backups CleanupBackups removes, counted from midnight.       *)
Fault_ExpiredEarly(day) == day + RetentionDays <= today
Expired(day) == day + RetentionDays < today

(* main's cleanup, at the start and every 24 hours: skipped if the file,   *)
(* which says how long to keep backups, does not load.                     *)
Clean(b) == IF file \in Contents THEN {x \in b : ~ Expired(x.day)} ELSE b

CleanupBackups ==
  /\ running /\ save = Idle
  /\ cleaned # today
  /\ cleaned' = today
  /\ backups' = Clean(backups)
  /\ UNCHANGED <<mounted, file, tmps, save, running, today, replaced, writes, crashes>>

(* The daily job runs once between two midnights, while the program does.  *)
NextDay ==
  /\ today < LastDay
  /\ running => cleaned = today
  /\ today' = today + 1
  /\ UNCHANGED <<mounted, file, backups, tmps, save, running, cleaned, replaced, writes, crashes>>

(* Somebody writes a legal file by hand, in one go.                        *)
Edit(text) ==
  /\ writes < MaxSaves
  /\ text # file
  /\ writes' = writes + 1
  /\ file' = text
  /\ UNCHANGED <<mounted, backups, tmps, save, running, today, cleaned, replaced, crashes>>

(* The program is killed; what it has written stays.                       *)
Crash ==
  /\ running
  /\ crashes < MaxCrashes
  /\ crashes' = crashes + 1
  /\ running' = FALSE
  /\ save' = Idle
  /\ UNCHANGED <<mounted, file, backups, tmps, today, cleaned, replaced, writes>>

(* It is started again, which takes a file that loads.                     *)
Start ==
  /\ ~ running
  /\ file \in Contents
  /\ running' = TRUE
  /\ cleaned' = today
  /\ backups' = Clean(backups)
  /\ UNCHANGED <<mounted, file, tmps, save, today, replaced, writes, crashes>>

Next ==
  \/ \E text \in Contents : SaveBegins(text) \/ Edit(text)
  \/ \E backup \in backups : Restore(backup)
  \/ SaveStep \/ SaveFails
  \/ CleanupBackups \/ NextDay
  \/ Crash \/ Start

Spec == Init /\ [][Next]_svars

-----------------------------------------------------------------------------
(* Whatever fails and whenever the program is killed, a config.yaml that   *)
(* can be renamed holds a whole text, old or new: it can be loaded again.  *)
FileIsWhole == ~ mounted => file \in Contents

(* The text a Save has read and then replaced can be restored for as long  *)
(* as backups are kept, even if the Save failed half way, was killed, or   *)
(* raced with an edit.                                                     *)
Kept(r) == today <= r.day + RetentionDays =>
             \E b \in backups : b.text = r.text /\ b.day >= r.day
ReadIsKept == \A r \in replaced : r.read => Kept(r)

(* Only a killed Save leaves its temporary file behind.                    *)
TempsRemoved == save = Idle => tmps <= crashes

(* What docs/deployment.md says of the mounted file: it is written back    *)
(* atomically.                                                             *)
FileAlwaysWhole == file \in Contents

(* What docs/architecture.md says: the old configuration goes to the       *)
(* backups, also if it was edited a moment ago.                            *)
ReplacedIsKept == \A r \in replaced : Kept(r)
=============================================================================
