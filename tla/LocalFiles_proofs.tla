-------------------------- MODULE LocalFiles_proofs --------------------------
(***************************************************************************)
(* Proofs about LocalFiles, for every size, retention, number of files and *)
(* bound on time, faults, restarts, Saves and kills.                       *)
(***************************************************************************)
EXTENDS LocalFiles, InductionLemmas, SequenceTheorems, FiniteSetTheorems

(* The Save under way has a temporary file from CreateTemp on.             *)
Staged == save.at \in {"staged", "written", "busy", "truncated"}
TempsOwned == /\ tmps <= crashes + IF Staged THEN 1 ELSE 0
              /\ Staged => tmps > 0

(* A Save ends with the program at the latest.                             *)
OnlyWhileRunning == ~ running => save = Store!Idle

(* Only a mounted file is written in place.                                *)
InPlaceIfMounted == save.at \in {"busy", "truncated"} => mounted

(* A Save goes on only once the text it has read is in the backups.        *)
BackedUp ==
  Staged \/ save.at = "backedUp" =>
    save.old = Empty \/ [day |-> save.day, text |-> save.old] \in backups

StoreInv == /\ Store!TypeOK
            /\ Store!FileIsWhole /\ Store!ReadIsKept
            /\ TempsOwned /\ OnlyWhileRunning /\ InPlaceIfMounted /\ BackedUp

-----------------------------------------------------------------------------
(* The Writer's idea of the open file is never too small.                  *)
OpenFile ==
  writer.open => /\ writer.date \in Log!Days /\ writer.index \in Log!Indexes
                 /\ files[writer.date][writer.index] # NoFile
                 /\ Log!Size(files[writer.date][writer.index]) <= writer.size

(* Every chunk, whole or not, is in the directory of its day.              *)
ChunksByDay ==
  \A d \in Log!Days, i \in Log!Indexes :
    files[d][i] # NoFile =>
      \A j \in 1..Len(files[d][i]) : Log!Day(files[d][i][j].entry.at) = d

(* The files that end in a fragment: whatever comes next is spoiled.       *)
Fragment(f) == f # NoFile /\ f # <<>> /\ ~ Log!Whole(f[Len(f)])
Fragments == {di \in Log!Days \X Log!Indexes : Fragment(files[di[1]][di[2]])}

(* A run of the program spoils one entry, or leaves one fragment.          *)
Failing == IF writer.broken THEN 1 ELSE 0
DamageBounded ==
  /\ Cardinality(Log!Unreadable) <= restarts
  /\ Cardinality(Log!Unreadable) + Cardinality(Fragments) <= restarts + Failing

LogInv == /\ Log!TypeOK /\ OpenFile /\ ChunksByDay
          /\ Log!FilesBounded /\ Log!KeptForFullDays
          /\ IsFiniteSet(recorded) /\ DamageBounded

-----------------------------------------------------------------------------
(* The configuration file: the actions, one after the other.               *)

LEMMA StoreInit == Init => StoreInv
<1> SUFFICES ASSUME Init PROVE StoreInv
  OBVIOUS
<1>1. Store!Init /\ Store!StoreAssumption
  BY FilesAssumption DEF Init
<1>2. Store!TypeOK
  BY <1>1 DEF Store!Init, Store!TypeOK, Store!StoreAssumption, Store!Texts, Store!Idle
<1>3. QED
  BY <1>1, <1>2 DEF StoreInv, Store!Init, Store!FileIsWhole, Store!ReadIsKept, TempsOwned,
                    OnlyWhileRunning, InPlaceIfMounted, BackedUp, Staged, Store!Idle, Store!StoreAssumption

(* The type invariant and the assumption, in the form the steps need.      *)
LEMMA StoreFacts ==
  ASSUME StoreInv
  PROVE  /\ Empty \notin Contents /\ Part \notin Contents
         /\ mounted \in BOOLEAN /\ BackupRetentionDays \in Nat
         /\ today \in Nat /\ tmps \in Nat /\ crashes \in Nat
         /\ MaxCrashes \in Nat /\ MaxSaves \in Nat /\ LastDay \in Nat
         /\ Contents \subseteq Store!Texts /\ Empty \in Store!Texts /\ Part \in Store!Texts
         /\ \/ save = Store!Idle /\ ~ Staged /\ save.at \notin Store!Places
            \/ /\ save \in [at : Store!Places, data : Contents, old : Store!Texts,
                            day : 0..LastDay]
               /\ save # Store!Idle
  BY FilesAssumption
     DEF StoreInv, Store!TypeOK, Store!StoreAssumption, Store!Texts, Store!Idle, Store!Places,
         Staged

(* A Save that puts its own text into the file, or a part of one into a    *)
(* mounted file, has what it replaces in the backups, if it has read it.   *)
LEMMA PutKeeps ==
  ASSUME StoreInv, Staged, NEW text \in Store!Texts, Store!Put(text),
         UNCHANGED <<backups, today>>
  PROVE  /\ file' = text
         /\ replaced' \subseteq [day : 0..LastDay, text : Contents, read : BOOLEAN]
         /\ Store!ReadIsKept'
<1>1. /\ save \in [at : Store!Places, data : Contents, old : Store!Texts, day : 0..LastDay]
      /\ Empty \notin Contents
  BY StoreFacts DEF Store!Idle, Staged
<1>2. /\ file' = text
      /\ replaced' = replaced \cup
           {[day |-> save.day, text |-> old, read |-> old = save.old] :
              old \in {file} \cap Contents}
  BY DEF Store!Put
<1>3. replaced \subseteq [day : 0..LastDay, text : Contents, read : BOOLEAN]
  BY DEF StoreInv, Store!TypeOK
<1>4. replaced' \subseteq [day : 0..LastDay, text : Contents, read : BOOLEAN]
  <2>1. \A old \in Contents : [day |-> save.day, text |-> old, read |-> old = save.old]
                                \in [day : 0..LastDay, text : Contents, read : BOOLEAN]
    BY <1>1
  <2>2. QED
    <3>1. ASSUME NEW r \in replaced', r \notin replaced
          PROVE  r \in [day : 0..LastDay, text : Contents, read : BOOLEAN]
      <4>1. PICK old \in {file} \cap Contents :
              r = [day |-> save.day, text |-> old, read |-> old = save.old]
        BY <1>2, <3>1, Zenon
      <4>2. QED
        BY <2>1, <4>1, Zenon
    <3>2. QED
      BY <1>3, <3>1
<1>5. ASSUME NEW r \in replaced', r.read PROVE Store!Kept(r)'
  <2>1. CASE r \in replaced
    BY <1>5, <2>1 DEF StoreInv, Store!ReadIsKept, Store!Kept
  <2>2. CASE r \notin replaced
    <3>1. r.day = save.day /\ r.text = file /\ file = save.old /\ file \in Contents
      <4>1. PICK old \in {file} \cap Contents :
              r = [day |-> save.day, text |-> old, read |-> old = save.old]
        BY <1>2, <2>2, Zenon
      <4>2. r.day = save.day /\ r.text = old /\ r.read = (old = save.old)
        BY <4>1, Zenon
      <4>3. QED
        BY <1>5, <4>1, <4>2, Zenon
    <3>2. [day |-> save.day, text |-> save.old] \in backups'
      BY <1>1, <3>1 DEF StoreInv, BackedUp
    <3>3. r.day \in Nat
      BY <1>1, <3>1
    <3>4. QED
      BY <3>1, <3>2, <3>3 DEF Store!Kept
  <2>3. QED
    BY <2>1, <2>2
<1>6. QED
  BY <1>2, <1>4, <1>5 DEF Store!ReadIsKept

LEMMA SaveBeginsInv ==
  ASSUME StoreInv, NEW text \in Contents, Store!SaveBegins(text)
  PROVE  StoreInv'
<1>1. /\ save = Store!Idle /\ save' = [at |-> "read", data |-> text, old |-> file, day |-> today]
      /\ UNCHANGED <<mounted, file, backups, tmps, running, today, cleaned, replaced, crashes>>
      /\ writes' = writes + 1 /\ writes < MaxSaves
  BY DEF Store!SaveBegins
<1>2. ~ Staged /\ ~ Staged'
  BY <1>1 DEF Staged, Store!Idle
<1>3. save' \in [at : Store!Places, data : Contents, old : Store!Texts, day : 0..LastDay]
  BY <1>1 DEF StoreInv, Store!TypeOK, Store!Places
<1>4. writes' \in 0..MaxSaves
  BY <1>1, StoreFacts DEF StoreInv, Store!TypeOK
<1>5. Store!TypeOK'
  BY <1>1, <1>3, <1>4 DEF StoreInv, Store!TypeOK
<1>6. Store!FileIsWhole' /\ Store!ReadIsKept'
  BY <1>1 DEF StoreInv, Store!FileIsWhole, Store!ReadIsKept, Store!Kept
<1>7. TempsOwned' /\ InPlaceIfMounted' /\ BackedUp'
  BY <1>1, <1>2 DEF StoreInv, TempsOwned, InPlaceIfMounted, BackedUp
<1>8. OnlyWhileRunning'
  BY <1>1 DEF Store!SaveBegins, OnlyWhileRunning
<1>9. QED
  BY <1>5, <1>6, <1>7, <1>8 DEF StoreInv

LEMMA NameBackupInv ==
  ASSUME StoreInv, Store!NameBackup
  PROVE  StoreInv'
<1>1. /\ running /\ save.at = "read"
      /\ UNCHANGED <<mounted, file, tmps, replaced, running, today, cleaned, writes, crashes>>
  BY DEF Store!NameBackup, Store!At, Store!Others
<1>2. save \in [at : Store!Places, data : Contents, old : Store!Texts, day : 0..LastDay]
  BY <1>1, StoreFacts DEF Store!Idle
<1>3. \/ save.old = Empty /\ save' = [save EXCEPT !.at = "backedUp"] /\ backups' = backups
      \/ /\ save' = [save EXCEPT !.at = "named", !.day = today]
         /\ backups' = backups \cup {[day |-> today, text |-> Empty]}
  BY DEF Store!NameBackup, Store!To
<1>4. /\ save' \in [at : Store!Places, data : Contents, old : Store!Texts, day : 0..LastDay]
      /\ save'.at \in {"backedUp", "named"}
      /\ save'.at = "backedUp" => save'.old = Empty
  BY <1>2, <1>3 DEF StoreInv, Store!TypeOK, Store!Places
<1>5. backups \subseteq backups' /\ backups' \subseteq Store!Backup
  <2>1. today \in 0..LastDay /\ Empty \in Store!Texts
    BY StoreFacts DEF StoreInv, Store!TypeOK
  <2>2. QED
    BY <1>3, <2>1 DEF StoreInv, Store!TypeOK, Store!Backup
<1>6. Store!TypeOK'
  BY <1>1, <1>4, <1>5 DEF StoreInv, Store!TypeOK
<1>7. Store!FileIsWhole' /\ Store!ReadIsKept'
  BY <1>1, <1>5 DEF StoreInv, Store!FileIsWhole, Store!ReadIsKept, Store!Kept
<1>8. TempsOwned' /\ OnlyWhileRunning' /\ InPlaceIfMounted' /\ BackedUp'
  BY <1>1, <1>4
     DEF StoreInv, TempsOwned, OnlyWhileRunning, InPlaceIfMounted, BackedUp, Staged
<1>9. QED
  BY <1>6, <1>7, <1>8 DEF StoreInv

(* Giving a text to a backup that was named takes no other backup away     *)
(* that holds a text which loads.                                          *)
LEMMA NamedBackup ==
  ASSUME StoreInv, save.at = "named", NEW text \in Store!Texts,
         backups' = (backups \ {[day |-> save.day, text |-> Empty]})
                      \cup {[day |-> save.day, text |-> text]},
         UNCHANGED <<replaced, today>>
  PROVE  backups' \subseteq Store!Backup /\ Store!ReadIsKept'
<1>1. /\ save \in [at : Store!Places, data : Contents, old : Store!Texts, day : 0..LastDay]
      /\ Empty \notin Contents
  BY StoreFacts DEF Store!Idle
<1>2. backups' \subseteq Store!Backup
  BY <1>1 DEF StoreInv, Store!TypeOK, Store!Backup
<1>3. \A b \in backups : b.text \in Contents => b \in backups'
  BY <1>1
<1>4. \A r \in replaced : r.text \in Contents
  BY DEF StoreInv, Store!TypeOK
<1>5. QED
  BY <1>2, <1>3, <1>4 DEF StoreInv, Store!ReadIsKept, Store!Kept

LEMMA WriteBackupInv ==
  ASSUME StoreInv, Store!WriteBackup
  PROVE  StoreInv'
<1>1. /\ running /\ save.at = "named" /\ save' = [save EXCEPT !.at = "backedUp"]
      /\ backups' = (backups \ {[day |-> save.day, text |-> Empty]})
                      \cup {[day |-> save.day, text |-> save.old]}
      /\ UNCHANGED <<mounted, file, tmps, replaced, running, today, cleaned, writes, crashes>>
  BY DEF Store!WriteBackup, Store!At, Store!To, Store!Others
<1>2. save \in [at : Store!Places, data : Contents, old : Store!Texts, day : 0..LastDay]
  BY <1>1, StoreFacts DEF Store!Idle
<1>3. /\ save' \in [at : Store!Places, data : Contents, old : Store!Texts, day : 0..LastDay]
      /\ save'.at = "backedUp" /\ save'.day = save.day /\ save'.old = save.old
  BY <1>1, <1>2 DEF Store!Places
<1>4. backups' \subseteq Store!Backup /\ Store!ReadIsKept'
  BY <1>1, <1>2, NamedBackup
<1>5. Store!TypeOK'
  BY <1>1, <1>3, <1>4 DEF StoreInv, Store!TypeOK
<1>6. Store!FileIsWhole'
  BY <1>1 DEF StoreInv, Store!FileIsWhole
<1>7. TempsOwned' /\ OnlyWhileRunning' /\ InPlaceIfMounted' /\ BackedUp'
  BY <1>1, <1>3
     DEF StoreInv, TempsOwned, OnlyWhileRunning, InPlaceIfMounted, BackedUp, Staged
<1>8. QED
  BY <1>4, <1>5, <1>6, <1>7 DEF StoreInv

(* CreateTemp, and the writing of the temporary file.                      *)
LEMMA StageInv ==
  ASSUME StoreInv, Store!Stage \/ Store!WriteTemp
  PROVE  StoreInv'
<1>1. /\ \/ save.at = "backedUp" /\ tmps' = tmps + 1 /\ save' = [save EXCEPT !.at = "staged"]
         \/ save.at = "staged" /\ tmps' = tmps /\ save' = [save EXCEPT !.at = "written"]
      /\ running
      /\ UNCHANGED <<mounted, file, backups, replaced, running, today, cleaned, writes, crashes>>
  BY DEF Store!Stage, Store!WriteTemp, Store!At, Store!To, Store!Others
<1>2. save \in [at : Store!Places, data : Contents, old : Store!Texts, day : 0..LastDay]
  BY <1>1, StoreFacts DEF Store!Idle
<1>3. /\ save' \in [at : Store!Places, data : Contents, old : Store!Texts, day : 0..LastDay]
      /\ save'.at \in {"staged", "written"} /\ save'.day = save.day /\ save'.old = save.old
  BY <1>1, <1>2 DEF Store!Places
<1>4. tmps' \in 1..(crashes + 1)
  <2>1. save.at = "backedUp" => tmps <= crashes
    BY StoreFacts DEF StoreInv, TempsOwned, Staged
  <2>2. save.at = "staged" => tmps <= crashes + 1 /\ tmps > 0
    BY StoreFacts DEF StoreInv, TempsOwned, Staged
  <2>3. QED
    BY <1>1, <2>1, <2>2, StoreFacts
<1>5. crashes \in 0..MaxCrashes /\ tmps' \in 0..(MaxCrashes + 1)
  BY <1>4, StoreFacts DEF StoreInv, Store!TypeOK
<1>6. Store!TypeOK'
  BY <1>1, <1>3, <1>5 DEF StoreInv, Store!TypeOK
<1>7. Store!FileIsWhole' /\ Store!ReadIsKept'
  BY <1>1 DEF StoreInv, Store!FileIsWhole, Store!ReadIsKept, Store!Kept
<1>8. TempsOwned' /\ OnlyWhileRunning' /\ InPlaceIfMounted'
  BY <1>1, <1>3, <1>4, <1>5 DEF TempsOwned, OnlyWhileRunning, InPlaceIfMounted, Staged
<1>9. BackedUp'
  BY <1>1, <1>3 DEF StoreInv, BackedUp, Staged
<1>10. QED
  BY <1>6, <1>7, <1>8, <1>9 DEF StoreInv

(* The end of a Save, good or bad, once it has its temporary file.         *)
LEMMA SaveEndsInv ==
  ASSUME StoreInv, Staged, save' = Store!Idle, tmps' = tmps - 1,
         NEW text \in Store!Texts, Store!Put(text), ~ mounted => text \in Contents,
         UNCHANGED <<mounted, backups, running, today, cleaned, writes, crashes>>
  PROVE  StoreInv'
<1>1. /\ file' = text
      /\ replaced' \subseteq [day : 0..LastDay, text : Contents, read : BOOLEAN]
      /\ Store!ReadIsKept'
  BY PutKeeps
<1>2. ~ Staged' /\ save'.at = "idle"
  BY DEF Staged, Store!Idle
<1>3. tmps' \in 0..crashes
  BY StoreFacts DEF StoreInv, TempsOwned
<1>4. crashes \in 0..MaxCrashes /\ tmps' \in 0..(MaxCrashes + 1)
  BY <1>3, StoreFacts DEF StoreInv, Store!TypeOK
<1>5. Store!TypeOK'
  BY <1>1, <1>4 DEF StoreInv, Store!TypeOK
<1>6. Store!FileIsWhole' /\ InPlaceIfMounted' /\ BackedUp' /\ TempsOwned' /\ OnlyWhileRunning'
  BY <1>1, <1>2, <1>3, <1>4
     DEF Store!FileIsWhole, InPlaceIfMounted, BackedUp, TempsOwned, OnlyWhileRunning
<1>7. QED
  BY <1>1, <1>5, <1>6 DEF StoreInv

LEMMA RenameInv ==
  ASSUME StoreInv, Store!Rename
  PROVE  StoreInv'
<1>1. /\ running /\ save.at = "written" /\ Staged
      /\ UNCHANGED <<mounted, backups, running, today, cleaned, writes, crashes>>
  BY DEF Store!Rename, Store!At, Store!Others, Staged
<1>2. save \in [at : Store!Places, data : Contents, old : Store!Texts, day : 0..LastDay]
  BY <1>1, StoreFacts
<1>3. CASE mounted
  <2>1. save' = [save EXCEPT !.at = "busy"] /\ UNCHANGED <<file, tmps, replaced>>
    BY <1>3 DEF Store!Rename, Store!Refused, Store!To
  <2>2. /\ save' \in [at : Store!Places, data : Contents, old : Store!Texts, day : 0..LastDay]
        /\ save'.at = "busy" /\ save'.day = save.day /\ save'.old = save.old
    BY <1>2, <2>1 DEF Store!Places
  <2>3. Store!TypeOK'
    BY <1>1, <2>1, <2>2 DEF StoreInv, Store!TypeOK
  <2>4. Store!FileIsWhole' /\ Store!ReadIsKept'
    BY <1>1, <2>1 DEF StoreInv, Store!FileIsWhole, Store!ReadIsKept, Store!Kept
  <2>5. TempsOwned' /\ OnlyWhileRunning' /\ InPlaceIfMounted' /\ BackedUp'
    BY <1>1, <1>3, <2>1, <2>2
       DEF StoreInv, TempsOwned, OnlyWhileRunning, InPlaceIfMounted, BackedUp, Staged
  <2>6. QED
    BY <2>3, <2>4, <2>5 DEF StoreInv
<1>4. CASE ~ mounted
  <2>1. Store!Put(save.data) /\ tmps' = tmps - 1 /\ save' = Store!Idle
    BY <1>4 DEF Store!Rename, Store!Refused
  <2>2. save.data \in Contents /\ save.data \in Store!Texts
    BY <1>2, StoreFacts
  <2>3. QED
    BY <1>1, <2>1, <2>2, SaveEndsInv
<1>5. QED
  BY <1>3, <1>4

LEMMA TruncateInv ==
  ASSUME StoreInv, Store!Truncate
  PROVE  StoreInv'
<1>1. /\ running /\ save.at = "busy" /\ Staged /\ Store!Put(Empty) /\ save' = [save EXCEPT !.at = "truncated"]
      /\ UNCHANGED <<mounted, backups, tmps, running, today, cleaned, writes, crashes>>
  BY DEF Store!Truncate, Store!At, Store!To, Store!Others, Staged
<1>2. /\ save \in [at : Store!Places, data : Contents, old : Store!Texts, day : 0..LastDay]
      /\ Empty \in Store!Texts
  BY <1>1, StoreFacts
<1>3. /\ file' = Empty
      /\ replaced' \subseteq [day : 0..LastDay, text : Contents, read : BOOLEAN]
      /\ Store!ReadIsKept'
  BY <1>1, <1>2, PutKeeps
<1>4. mounted
  BY <1>1 DEF StoreInv, InPlaceIfMounted
<1>5. /\ save' \in [at : Store!Places, data : Contents, old : Store!Texts, day : 0..LastDay]
      /\ save'.at = "truncated" /\ save'.day = save.day /\ save'.old = save.old
  BY <1>1, <1>2 DEF Store!Places
<1>6. Store!TypeOK'
  BY <1>1, <1>2, <1>3, <1>5 DEF StoreInv, Store!TypeOK
<1>7. /\ Store!FileIsWhole' /\ TempsOwned' /\ OnlyWhileRunning'
      /\ InPlaceIfMounted' /\ BackedUp'
  BY <1>1, <1>4, <1>5
     DEF StoreInv, Store!FileIsWhole, TempsOwned, OnlyWhileRunning, InPlaceIfMounted, BackedUp,
         Staged
<1>8. QED
  BY <1>3, <1>6, <1>7 DEF StoreInv

LEMMA RewriteInv ==
  ASSUME StoreInv, Store!Rewrite
  PROVE  StoreInv'
<1>1. /\ save.at = "truncated" /\ Staged /\ save' = Store!Idle /\ tmps' = tmps - 1
      /\ UNCHANGED <<mounted, backups, running, today, cleaned, writes, crashes>>
  BY DEF Store!Rewrite, Store!At, Store!Others, Store!TempsLeft, Staged
<1>2. PICK text \in {save.data} \cup (IF file = Empty THEN {} ELSE {Part}) : Store!Put(text)
  BY DEF Store!Rewrite
<1>3. text \in Store!Texts /\ mounted
  <2>1. save \in [at : Store!Places, data : Contents, old : Store!Texts, day : 0..LastDay]
    BY <1>1, StoreFacts
  <2>2. QED
    BY <1>1, <1>2, <2>1, StoreFacts DEF StoreInv, InPlaceIfMounted
<1>4. QED
  BY <1>1, <1>2, <1>3, SaveEndsInv

LEMMA SaveFailsInv ==
  ASSUME StoreInv, Store!SaveFails
  PROVE  StoreInv'
<1>1. /\ save # Store!Idle /\ save' = Store!Idle
      /\ UNCHANGED <<mounted, running, today, cleaned, writes, crashes>>
  BY DEF Store!SaveFails, Store!Others
<1>2. /\ save \in [at : Store!Places, data : Contents, old : Store!Texts, day : 0..LastDay]
      /\ Empty \in Store!Texts /\ Part \in Store!Texts
  BY <1>1, StoreFacts
<1>3. CASE save.at = "truncated"
  <2>1. Staged /\ mounted
    BY <1>3 DEF Staged, StoreInv, InPlaceIfMounted
  <2>2. PICK text \in {Empty, Part} : Store!Put(text)
    BY <1>3 DEF Store!SaveFails
  <2>3. backups' = backups /\ tmps' = tmps - 1
    BY <1>3 DEF Store!SaveFails, Store!TempsLeft
  <2>4. QED
    BY <1>1, <1>2, <2>1, <2>2, <2>3, SaveEndsInv
<1>4. CASE save.at # "truncated"
  <2>1. UNCHANGED <<file, replaced>> /\ (save.at # "named" => backups' = backups)
    BY <1>4 DEF Store!SaveFails
  <2>2. backups' \subseteq Store!Backup /\ Store!ReadIsKept'
    <3>1. CASE save.at = "named"
      <4>1. PICK text \in {Empty, Part} :
              backups' = (backups \ {[day |-> save.day, text |-> Empty]})
                           \cup {[day |-> save.day, text |-> text]}
        BY <3>1 DEF Store!SaveFails
      <4>2. QED
        BY <1>1, <1>2, <2>1, <3>1, <4>1, NamedBackup
    <3>2. CASE save.at # "named"
      BY <1>1, <2>1, <3>2
         DEF StoreInv, Store!TypeOK, Store!ReadIsKept, Store!Kept
    <3>3. QED
      BY <3>1, <3>2
  <2>3. ~ Staged' /\ save'.at = "idle"
    BY <1>1 DEF Staged, Store!Idle
  <2>4. tmps' \in 0..crashes
    <3>1. tmps' = IF Staged THEN tmps - 1 ELSE tmps
      BY DEF Store!SaveFails, Store!TempsLeft, Staged
    <3>2. QED
      BY <3>1, StoreFacts DEF StoreInv, TempsOwned
  <2>5. crashes \in 0..MaxCrashes /\ tmps' \in 0..(MaxCrashes + 1)
    BY <2>4, StoreFacts DEF StoreInv, Store!TypeOK
  <2>6. Store!TypeOK'
    BY <1>1, <2>1, <2>2, <2>5 DEF StoreInv, Store!TypeOK
  <2>7. Store!FileIsWhole' /\ InPlaceIfMounted' /\ BackedUp' /\ TempsOwned' /\ OnlyWhileRunning'
    BY <1>1, <2>1, <2>3, <2>4, <2>5
       DEF StoreInv, Store!FileIsWhole, InPlaceIfMounted, BackedUp, TempsOwned, OnlyWhileRunning
  <2>8. QED
    BY <2>2, <2>6, <2>7 DEF StoreInv
<1>5. QED
  BY <1>3, <1>4

(* What has not expired is not removed, and what was replaced outlives     *)
(* what was written before it.                                             *)
LEMMA CleanKeeps ==
  ASSUME StoreInv, backups' = Store!Clean(backups), UNCHANGED <<replaced, today>>
  PROVE  backups' \subseteq Store!Backup /\ Store!ReadIsKept'
<1>1. backups' \subseteq backups /\ backups \subseteq Store!Backup
  BY DEF Store!Clean, StoreInv, Store!TypeOK
<1>2. \A b \in backups : ~ Store!Expired(b.day) => b \in backups'
  BY DEF Store!Clean
<1>3. \A r \in replaced : r.day \in Nat
  BY DEF StoreInv, Store!TypeOK
<1>4. \A b \in backups : b.day \in Nat
  BY <1>1 DEF Store!Backup
<1>5. ASSUME NEW r \in replaced, Store!Kept(r) PROVE Store!Kept(r)'
  BY <1>2, <1>3, <1>4, <1>5, StoreFacts DEF Store!Kept, Store!Expired
<1>6. QED
  BY <1>1, <1>5 DEF StoreInv, Store!ReadIsKept

(* Nothing is written while no Save is under way, except by hand.          *)
LEMMA IdleInv ==
  ASSUME StoreInv, save' = Store!Idle, tmps' \in 0..crashes', crashes' \in 0..MaxCrashes,
         ~ mounted' => file' \in Contents, Store!ReadIsKept', Store!TypeOK'
  PROVE  StoreInv'
<1>1. ~ Staged' /\ save'.at = "idle"
  BY DEF Staged, Store!Idle
<1>2. TempsOwned' /\ OnlyWhileRunning' /\ InPlaceIfMounted' /\ BackedUp'
  BY <1>1, StoreFacts DEF TempsOwned, OnlyWhileRunning, InPlaceIfMounted, BackedUp
<1>3. QED
  BY <1>2 DEF StoreInv, Store!FileIsWhole

LEMMA CleanupInv ==
  ASSUME StoreInv, Store!CleanupBackups \/ Store!Start
  PROVE  StoreInv'
<1>1. /\ backups' = Store!Clean(backups) /\ cleaned' = today /\ running' \in BOOLEAN
      /\ save = Store!Idle
      /\ UNCHANGED <<mounted, file, tmps, save, today, replaced, writes, crashes>>
  BY DEF Store!CleanupBackups, Store!Start, StoreInv, Store!TypeOK, OnlyWhileRunning
<1>2. backups' \subseteq Store!Backup /\ Store!ReadIsKept'
  BY <1>1, CleanKeeps
<1>3. Store!TypeOK'
  BY <1>1, <1>2 DEF StoreInv, Store!TypeOK
<1>4. tmps \in 0..crashes /\ crashes \in 0..MaxCrashes
  BY <1>1, StoreFacts DEF StoreInv, Store!TypeOK, TempsOwned
<1>5. QED
  BY <1>1, <1>2, <1>3, <1>4, IdleInv DEF StoreInv, Store!FileIsWhole

(* A new day ends the retention of some, and nothing else.                 *)
LEMMA NextDayInv ==
  ASSUME StoreInv, Store!NextDay
  PROVE  StoreInv'
<1>1. /\ today' = today + 1 /\ today < LastDay
      /\ UNCHANGED <<mounted, file, backups, tmps, save, running, cleaned, replaced, writes, crashes>>
  BY DEF Store!NextDay
<1>2. Store!TypeOK'
  BY <1>1, StoreFacts DEF StoreInv, Store!TypeOK
<1>3. Store!ReadIsKept'
  <2>1. \A r \in replaced : r.day \in Nat
    BY DEF StoreInv, Store!TypeOK
  <2>2. ASSUME NEW r \in replaced, Store!Kept(r) PROVE Store!Kept(r)'
    BY <1>1, <2>1, <2>2, StoreFacts DEF Store!Kept
  <2>3. QED
    BY <1>1, <2>2 DEF StoreInv, Store!ReadIsKept
<1>4. QED
  BY <1>1, <1>2, <1>3
     DEF StoreInv, Store!FileIsWhole, TempsOwned, OnlyWhileRunning, InPlaceIfMounted, BackedUp,
         Staged

LEMMA EditInv ==
  ASSUME StoreInv, NEW text \in Contents, Store!Edit(text)
  PROVE  StoreInv'
<1>1. /\ file' = text /\ writes < MaxSaves /\ writes' = writes + 1
      /\ UNCHANGED <<mounted, backups, tmps, save, running, today, cleaned, replaced, crashes>>
  BY DEF Store!Edit
<1>2. writes' \in 0..MaxSaves
  BY <1>1, StoreFacts DEF StoreInv, Store!TypeOK
<1>3. Store!TypeOK'
  BY <1>1, <1>2, StoreFacts DEF StoreInv, Store!TypeOK
<1>4. QED
  BY <1>1, <1>3
     DEF StoreInv, Store!FileIsWhole, Store!ReadIsKept, Store!Kept, TempsOwned,
         OnlyWhileRunning, InPlaceIfMounted, BackedUp, Staged

LEMMA CrashInv ==
  ASSUME StoreInv, Store!Crash
  PROVE  StoreInv'
<1>1. /\ crashes < MaxCrashes /\ crashes' = crashes + 1 /\ running' = FALSE /\ save' = Store!Idle
      /\ UNCHANGED <<mounted, file, backups, tmps, today, cleaned, replaced, writes>>
  BY DEF Store!Crash
<1>2. tmps' \in 0..crashes' /\ crashes' \in 0..MaxCrashes
  BY <1>1, StoreFacts DEF StoreInv, Store!TypeOK, TempsOwned
<1>3. Store!TypeOK'
  BY <1>1, <1>2 DEF StoreInv, Store!TypeOK
<1>4. Store!ReadIsKept'
  BY <1>1 DEF StoreInv, Store!ReadIsKept, Store!Kept
<1>5. QED
  BY <1>1, <1>2, <1>3, <1>4, IdleInv DEF StoreInv, Store!FileIsWhole

LEMMA StoreNext ==
  ASSUME StoreInv, Store!Next
  PROVE  StoreInv'
<1>1. ASSUME NEW text \in Contents, Store!SaveBegins(text) PROVE StoreInv'
  BY <1>1, SaveBeginsInv
<1>2. ASSUME NEW text \in Contents, Store!Edit(text) PROVE StoreInv'
  BY <1>2, EditInv
<1>3. ASSUME NEW backup \in backups, Store!Restore(backup) PROVE StoreInv'
  BY <1>1, <1>3 DEF Store!Restore
<1>4. CASE Store!SaveStep
  BY <1>4, NameBackupInv, WriteBackupInv, StageInv, RenameInv, TruncateInv, RewriteInv
     DEF Store!SaveStep
<1>5. CASE Store!SaveFails
  BY <1>5, SaveFailsInv
<1>6. CASE Store!CleanupBackups \/ Store!Start
  BY <1>6, CleanupInv
<1>7. CASE Store!NextDay
  BY <1>7, NextDayInv
<1>8. CASE Store!Crash
  BY <1>8, CrashInv
<1>9. QED
  BY <1>1, <1>2, <1>3, <1>4, <1>5, <1>6, <1>7, <1>8 DEF Store!Next

LEMMA StoreStays ==
  ASSUME StoreInv, UNCHANGED StoreVars
  PROVE  StoreInv'
BY DEF StoreVars, StoreInv, Store!TypeOK, Store!FileIsWhole, Store!ReadIsKept, Store!Kept,
       TempsOwned, OnlyWhileRunning, InPlaceIfMounted, BackedUp, Staged

-----------------------------------------------------------------------------
(* The size of a file.                                                     *)

Sums(f, b) == /\ b \in [0..Len(f) -> Nat] /\ b[0] = 0
              /\ \A i \in 1..Len(f) : b[i] = b[i - 1] + f[i].bytes

LEMMA SizeSums ==
  ASSUME NEW f \in Seq(Log!Chunk)
  PROVE  \E b : Sums(f, b) /\ Log!Size(f) = b[Len(f)]
<1> DEFINE Body(h) == [i \in 0..Len(f) |-> IF i = 0 THEN 0 ELSE h[i - 1] + f[i].bytes]
           bytes == CHOOSE h : h = Body(h)
           g == [i \in Nat |-> [n \in Nat |-> IF i \in 1..Len(f) THEN n + f[i].bytes ELSE n]]
<1>1. Len(f) \in Nat /\ \A i \in 1..Len(f) : f[i].bytes \in Nat
  <2>1. \A i \in 1..Len(f) : f[i] \in Log!Chunk
    OBVIOUS
  <2>2. QED
    BY <2>1 DEF Log!Chunk
<1>2. g \in [Nat -> [Nat -> Nat]]
  BY <1>1
<1>3. PICK b : Iteration(b, Nat, 0, g, Len(f))
  <2> HIDE DEF g
  <2>1. QED
    BY <1>1, <1>2, IterationExists
<1>4. Sums(f, b) /\ \A i \in 0..Len(f) : i # 0 => i \in 1..Len(f)
  <2>1. /\ b \in [0..Len(f) -> Nat]
        /\ \A i \in 0..Len(f) : b[i] = IF i = 0 THEN 0 ELSE g[i][b[i - 1]]
    <3> HIDE DEF g
    <3>1. QED
      BY <1>3 DEF Iteration
  <2>2. ASSUME NEW i \in 1..Len(f) PROVE b[i] = b[i - 1] + f[i].bytes
    <3>1. i \in 0..Len(f) /\ i # 0 /\ i - 1 \in 0..Len(f) /\ i \in Nat
      BY <1>1
    <3>2. b[i - 1] \in Nat
      BY <2>1, <3>1
    <3>3. g[i][b[i - 1]] = b[i - 1] + f[i].bytes
      BY <1>1, <3>1, <3>2
    <3> HIDE DEF g
    <3>4. QED
      BY <2>1, <3>1, <3>3
  <2> HIDE DEF g
  <2>3. QED
    BY <1>1, <2>1, <2>2 DEF Sums
<1> HIDE DEF g
<1>5. b = Body(b)
  <2>1. \A i \in 0..Len(f) : b[i] = Body(b)[i]
    BY <1>1, <1>4 DEF Sums
  <2>2. b = [i \in 0..Len(f) |-> b[i]] /\ Body(b) = [i \in 0..Len(f) |-> Body(b)[i]]
    BY <1>4 DEF Sums
  <2> HIDE DEF Body
  <2>3. QED
    BY <2>1, <2>2
<1>6. bytes = Body(bytes)
  <2> HIDE DEF Body
  <2>1. QED
    BY <1>5
<1>7. Log!Size(f) = IF f = NoFile THEN 0 ELSE bytes[Len(f)]
  BY Zenon DEF Log!Size
<1>8. f # NoFile
  BY FilesAssumption DEF Log!AuditAssumption
<1>9. Sums(f, bytes)
  <2> HIDE DEF bytes
  <2>1. /\ DOMAIN bytes = 0..Len(f) /\ bytes[0] = 0
        /\ bytes = [i \in 0..Len(f) |-> bytes[i]]
    BY <1>1, <1>6
  <2>2. ASSUME NEW i \in 1..Len(f) PROVE bytes[i] = bytes[i - 1] + f[i].bytes
    BY <1>1, <1>6
  <2> DEFINE S == {k \in Nat : k \in 0..Len(f) => bytes[k] \in Nat}
  <2>3. 0 \in S
    BY <2>1
  <2>4. ASSUME NEW k \in S PROVE k + 1 \in S
    <3>1. k \in Nat /\ k + 1 \in Nat /\ (k + 1) - 1 = k
      OBVIOUS
    <3>2. ASSUME k + 1 \in 0..Len(f) PROVE bytes[k + 1] \in Nat
      <4>1. bytes[k] \in Nat /\ k + 1 \in 1..Len(f)
        BY <1>1, <3>1, <3>2
      <4>2. bytes[k + 1] = bytes[k] + f[k + 1].bytes /\ f[k + 1].bytes \in Nat
        BY <1>1, <2>2, <3>1, <4>1
      <4>3. QED
        BY <4>1, <4>2
    <3>3. QED
      BY <3>1, <3>2
  <2>5. S \in SUBSET Nat
    OBVIOUS
  <2> HIDE DEF S
  <2>6. S = Nat
    BY <2>3, <2>4, <2>5, SetInduction
  <2>7. \A i \in 0..Len(f) : bytes[i] \in Nat
    BY <1>1, <2>6 DEF S
  <2>8. bytes \in [0..Len(f) -> Nat]
    BY <2>1, <2>7
  <2>9. QED
    BY <2>1, <2>2, <2>8 DEF Sums
<1> HIDE DEF bytes
<1>10. QED
  BY <1>7, <1>8, <1>9

(* A file is as large as its chunks together.                              *)
LEMMA SizeAppend ==
  ASSUME NEW f \in Seq(Log!Chunk), NEW c \in Log!Chunk
  PROVE  Log!Size(f) \in Nat /\ Log!Size(Append(f, c)) = Log!Size(f) + c.bytes
<1> DEFINE longer == Append(f, c)
<1>1. /\ longer \in Seq(Log!Chunk) /\ Len(longer) = Len(f) + 1 /\ Len(f) \in Nat
      /\ longer[Len(f) + 1] = c /\ \A i \in 1..Len(f) : longer[i] = f[i]
  OBVIOUS
<1> HIDE DEF longer
<1>2. PICK b : Sums(f, b) /\ Log!Size(f) = b[Len(f)]
  BY SizeSums
<1>3. PICK h : Sums(longer, h) /\ Log!Size(longer) = h[Len(longer)]
  BY <1>1, SizeSums
<1> DEFINE S == {k \in Nat : k \in 0..Len(f) => h[k] = b[k]}
<1>4. 0 \in S
  BY <1>2, <1>3 DEF Sums
<1>5. ASSUME NEW k \in S PROVE k + 1 \in S
  <2>1. k \in Nat /\ k + 1 \in Nat /\ (k + 1) - 1 = k
    OBVIOUS
  <2>2. ASSUME k + 1 \in 0..Len(f) PROVE h[k + 1] = b[k + 1]
    <3>1. k + 1 \in 1..Len(f) /\ k + 1 \in 1..Len(longer) /\ h[k] = b[k]
      BY <1>1, <2>1, <2>2
    <3>2. h[k + 1] = h[k] + longer[k + 1].bytes
      BY <1>3, <2>1, <3>1 DEF Sums
    <3>3. b[k + 1] = b[k] + f[k + 1].bytes
      BY <1>2, <2>1, <3>1 DEF Sums
    <3>4. QED
      BY <1>1, <3>1, <3>2, <3>3
  <2>3. QED
    BY <2>1, <2>2
<1>6. S \in SUBSET Nat
  OBVIOUS
<1> HIDE DEF S
<1>7. Len(f) \in S
  BY <1>1, <1>4, <1>5, <1>6, SetInduction
<1>8. h[Len(f)] = b[Len(f)]
  BY <1>1, <1>7 DEF S
<1>9. h[Len(longer)] = h[Len(f)] + c.bytes
  <2>1. Len(longer) \in 1..Len(longer) /\ Len(longer) - 1 = Len(f)
    BY <1>1
  <2>2. h[Len(longer)] = h[Len(longer) - 1] + longer[Len(longer)].bytes
    BY <1>3, <2>1 DEF Sums
  <2>3. QED
    BY <1>1, <2>1, <2>2
<1>10. b[Len(f)] \in Nat
  BY <1>1, <1>2 DEF Sums
<1>11. QED
  BY <1>2, <1>3, <1>8, <1>9, <1>10 DEF longer

LEMMA SizeEmpty == Log!Size(<<>>) = 0 /\ Log!Size(NoFile) = 0
<1>1. <<>> \in Seq(Log!Chunk) /\ Len(<<>>) = 0
  OBVIOUS
<1>2. PICK b : Sums(<<>>, b) /\ Log!Size(<<>>) = b[Len(<<>>)]
  BY <1>1, SizeSums
<1>3. Log!Size(NoFile) = 0
  BY Zenon DEF Log!Size
<1>4. QED
  BY <1>1, <1>2, <1>3 DEF Sums

-----------------------------------------------------------------------------
(* The audit log: what its operators return.                               *)

LEMMA LogFacts ==
  ASSUME LogInv
  PROVE  /\ MaxFileSize \in Nat \ {0} /\ HoursPerDay \in Nat \ {0}
         /\ AuditRetentionDays \in Nat \ {0} /\ LastHour \in Nat
         /\ LastEntry \in Nat /\ MaxFiles \in Nat /\ MaxFaults \in Nat /\ MaxRestarts \in Nat
         /\ Sizes \subseteq Nat \ {0} /\ NoFile \notin Seq(Log!Chunk)
         /\ now \in Nat /\ count \in Nat /\ faults \in Nat /\ restarts \in Nat
         /\ Log!Today \in Log!Days /\ Log!Days \subseteq Nat /\ Log!Indexes \subseteq Nat
         /\ writer.size \in Nat /\ writer.index \in Nat /\ writer.broken \in BOOLEAN
<1>1. /\ MaxFileSize \in Nat \ {0} /\ HoursPerDay \in Nat \ {0}
      /\ AuditRetentionDays \in Nat \ {0} /\ LastHour \in Nat
      /\ LastEntry \in Nat /\ MaxFiles \in Nat /\ MaxFaults \in Nat /\ MaxRestarts \in Nat
      /\ Sizes \subseteq Nat \ {0} /\ NoFile \notin Seq(Log!Chunk)
  BY FilesAssumption DEF Log!AuditAssumption
<1>2. now \in 0..LastHour /\ count \in Nat /\ faults \in Nat /\ restarts \in Nat
  BY <1>1 DEF LogInv, Log!TypeOK, Log!Hours
<1>3. Log!Today \in Log!Days
  <2>1. now \div HoursPerDay \in Nat /\ LastHour \div HoursPerDay \in Nat
    BY <1>1, <1>2
  <2>2. now \div HoursPerDay <= LastHour \div HoursPerDay
    BY <1>1, <1>2
  <2>3. QED
    BY <2>1, <2>2 DEF Log!Today, Log!Days, Log!Day
<1>4. writer.size \in Nat /\ writer.index \in Nat /\ writer.broken \in BOOLEAN
  <2>1. writer \in [open : BOOLEAN, date : Log!Days \cup {Log!NoDay}, index : 0..MaxFiles,
                    size : Nat, broken : BOOLEAN]
    BY DEF LogInv, Log!TypeOK
  <2>2. QED
    BY <1>1, <2>1
<1>5. Log!Days \subseteq Nat /\ Log!Indexes \subseteq Nat
  BY DEF Log!Days, Log!Indexes
<1>6. QED
  BY <1>1, <1>2, <1>3, <1>4, <1>5

LEMMA FileFacts ==
  ASSUME LogInv, NEW d \in Log!Days, NEW i \in Log!Indexes
  PROVE  /\ files[d][i] \in Seq(Log!Chunk) \cup {NoFile}
         /\ Log!Opened(files[d][i]) \in Seq(Log!Chunk)
         /\ Log!Size(Log!Opened(files[d][i])) = Log!Size(files[d][i])
         /\ Log!Lines(Log!Opened(files[d][i])) = Log!Lines(files[d][i])
<1>1. files[d][i] \in Seq(Log!Chunk) \cup {NoFile}
  BY DEF LogInv, Log!TypeOK
<1>2. CASE files[d][i] = NoFile
  <2>1. Log!Opened(files[d][i]) = <<>> /\ <<>> \in Seq(Log!Chunk) /\ Len(<<>>) = 0
    BY <1>2 DEF Log!Opened
  <2>2. Log!Lines(<<>>) = {} /\ Log!Lines(NoFile) = {}
    BY <2>1 DEF Log!Lines
  <2>3. QED
    BY <1>1, <1>2, <2>1, <2>2, SizeEmpty
<1>3. CASE files[d][i] # NoFile
  BY <1>1, <1>3 DEF Log!Opened
<1>4. QED
  BY <1>2, <1>3

(* The index a Write stops at, if it finds one.                            *)
LEMMA PickFacts ==
  ASSUME LogInv, NEW size \in Sizes, Log!Candidates(size) # {}
  PROVE  Log!Pick(size) \in Log!Indexes /\ Log!Room(files[Log!Today][Log!Pick(size)], size)
<1>1. Log!Candidates(size) \in SUBSET Nat
  BY DEF Log!Candidates, Log!Indexes
<1>2. \E i \in Log!Candidates(size) : \A j \in Log!Candidates(size) : i <= j
  BY <1>1, LeastNatural
<1>3. Log!Pick(size) \in Log!Candidates(size)
  BY <1>2 DEF Log!Pick
<1>4. QED
  BY <1>3 DEF Log!Candidates

(* One more chunk takes no line away, and makes one of its own if it is    *)
(* whole and does not continue a fragment.                                 *)
LEMMA LinesAppend ==
  ASSUME NEW f \in Seq(Log!Chunk), NEW c \in Log!Chunk
  PROVE  /\ Log!Lines(f) \subseteq Log!Lines(Append(f, c))
         /\ Log!Whole(c) /\ ~ Fragment(f) => c.entry \in Log!Lines(Append(f, c))
<1> DEFINE longer == Append(f, c)
<1>1. /\ longer \in Seq(Log!Chunk) /\ Len(longer) = Len(f) + 1 /\ Len(f) \in Nat
      /\ longer[Len(f) + 1] = c /\ \A i \in 1..Len(f) : longer[i] = f[i]
  OBVIOUS
<1>2. f # NoFile /\ longer # NoFile
  BY <1>1, FilesAssumption DEF Log!AuditAssumption
<1> HIDE DEF longer
<1>3. \A i \in 1..Len(longer) :
        Log!Whole(longer[i]) /\ (i > 1 => Log!Whole(longer[i - 1]))
          => longer[i].entry \in Log!Lines(longer)
  BY <1>2 DEF Log!Lines
<1>4. ASSUME NEW e \in Log!Lines(f) PROVE e \in Log!Lines(longer)
  <2>1. PICK i \in 1..Len(f) : /\ Log!Whole(f[i]) /\ (i > 1 => Log!Whole(f[i - 1]))
                               /\ e = f[i].entry
    BY <1>2 DEF Log!Lines
  <2>2. /\ i \in 1..Len(longer) /\ longer[i] = f[i]
        /\ i > 1 => i - 1 \in 1..Len(f) /\ longer[i - 1] = f[i - 1]
    BY <1>1
  <2>3. QED
    BY <1>3, <2>1, <2>2
<1>5. ASSUME Log!Whole(c), ~ Fragment(f) PROVE c.entry \in Log!Lines(longer)
  <2>1. Len(f) + 1 \in 1..Len(longer) /\ (Len(f) + 1) - 1 = Len(f)
    BY <1>1
  <2>2. Len(f) + 1 > 1 => Len(f) \in 1..Len(f) /\ f # <<>>
    BY <1>1
  <2>3. Len(f) + 1 > 1 => Log!Whole(longer[Len(f)])
    BY <1>1, <1>2, <1>5, <2>2 DEF Fragment
  <2>4. QED
    BY <1>1, <1>3, <1>5, <2>1, <2>3
<1>6. QED
  BY <1>4, <1>5 DEF longer

-----------------------------------------------------------------------------
(* A write call: to the open file or to the one a Write stops at, n bytes  *)
(* are appended to a file of today that has room for all of the entry.     *)

ChunkOf(size, n) == [entry |-> Log!NewEntry(size), bytes |-> n]
Held(i) == Log!Opened(files[Log!Today][i])
Longer(i, size, n) == IF n = 0 THEN Held(i) ELSE Append(Held(i), ChunkOf(size, n))

Appended(i, size, n) ==
  /\ files' = [files EXCEPT ![Log!Today][i] = Longer(i, size, n)]
  /\ writer' \in [open : {TRUE}, date : {Log!Today}, index : {i}, size : Nat, broken : BOOLEAN]
  /\ writer'.broken <=> n < size
  /\ writer'.size >= Log!Size(Held(i)) + size
  /\ Log!Size(Held(i)) + size <= MaxFileSize \/ Held(i) = <<>>

LEMMA AppendToAppends ==
  ASSUME LogInv, NEW size \in Sizes, NEW n \in 0..size, Log!AppendTo(size, n),
         Log!Fits(size) \/ Log!Candidates(size) # {}
  PROVE  \E i \in Log!Indexes : Appended(i, size, n)
<1>1. Log!Today \in Log!Days /\ size \in Nat /\ writer.size \in Nat
  BY LogFacts
<1>2. CASE Log!Fits(size)
  <2> DEFINE i == writer.index
  <2>1. /\ writer.open /\ writer.date = Log!Today /\ writer.size + size <= MaxFileSize
        /\ i \in Log!Indexes /\ files[Log!Today][i] # NoFile
        /\ Log!Size(files[Log!Today][i]) <= writer.size
    BY <1>2 DEF Log!Fits, LogInv, OpenFile
  <2>2. /\ Held(i) = files[Log!Today][i] /\ Held(i) \in Seq(Log!Chunk)
        /\ Log!Size(Held(i)) \in Nat
    <3>1. Held(i) = files[Log!Today][i] /\ Held(i) \in Seq(Log!Chunk)
      BY <1>1, <2>1, FileFacts DEF Held, Log!Opened
    <3>2. PICK b : Sums(Held(i), b) /\ Log!Size(Held(i)) = b[Len(Held(i))]
      BY <3>1, SizeSums
    <3>3. QED
      BY <3>1, <3>2 DEF Sums
  <2>3. /\ files' = [files EXCEPT ![Log!Today][i] = Longer(i, size, n)]
        /\ writer' = [open |-> TRUE, date |-> Log!Today, index |-> i, broken |-> n < size,
                      size |-> size + writer.size]
    BY <1>2, <2>1, <2>2 DEF Log!AppendTo, Longer, ChunkOf
  <2>4. size + writer.size \in Nat /\ size + writer.size >= Log!Size(Held(i)) + size
    BY <1>1, <2>1, <2>2
  <2>5. /\ writer' \in [open : {TRUE}, date : {Log!Today}, index : {i}, size : Nat, broken : BOOLEAN]
        /\ writer'.size = size + writer.size
    BY <1>1, <2>3, <2>4
  <2>6. writer'.broken <=> n < size
    BY <2>3, Zenon
  <2>7. Log!Size(Held(i)) + size <= MaxFileSize
    <3>1. MaxFileSize \in Nat /\ Log!Size(Held(i)) <= writer.size
      BY <2>1, <2>2, LogFacts
    <3>2. QED
      BY <1>1, <2>1, <2>2, <3>1
  <2>8. Appended(i, size, n)
    BY <2>3, <2>4, <2>5, <2>6, <2>7 DEF Appended
  <2>9. QED
    BY <2>1, <2>8
<1>3. CASE ~ Log!Fits(size)
  <2> DEFINE i == Log!Pick(size)
  <2>1. i \in Log!Indexes /\ Log!Room(files[Log!Today][i], size)
    BY <1>3, PickFacts
  <2>2. /\ Held(i) \in Seq(Log!Chunk) /\ Log!Size(Held(i)) = Log!Size(files[Log!Today][i])
        /\ Log!Size(Held(i)) \in Nat
    <3>1. /\ Held(i) \in Seq(Log!Chunk) /\ Log!Size(Held(i)) = Log!Size(files[Log!Today][i])
      BY <1>1, <2>1, FileFacts DEF Held
    <3>2. PICK b : Sums(Held(i), b) /\ Log!Size(Held(i)) = b[Len(Held(i))]
      BY <3>1, SizeSums
    <3>3. QED
      BY <3>1, <3>2 DEF Sums
  <2>3. /\ files' = [files EXCEPT ![Log!Today][i] = Longer(i, size, n)]
        /\ writer' = [open |-> TRUE, date |-> Log!Today, index |-> i, broken |-> n < size,
                      size |-> size + Log!Size(Held(i))]
    BY <1>3 DEF Log!AppendTo, Longer, ChunkOf, Held
  <2>4. size + Log!Size(Held(i)) \in Nat /\ size + Log!Size(Held(i)) >= Log!Size(Held(i)) + size
    BY <1>1, <2>2
  <2> HIDE DEF i
  <2>5. /\ writer' \in [open : {TRUE}, date : {Log!Today}, index : {i}, size : Nat, broken : BOOLEAN]
        /\ writer'.size = size + Log!Size(Held(i))
    BY <1>1, <2>3, <2>4
  <2>6. writer'.broken <=> n < size
    BY <2>3, Zenon
  <2>7. Log!Size(Held(i)) + size <= MaxFileSize \/ Held(i) = <<>>
    BY <2>1, <2>2 DEF Log!Room, Held, Log!Opened
  <2>8. Appended(i, size, n)
    BY <2>3, <2>4, <2>5, <2>6, <2>7 DEF Appended
  <2>9. QED
    BY <2>1, <2>8
<1>4. QED
  BY <1>2, <1>3

LEMMA LongerFacts ==
  ASSUME LogInv, count < LastEntry, NEW size \in Sizes, NEW n \in 0..size,
         NEW i \in Log!Indexes
  PROVE  /\ Held(i) \in Seq(Log!Chunk) /\ Log!Size(Held(i)) \in Nat
         /\ ChunkOf(size, n) \in Log!Chunk
         /\ Longer(i, size, n) \in Seq(Log!Chunk) /\ Longer(i, size, n) # NoFile
         /\ Log!Size(Longer(i, size, n)) = Log!Size(Held(i)) + n
         /\ Len(Longer(i, size, n)) >= Len(Held(i))
         /\ Held(i) = <<>> => Len(Longer(i, size, n)) <= 1
         /\ Log!Lines(files[Log!Today][i]) \subseteq Log!Lines(Longer(i, size, n))
<1>1. Held(i) \in Seq(Log!Chunk) /\ Log!Lines(Held(i)) = Log!Lines(files[Log!Today][i])
  BY LogFacts, FileFacts DEF Held
<1>2. ChunkOf(size, n) \in Log!Chunk /\ ChunkOf(size, n).bytes = n
  <2>1. count + 1 \in 1..LastEntry /\ now \in Log!Hours /\ size \in Nat
    BY LogFacts DEF LogInv, Log!TypeOK
  <2>2. Log!NewEntry(size) \in Log!Entry
    BY <2>1 DEF Log!NewEntry, Log!Entry
  <2>3. n \in Nat
    BY <2>1
  <2>4. QED
    BY <2>2, <2>3 DEF ChunkOf, Log!Chunk
<1>3. Log!Size(Held(i)) \in Nat
  BY <1>1, <1>2, SizeAppend
<1>4. CASE n = 0
  <2>1. Longer(i, size, n) = Held(i)
    BY <1>4 DEF Longer
  <2>2. /\ Held(i) = <<>> => Len(Held(i)) <= 1
        /\ Len(Held(i)) >= Len(Held(i)) /\ Log!Size(Held(i)) = Log!Size(Held(i)) + n
        /\ Held(i) # NoFile
    <3>1. Len(Held(i)) \in Nat /\ (Held(i) = <<>> => Len(Held(i)) = 0)
      BY <1>1
    <3>2. Held(i) # NoFile
      BY <1>1, LogFacts
    <3>3. Log!Size(Held(i)) = Log!Size(Held(i)) + n
      BY <1>3, <1>4
    <3>4. QED
      BY <3>1, <3>2, <3>3
  <2>3. QED
    BY <1>1, <1>2, <1>3, <2>1, <2>2
<1>5. CASE n # 0
  <2>1. Longer(i, size, n) = Append(Held(i), ChunkOf(size, n))
    BY <1>5 DEF Longer
  <2>2. /\ Longer(i, size, n) \in Seq(Log!Chunk)
        /\ Len(Longer(i, size, n)) = Len(Held(i)) + 1 /\ Len(Held(i)) \in Nat
        /\ Held(i) = <<>> => Len(Held(i)) = 0
        /\ Longer(i, size, n) # NoFile
    <3>1. /\ Longer(i, size, n) \in Seq(Log!Chunk)
          /\ Len(Longer(i, size, n)) = Len(Held(i)) + 1 /\ Len(Held(i)) \in Nat
          /\ Held(i) = <<>> => Len(Held(i)) = 0
      BY <1>1, <1>2, <2>1
    <3>2. QED
      BY <3>1, LogFacts
  <2>3. Log!Size(Longer(i, size, n)) = Log!Size(Held(i)) + n
    BY <1>1, <1>2, <2>1, SizeAppend
  <2>4. Log!Lines(Held(i)) \subseteq Log!Lines(Longer(i, size, n))
    BY <1>1, <1>2, <2>1, LinesAppend
  <2>5. /\ Len(Longer(i, size, n)) >= Len(Held(i))
        /\ Held(i) = <<>> => Len(Longer(i, size, n)) <= 1
    BY <2>2
  <2>6. QED
    BY <1>1, <1>2, <1>3, <2>2, <2>3, <2>4, <2>5
<1>6. QED
  BY <1>4, <1>5

(* What every write call preserves, good or bad.                           *)
LEMMA AppendedInv ==
  ASSUME LogInv, count < LastEntry, NEW size \in Sizes, NEW n \in 0..size,
         NEW i \in Log!Indexes, Appended(i, size, n)
  PROVE  /\ files' \in [Log!Days -> [Log!Indexes -> Seq(Log!Chunk) \cup {NoFile}]]
         /\ writer' \in [open : BOOLEAN, date : Log!Days \cup {Log!NoDay}, index : 0..MaxFiles,
                         size : Nat, broken : BOOLEAN]
         /\ OpenFile' /\ ChunksByDay' /\ Log!FilesBounded'
         /\ files'[Log!Today][i] = Longer(i, size, n)
         /\ \A d \in Log!Days, k \in Log!Indexes :
              d # Log!Today \/ k # i => files'[d][k] = files[d][k]
<1>1. /\ files' = [files EXCEPT ![Log!Today][i] = Longer(i, size, n)]
      /\ writer' \in [open : {TRUE}, date : {Log!Today}, index : {i}, size : Nat, broken : BOOLEAN]
      /\ writer'.size >= Log!Size(Held(i)) + size
      /\ Log!Size(Held(i)) + size <= MaxFileSize \/ Held(i) = <<>>
  BY DEF Appended
<1>2. /\ Log!Today \in Log!Days /\ size \in Nat /\ n \in Nat /\ n <= size
      /\ MaxFileSize \in Nat /\ i \in 0..MaxFiles
  BY LogFacts DEF Log!Indexes
<1>3. files \in [Log!Days -> [Log!Indexes -> Seq(Log!Chunk) \cup {NoFile}]]
  BY DEF LogInv, Log!TypeOK
<1>4. /\ Longer(i, size, n) \in Seq(Log!Chunk) /\ Longer(i, size, n) # NoFile
      /\ Log!Size(Longer(i, size, n)) = Log!Size(Held(i)) + n /\ Log!Size(Held(i)) \in Nat
      /\ Held(i) = <<>> => Len(Longer(i, size, n)) <= 1
  BY LongerFacts
<1>5. /\ files' \in [Log!Days -> [Log!Indexes -> Seq(Log!Chunk) \cup {NoFile}]]
      /\ files'[Log!Today][i] = Longer(i, size, n)
      /\ \A d \in Log!Days, k \in Log!Indexes :
           d # Log!Today \/ k # i => files'[d][k] = files[d][k]
  BY <1>1, <1>2, <1>3, <1>4
<1>6. writer' \in [open : BOOLEAN, date : Log!Days \cup {Log!NoDay}, index : 0..MaxFiles,
                   size : Nat, broken : BOOLEAN]
  BY <1>1, <1>2
<1>7. OpenFile'
  <2>1. writer'.date = Log!Today /\ writer'.index = i /\ writer'.size \in Nat
    BY <1>1
  <2>2. Log!Size(Longer(i, size, n)) <= writer'.size
    BY <1>1, <1>2, <1>4, <2>1
  <2>3. QED
    BY <1>2, <1>4, <1>5, <2>1, <2>2 DEF OpenFile
<1>8. ChunksByDay'
  <2> SUFFICES ASSUME NEW d \in Log!Days, NEW k \in Log!Indexes, files'[d][k] # NoFile,
                      NEW j \in 1..Len(files'[d][k])
               PROVE  Log!Day(files'[d][k][j].entry.at) = d
    BY DEF ChunksByDay, Log!Days, Log!Indexes, Log!Day
  <2>1. CASE d # Log!Today \/ k # i
    BY <1>5, <2>1 DEF LogInv, ChunksByDay
  <2>2. CASE d = Log!Today /\ k = i
    <3>1. Held(i) \in Seq(Log!Chunk) /\ ChunkOf(size, n) \in Log!Chunk
      BY LongerFacts
    <3>2. ASSUME NEW m \in 1..Len(Held(i)) PROVE Log!Day(Held(i)[m].entry.at) = Log!Today
      <4>1. files[Log!Today][i] # NoFile
        <5>1. Len(<<>>) = 0
          OBVIOUS
        <5>2. QED
          BY <5>1 DEF Held, Log!Opened
      <4>2. QED
        BY <1>2, <4>1 DEF LogInv, ChunksByDay, Held, Log!Opened
    <3>3. Log!Day(ChunkOf(size, n).entry.at) = Log!Today
      BY DEF ChunkOf, Log!NewEntry, Log!Today
    <3>4. j \in 1..Len(Longer(i, size, n)) /\ files'[d][k][j] = Longer(i, size, n)[j]
      BY <1>5, <2>2
    <3>5. CASE n = 0
      BY <2>2, <3>2, <3>4, <3>5 DEF Longer
    <3>6. CASE n # 0
      <4>1. Longer(i, size, n) = Append(Held(i), ChunkOf(size, n))
        BY <3>6 DEF Longer
      <4>2. \/ j \in 1..Len(Held(i)) /\ Longer(i, size, n)[j] = Held(i)[j]
            \/ Longer(i, size, n)[j] = ChunkOf(size, n)
        BY <3>1, <3>4, <4>1
      <4>3. QED
        BY <2>2, <3>2, <3>3, <3>4, <4>2
    <3>7. QED
      BY <3>5, <3>6
  <2>3. QED
    BY <2>1, <2>2
<1>9. Log!FilesBounded'
  <2> SUFFICES ASSUME NEW d \in Log!Days, NEW k \in Log!Indexes, files'[d][k] # NoFile
               PROVE  Log!Size(files'[d][k]) <= MaxFileSize \/ Len(files'[d][k]) = 1
    BY DEF Log!FilesBounded, Log!Days, Log!Indexes, Log!Size, Log!Day
  <2>1. CASE d # Log!Today \/ k # i
    BY <1>5, <2>1 DEF LogInv, Log!FilesBounded
  <2>2. CASE d = Log!Today /\ k = i
    <3>1. CASE Log!Size(Held(i)) + size <= MaxFileSize
      BY <1>2, <1>4, <1>5, <2>2, <3>1
    <3>2. CASE Held(i) = <<>>
      <4>1. Len(Longer(i, size, n)) \in {0, 1}
        <5>1. Len(Longer(i, size, n)) \in Nat /\ Len(Longer(i, size, n)) <= 1
          BY <1>4, <3>2
        <5>2. \A m \in Nat : m <= 1 => m \in {0, 1}
          OBVIOUS
        <5>3. QED
          BY <5>1, <5>2
      <4>2. Len(Longer(i, size, n)) = 0 => Longer(i, size, n) = <<>>
        BY <1>4
      <4>3. QED
        BY <1>2, <1>5, <2>2, <4>1, <4>2, SizeEmpty
    <3>3. QED
      BY <1>1, <3>1, <3>2
  <2>3. QED
    BY <2>1, <2>2
<1>10. QED
  BY <1>5, <1>6, <1>7, <1>8, <1>9

-----------------------------------------------------------------------------
(* The damage: what is spoiled already, and what will be.                  *)

LEMMA DamageFacts ==
  ASSUME LogInv
  PROVE  /\ IsFiniteSet(Log!Unreadable) /\ IsFiniteSet(Fragments)
         /\ Cardinality(Log!Unreadable) \in Nat /\ Cardinality(Fragments) \in Nat
<1>1. IsFiniteSet(Log!Unreadable)
  <2>1. Log!Unreadable \in SUBSET recorded /\ IsFiniteSet(recorded)
    BY DEF Log!Unreadable, LogInv
  <2>2. QED
    BY <2>1, FS_Subset
<1>2. IsFiniteSet(Fragments)
  <2>1. IsFiniteSet(Log!Days)
    <3>1. LastHour \div HoursPerDay \in Int
      BY LogFacts
    <3>2. QED
      BY <3>1, FS_Interval DEF Log!Days, Log!Day
  <2>2. IsFiniteSet(Log!Indexes)
    <3>1. MaxFiles \in Int
      BY LogFacts
    <3>2. QED
      BY <3>1, FS_Interval DEF Log!Indexes
  <2>3. IsFiniteSet(Log!Days \X Log!Indexes)
    BY <2>1, <2>2, FS_Product
  <2>4. Fragments \in SUBSET (Log!Days \X Log!Indexes)
    BY DEF Fragments
  <2>5. QED
    BY <2>3, <2>4, FS_Subset
<1>3. QED
  BY <1>1, <1>2, FS_CardinalityType

(* A step that spoils nothing new.                                         *)
LEMMA DamageShrinks ==
  ASSUME LogInv, Log!Unreadable' \subseteq Log!Unreadable, Fragments' \subseteq Fragments
  PROVE  \E total \in Nat, failing \in {0, 1} :
           /\ total = Cardinality(Log!Unreadable') + Cardinality(Fragments')
           /\ failing = Failing /\ total <= restarts + failing
           /\ Cardinality(Log!Unreadable') <= restarts
<1>1. /\ Cardinality(Log!Unreadable') <= Cardinality(Log!Unreadable)
      /\ Cardinality(Log!Unreadable') \in Nat
  BY DamageFacts, FS_Subset, FS_CardinalityType
<1>2. /\ Cardinality(Fragments') <= Cardinality(Fragments)
      /\ Cardinality(Fragments') \in Nat
  BY DamageFacts, FS_Subset, FS_CardinalityType
<1>3. Cardinality(Log!Unreadable) \in Nat /\ Cardinality(Fragments) \in Nat
  BY DamageFacts
<1>4. Cardinality(Log!Unreadable) + Cardinality(Fragments) <= restarts + Failing
  BY DEF LogInv, DamageBounded
<1>5. restarts \in Nat
  BY LogFacts
<1>6. PICK failing \in {0, 1} : failing = Failing
  BY Zenon DEF Failing
<1>7. Cardinality(Log!Unreadable) + Cardinality(Fragments) <= restarts + failing
  BY <1>4, <1>6, Zenon
<1>8. /\ Cardinality(Log!Unreadable') + Cardinality(Fragments') \in Nat
      /\ Cardinality(Log!Unreadable') + Cardinality(Fragments') <= restarts + failing
  BY <1>1, <1>2, <1>3, <1>5, <1>7
<1>9. Cardinality(Log!Unreadable') <= restarts
  <2>1. Cardinality(Log!Unreadable) <= restarts
    BY DEF LogInv, DamageBounded
  <2>2. QED
    BY <1>1, <1>3, <1>5, <2>1
<1>10. QED
  BY <1>6, <1>8, <1>9, Zenon

(* What a write call does to the lines and to the fragments.               *)
LEMMA AppendedDamage ==
  ASSUME LogInv, count < LastEntry, NEW size \in Sizes, NEW n \in 0..size,
         NEW i \in Log!Indexes, Appended(i, size, n)
  PROVE  /\ Log!Query \subseteq Log!Query'
         /\ Log!Lines(Longer(i, size, n)) \subseteq Log!Query'
         /\ Fragments' \subseteq Fragments \cup {<<Log!Today, i>>}
         /\ Fragment(Held(i)) => <<Log!Today, i>> \in Fragments
         /\ ~ Fragment(Longer(i, size, n)) => <<Log!Today, i>> \notin Fragments'
<1>1. /\ files'[Log!Today][i] = Longer(i, size, n)
      /\ \A d \in Log!Days, k \in Log!Indexes :
           d # Log!Today \/ k # i => files'[d][k] = files[d][k]
  BY AppendedInv
<1>2. Log!Today \in Log!Days
  BY LogFacts
<1>3. Log!Lines(files[Log!Today][i]) \subseteq Log!Lines(Longer(i, size, n))
  BY LongerFacts
<1>4. \A d \in Log!Days, k \in Log!Indexes : Log!Lines(files'[d][k]) \subseteq Log!Query'
  BY DEF Log!Query
<1>5. \A d \in Log!Days, k \in Log!Indexes :
        Log!Lines(files[d][k]) \subseteq Log!Lines(files'[d][k])
  BY <1>1, <1>3
<1>6. Log!Query \subseteq Log!Query'
  <2> SUFFICES ASSUME NEW e \in Log!Query PROVE e \in Log!Query'
    OBVIOUS
  <2>1. PICK d \in Log!Days, k \in Log!Indexes : e \in Log!Lines(files[d][k])
    BY DEF Log!Query
  <2>2. QED
    BY <1>4, <1>5, <2>1
<1>7. \A d \in Log!Days, k \in Log!Indexes :
        /\ <<d, k>> \in Fragments <=> Fragment(files[d][k])
        /\ <<d, k>> \in Fragments' <=> Fragment(files'[d][k])
  BY DEF Fragments
<1>8. Fragments' \subseteq Fragments \cup {<<Log!Today, i>>}
  <2> SUFFICES ASSUME NEW d \in Log!Days, NEW k \in Log!Indexes, <<d, k>> \in Fragments',
                      d # Log!Today \/ k # i
               PROVE  <<d, k>> \in Fragments
    BY DEF Fragments
  <2>1. QED
    BY <1>1, <1>7
<1>9. Fragment(Held(i)) => Fragment(files[Log!Today][i])
  BY DEF Held, Log!Opened, Fragment
<1>10. QED
  BY <1>1, <1>2, <1>4, <1>6, <1>7, <1>8, <1>9

-----------------------------------------------------------------------------
(* The audit log: the actions, one after the other.                        *)

LEMMA LogInit == Init => LogInv
<1> SUFFICES ASSUME Init PROVE LogInv
  OBVIOUS
<1>1. Log!Init /\ Log!AuditAssumption
  BY FilesAssumption DEF Init
<1>2. /\ now = 0 /\ files = [d \in Log!Days |-> [i \in Log!Indexes |-> NoFile]]
      /\ writer = Log!Closed /\ count = 0 /\ recorded = {} /\ removed = {}
      /\ faults = 0 /\ restarts = 0
  BY <1>1 DEF Log!Init
<1>3. /\ LastHour \in Nat /\ LastEntry \in Nat /\ MaxFiles \in Nat
      /\ MaxFaults \in Nat /\ MaxRestarts \in Nat
  BY <1>1 DEF Log!AuditAssumption
<1>4. Log!TypeOK
  <2>1. writer \in [open : BOOLEAN, date : Log!Days \cup {Log!NoDay}, index : 0..MaxFiles,
                    size : Nat, broken : BOOLEAN]
    BY <1>2, <1>3 DEF Log!Closed
  <2>2. QED
    BY <1>2, <1>3, <2>1 DEF Log!TypeOK, Log!Hours
<1>5. OpenFile /\ ChunksByDay /\ Log!FilesBounded /\ Log!KeptForFullDays
  BY <1>2 DEF OpenFile, Log!Closed, ChunksByDay, Log!FilesBounded, Log!KeptForFullDays
<1>6. IsFiniteSet(recorded)
  BY <1>2, FS_EmptySet
<1>7. DamageBounded
  <2>1. Log!Unreadable = {} /\ Fragments = {}
    BY <1>2 DEF Log!Unreadable, Fragments, Fragment
  <2>2. Failing = 0
    BY <1>2 DEF Failing, Log!Closed
  <2>3. QED
    BY <1>2, <2>1, <2>2, FS_EmptySet DEF DamageBounded
<1>8. QED
  BY <1>4, <1>5, <1>6, <1>7 DEF LogInv

(* A step that reports no entry and loses no line.                         *)
LEMMA NothingReported ==
  ASSUME LogInv, recorded' = recorded, removed \subseteq removed',
         Log!Query \subseteq Log!Query' \cup {r.entry : r \in removed'}
  PROVE  Log!Unreadable' \subseteq Log!Unreadable
<1>1. {r.entry : r \in removed} \subseteq {r.entry : r \in removed'}
  OBVIOUS
<1>2. QED
  BY <1>1 DEF Log!Unreadable

LEMMA WriteOKInv ==
  ASSUME LogInv, NEW size \in Sizes, count < LastEntry, Log!WriteOK(size),
         UNCHANGED <<now, removed, restarts>>
  PROVE  LogInv'
<1>1. /\ writer.broken = FALSE /\ Log!AppendTo(size, size)
      /\ Log!Fits(size) \/ Log!Candidates(size) # {}
      /\ recorded' = recorded \cup {Log!NewEntry(size)}
      /\ count' = count + 1 /\ faults' = faults
  BY LogFacts DEF Log!WriteOK, Log!Sticky, Log!Counted
<1>2. size \in Nat \ {0} /\ size \in 0..size
  BY LogFacts
<1>3. PICK i \in Log!Indexes : Appended(i, size, size)
  BY <1>1, <1>2, AppendToAppends
<1> DEFINE e == Log!NewEntry(size)
           di == <<Log!Today, i>>
<1>4. /\ files' \in [Log!Days -> [Log!Indexes -> Seq(Log!Chunk) \cup {NoFile}]]
      /\ writer' \in [open : BOOLEAN, date : Log!Days \cup {Log!NoDay}, index : 0..MaxFiles,
                      size : Nat, broken : BOOLEAN]
      /\ OpenFile' /\ ChunksByDay' /\ Log!FilesBounded'
  BY <1>2, <1>3, AppendedInv
<1>5. e \in Log!Entry /\ e.size = size
  <2>1. count + 1 \in 1..LastEntry /\ now \in Log!Hours
    BY LogFacts DEF LogInv, Log!TypeOK
  <2>2. QED
    BY <2>1 DEF Log!NewEntry, Log!Entry
<1>6. Log!TypeOK'
  <2>1. count' \in 0..LastEntry
    BY <1>1, LogFacts DEF LogInv, Log!TypeOK
  <2>2. recorded' \subseteq Log!Entry
    BY <1>1, <1>5 DEF LogInv, Log!TypeOK
  <2>3. QED
    BY <1>1, <1>4, <2>1, <2>2 DEF LogInv, Log!TypeOK
<1>7. IsFiniteSet(recorded') /\ Log!KeptForFullDays'
  BY <1>1, FS_AddElement DEF LogInv, Log!KeptForFullDays
<1>8. /\ Log!Query \subseteq Log!Query'
      /\ Log!Lines(Longer(i, size, size)) \subseteq Log!Query'
      /\ Fragments' \subseteq Fragments \cup {di}
      /\ Fragment(Held(i)) => di \in Fragments
      /\ ~ Fragment(Longer(i, size, size)) => di \notin Fragments'
  BY <1>2, <1>3, AppendedDamage
<1>9. /\ Held(i) \in Seq(Log!Chunk) /\ ChunkOf(size, size) \in Log!Chunk
      /\ Longer(i, size, size) = Append(Held(i), ChunkOf(size, size))
  BY <1>2, LongerFacts DEF Longer
<1>10. Log!Whole(ChunkOf(size, size)) /\ ChunkOf(size, size).entry = e
  BY <1>5 DEF Log!Whole, ChunkOf
<1>11. di \notin Fragments'
  <2>1. Longer(i, size, size)[Len(Longer(i, size, size))] = ChunkOf(size, size)
    BY <1>9
  <2>2. ~ Fragment(Longer(i, size, size))
    BY <1>10, <2>1 DEF Fragment
  <2>3. QED
    BY <1>8, <2>2
<1>12. Failing = 0 /\ Failing' = 0
  <2>1. writer'.broken <=> size < size
    BY <1>3 DEF Appended
  <2>2. ~ (size < size)
    BY <1>2
  <2>3. QED
    BY <1>1, <2>1, <2>2, Zenon DEF Failing
<1> HIDE DEF e, di
<1>13. Log!Unreadable' \subseteq Log!Unreadable \cup {e}
  BY <1>1, <1>8 DEF Log!Unreadable, e
<1>14. CASE ~ Fragment(Held(i))
  <2>1. e \in Log!Query'
    BY <1>8, <1>9, <1>10, <1>14, LinesAppend
  <2>2. Log!Unreadable' \subseteq Log!Unreadable
    BY <1>13, <2>1 DEF Log!Unreadable
  <2>3. Fragments' \subseteq Fragments
    BY <1>8, <1>11
  <2>4. PICK total \in Nat, failing \in {0, 1} :
          /\ total = Cardinality(Log!Unreadable') + Cardinality(Fragments')
          /\ failing = Failing /\ total <= restarts + failing
          /\ Cardinality(Log!Unreadable') <= restarts
    BY <2>2, <2>3, DamageShrinks
  <2>5. DamageBounded'
    BY <1>12, <2>4 DEF DamageBounded
  <2>6. QED
    BY <1>4, <1>6, <1>7, <2>5 DEF LogInv
<1>15. CASE Fragment(Held(i))
  <2>1. /\ IsFiniteSet(Log!Unreadable) /\ IsFiniteSet(Fragments)
        /\ Cardinality(Log!Unreadable) \in Nat /\ Cardinality(Fragments) \in Nat
    BY DamageFacts
  <2>2. /\ IsFiniteSet(Log!Unreadable \cup {e})
        /\ Cardinality(Log!Unreadable \cup {e}) \in Nat
        /\ Cardinality(Log!Unreadable \cup {e}) <= Cardinality(Log!Unreadable) + 1
    <3>1. /\ IsFiniteSet(Log!Unreadable \cup {e})
          /\ Cardinality(Log!Unreadable \cup {e}) =
               IF e \in Log!Unreadable THEN Cardinality(Log!Unreadable)
                                       ELSE Cardinality(Log!Unreadable) + 1
      BY <2>1, FS_AddElement
    <3>2. QED
      BY <2>1, <3>1
  <2>3. /\ IsFiniteSet(Fragments \ {di})
        /\ Cardinality(Fragments \ {di}) = Cardinality(Fragments) - 1
        /\ Fragments' \subseteq Fragments \ {di}
    BY <1>8, <1>11, <1>15, <2>1, FS_RemoveElement
  <2>4. /\ Cardinality(Log!Unreadable') <= Cardinality(Log!Unreadable \cup {e})
        /\ Cardinality(Log!Unreadable') \in Nat
    BY <1>13, <2>2, FS_Subset, FS_CardinalityType
  <2>5. /\ Cardinality(Fragments') <= Cardinality(Fragments \ {di})
        /\ Cardinality(Fragments') \in Nat
    BY <2>3, FS_Subset, FS_CardinalityType
  <2>6. Cardinality(Log!Unreadable) + Cardinality(Fragments) <= restarts
    <3>1. Cardinality(Log!Unreadable) + Cardinality(Fragments) <= restarts + Failing
      BY DEF LogInv, DamageBounded
    <3>2. QED
      BY <1>12, <2>1, <3>1, LogFacts
  <2>7. Cardinality(Log!Unreadable') + Cardinality(Fragments') <= restarts
    <3>1. \A a, b, c, d \in Nat, n \in Nat :
            a <= b + 1 /\ c <= d - 1 /\ b + d <= n => a + c <= n
      OBVIOUS
    <3>2. /\ Cardinality(Log!Unreadable') <= Cardinality(Log!Unreadable) + 1
          /\ Cardinality(Fragments') <= Cardinality(Fragments) - 1
      BY <2>1, <2>2, <2>3, <2>4, <2>5
    <3>3. restarts \in Nat
      BY LogFacts
    <3>4. QED
      BY <2>1, <2>4, <2>5, <2>6, <3>1, <3>2, <3>3
  <2>8. DamageBounded'
    <3>1. Cardinality(Log!Unreadable') <= restarts
      BY <2>4, <2>5, <2>7, LogFacts
    <3>2. QED
      BY <1>12, <2>7, <3>1, LogFacts DEF DamageBounded
  <2>9. QED
    BY <1>4, <1>6, <1>7, <2>8 DEF LogInv
<1>16. QED
  BY <1>14, <1>15

LEMMA WriteFailsInv ==
  ASSUME LogInv, NEW size \in Sizes, count < LastEntry, Log!WriteFails(size),
         UNCHANGED <<now, removed, restarts>>
  PROVE  LogInv'
<1>1. /\ writer.broken = FALSE
      /\ Log!Fits(size) \/ Log!Candidates(size) # {}
      /\ recorded' = recorded /\ count' = count + 1 /\ faults' = faults + 1
      /\ faults < MaxFaults
  BY LogFacts DEF Log!WriteFails, Log!Sticky, Log!Counted
<1>2. PICK n \in 0..(size - 1) : Log!AppendTo(size, n)
  BY DEF Log!WriteFails
<1>3. size \in Nat \ {0} /\ n \in 0..size /\ n \in Nat /\ n < size
  BY LogFacts
<1>4. PICK i \in Log!Indexes : Appended(i, size, n)
  BY <1>1, <1>2, <1>3, AppendToAppends
<1> DEFINE di == <<Log!Today, i>>
<1>5. /\ files' \in [Log!Days -> [Log!Indexes -> Seq(Log!Chunk) \cup {NoFile}]]
      /\ writer' \in [open : BOOLEAN, date : Log!Days \cup {Log!NoDay}, index : 0..MaxFiles,
                      size : Nat, broken : BOOLEAN]
      /\ OpenFile' /\ ChunksByDay' /\ Log!FilesBounded'
  BY <1>3, <1>4, AppendedInv
<1>6. Log!TypeOK'
  <2>1. count' \in 0..LastEntry /\ faults' \in 0..MaxFaults
    <3>1. /\ count \in 0..LastEntry /\ faults \in 0..MaxFaults
          /\ LastEntry \in Nat /\ MaxFaults \in Nat
      BY LogFacts DEF LogInv, Log!TypeOK
    <3>2. QED
      BY <1>1, <3>1
  <2>2. QED
    BY <1>1, <1>5, <2>1 DEF LogInv, Log!TypeOK
<1>7. IsFiniteSet(recorded') /\ Log!KeptForFullDays'
  BY <1>1 DEF LogInv, Log!KeptForFullDays
<1>8. Log!Query \subseteq Log!Query' /\ Fragments' \subseteq Fragments \cup {di}
  BY <1>3, <1>4, AppendedDamage
<1>9. Failing = 0 /\ Failing' = 1
  <2>1. writer'.broken <=> n < size
    BY <1>4 DEF Appended
  <2>2. QED
    BY <1>1, <1>3, <2>1, Zenon DEF Failing
<1>10. Log!Unreadable' \subseteq Log!Unreadable
  BY <1>1, <1>8, NothingReported
<1> HIDE DEF di
<1>11. DamageBounded'
  <2>1. /\ IsFiniteSet(Log!Unreadable) /\ IsFiniteSet(Fragments)
        /\ Cardinality(Log!Unreadable) \in Nat /\ Cardinality(Fragments) \in Nat
    BY DamageFacts
  <2>2. /\ IsFiniteSet(Fragments \cup {di})
        /\ Cardinality(Fragments \cup {di}) \in Nat
        /\ Cardinality(Fragments \cup {di}) <= Cardinality(Fragments) + 1
    <3>1. /\ IsFiniteSet(Fragments \cup {di})
          /\ Cardinality(Fragments \cup {di}) =
               IF di \in Fragments THEN Cardinality(Fragments) ELSE Cardinality(Fragments) + 1
      BY <2>1, FS_AddElement
    <3>2. QED
      BY <2>1, <3>1
  <2>3. /\ Cardinality(Fragments') <= Cardinality(Fragments \cup {di})
        /\ Cardinality(Fragments') \in Nat
    BY <1>8, <2>2, FS_Subset, FS_CardinalityType
  <2>4. /\ Cardinality(Log!Unreadable') <= Cardinality(Log!Unreadable)
        /\ Cardinality(Log!Unreadable') \in Nat
    BY <1>10, <2>1, FS_Subset, FS_CardinalityType
  <2>5. Cardinality(Log!Unreadable) + Cardinality(Fragments) <= restarts
    <3>1. Cardinality(Log!Unreadable) + Cardinality(Fragments) <= restarts + Failing
      BY DEF LogInv, DamageBounded
    <3>2. QED
      BY <1>9, <2>1, <3>1, LogFacts
  <2>6. Cardinality(Log!Unreadable') + Cardinality(Fragments') <= restarts + 1
    <3>1. \A a, b, c, d \in Nat, k \in Nat :
            a <= b /\ c <= d + 1 /\ b + d <= k => a + c <= k + 1
      OBVIOUS
    <3>2. Cardinality(Fragments') <= Cardinality(Fragments) + 1
      BY <2>1, <2>2, <2>3
    <3>3. restarts \in Nat
      BY LogFacts
    <3>4. QED
      BY <2>1, <2>3, <2>4, <2>5, <3>1, <3>2, <3>3
  <2>7. Cardinality(Log!Unreadable') <= restarts
    <3>1. Cardinality(Log!Unreadable) <= restarts
      BY DEF LogInv, DamageBounded
    <3>2. restarts \in Nat
      BY LogFacts
    <3>3. QED
      BY <2>1, <2>4, <3>1, <3>2
  <2>8. QED
    BY <1>9, <2>6, <2>7 DEF DamageBounded
<1>12. QED
  BY <1>5, <1>6, <1>7, <1>11 DEF LogInv

(* A Write that gets no entry into a file.                                 *)
LEMMA LostInv ==
  ASSUME LogInv, NEW size \in Sizes, count < LastEntry, Log!Lost(size) \/ Log!OpenFails(size),
         UNCHANGED <<now, removed, restarts>>
  PROVE  LogInv'
<1>1. /\ UNCHANGED <<files, recorded>> /\ count' = count + 1
      /\ faults' \in {faults, faults + 1} /\ (faults' # faults => faults < MaxFaults)
  BY DEF Log!Lost, Log!OpenFails, Log!Counted
<1>2. writer \in [open : BOOLEAN, date : Log!Days \cup {Log!NoDay}, index : 0..MaxFiles,
                  size : Nat, broken : BOOLEAN]
  BY DEF LogInv, Log!TypeOK
<1>3. /\ writer' \in [open : BOOLEAN, date : Log!Days \cup {Log!NoDay}, index : 0..MaxFiles,
                      size : Nat, broken : BOOLEAN]
      /\ writer'.broken = writer.broken
      /\ writer' = writer \/ writer'.open = FALSE
  <2>1. CASE Log!Lost(size)
    BY <1>2, <2>1 DEF Log!Lost
  <2>2. CASE Log!OpenFails(size)
    <3>1. CASE writer' = [writer EXCEPT !.open = FALSE, !.size = 0]
      BY <1>2, <3>1
    <3>2. ASSUME NEW index \in Log!Tried..Log!Pick(size),
                 writer' = [Log!Closed EXCEPT !.date = Log!Today, !.index = index]
          PROVE  /\ writer' \in [open : BOOLEAN, date : Log!Days \cup {Log!NoDay},
                                 index : 0..MaxFiles, size : Nat, broken : BOOLEAN]
                 /\ writer'.broken = FALSE /\ writer'.open = FALSE
      <4>1. index \in 0..MaxFiles /\ Log!Today \in Log!Days
        <5>1. Log!Pick(size) \in 1..MaxFiles /\ Log!Tried \in Nat /\ MaxFiles \in Nat
          BY <2>2, LogFacts, PickFacts DEF Log!OpenFails, Log!Indexes, Log!Tried
        <5>2. QED
          BY <5>1, LogFacts
      <4>2. QED
        BY <3>2, <4>1 DEF Log!Closed
    <3>3. writer.broken = FALSE
      BY <1>2, <2>2 DEF Log!OpenFails, Log!Sticky
    <3>4. QED
      BY <2>2, <3>1, <3>2, <3>3 DEF Log!OpenFails
  <2>3. QED
    BY <2>1, <2>2
<1>4. Log!TypeOK'
  <2>1. count' \in 0..LastEntry /\ faults' \in 0..MaxFaults
    <3>1. /\ count \in 0..LastEntry /\ faults \in 0..MaxFaults
          /\ LastEntry \in Nat /\ MaxFaults \in Nat
      BY LogFacts DEF LogInv, Log!TypeOK
    <3>2. QED
      BY <1>1, <3>1
  <2>2. QED
    BY <1>1, <1>3, <2>1 DEF LogInv, Log!TypeOK
<1>5. OpenFile' /\ ChunksByDay' /\ Log!FilesBounded' /\ Log!KeptForFullDays'
  BY <1>1, <1>3 DEF LogInv, OpenFile, ChunksByDay, Log!FilesBounded, Log!KeptForFullDays
<1>6. DamageBounded'
  <2>1. Log!Unreadable' = Log!Unreadable /\ Fragments' = Fragments
    BY <1>1 DEF Log!Unreadable, Log!Query, Fragments, Fragment, Log!Whole
  <2>2. Failing' = Failing
    BY <1>3, Zenon DEF Failing
  <2>3. QED
    BY <2>1, <2>2 DEF LogInv, DamageBounded
<1>7. IsFiniteSet(recorded')
  BY <1>1 DEF LogInv
<1>8. QED
  BY <1>4, <1>5, <1>6, <1>7 DEF LogInv

LEMMA WriteInv ==
  ASSUME LogInv, NEW size \in Sizes, Log!Write(size)
  PROVE  LogInv'
BY WriteOKInv, WriteFailsInv, LostInv DEF Log!Write

(* A restart forgets the error of the Writer, and Cleanup takes whole days *)
(* away, none of which is younger than it should be.                       *)
LEMMA RestartInv ==
  ASSUME LogInv, Log!Restart
  PROVE  LogInv'
<1> DEFINE gone == {d \in Log!Days : Log!Expired(d)}
           lines == UNION {Log!Lines(files[d][i]) : d \in gone, i \in Log!Indexes}
<1>1. /\ restarts < MaxRestarts /\ restarts' = restarts + 1 /\ writer' = Log!Closed
      /\ removed' = removed \cup [entry : lines, when : {now}]
      /\ files' = [d \in Log!Days |-> IF d \in gone THEN [i \in Log!Indexes |-> NoFile]
                                                    ELSE files[d]]
      /\ UNCHANGED <<now, count, recorded, faults>>
  BY DEF Log!Restart
<1>2. files \in [Log!Days -> [Log!Indexes -> Seq(Log!Chunk) \cup {NoFile}]]
  BY DEF LogInv, Log!TypeOK
<1>3. \A d \in Log!Days, i \in Log!Indexes : files'[d][i] = files[d][i] \/ files'[d][i] = NoFile
  BY <1>1
<1>4. ASSUME NEW d \in Log!Days, NEW i \in Log!Indexes, NEW e \in Log!Lines(files[d][i])
      PROVE  e \in Log!Entry /\ Log!Day(e.at) = d
  <2>1. files[d][i] # NoFile
    BY DEF Log!Lines
  <2>2. PICK j \in 1..Len(files[d][i]) : e = files[d][i][j].entry
    BY <2>1 DEF Log!Lines
  <2>3. files[d][i] \in Seq(Log!Chunk)
    BY <1>2, <2>1
  <2>4. files[d][i][j] \in Log!Chunk
    BY <2>3
  <2>5. QED
    BY <2>1, <2>2, <2>4 DEF LogInv, ChunksByDay, Log!Chunk
<1>5. \A e \in lines : \E d \in gone, i \in Log!Indexes : e \in Log!Lines(files[d][i])
  OBVIOUS
<1>6. \A d \in gone, i \in Log!Indexes : Log!Lines(files[d][i]) \subseteq lines
  OBVIOUS
<1>7. gone \subseteq Log!Days /\ \A d \in gone : Log!Expired(d)
  OBVIOUS
<1>8. \A d \in Log!Days \ gone : files'[d] = files[d]
  BY <1>1
<1>9. Log!TypeOK'
  <2>1. files' \in [Log!Days -> [Log!Indexes -> Seq(Log!Chunk) \cup {NoFile}]]
    BY <1>1, <1>2
  <2>2. writer' \in [open : BOOLEAN, date : Log!Days \cup {Log!NoDay}, index : 0..MaxFiles,
                     size : Nat, broken : BOOLEAN]
    BY <1>1, LogFacts DEF Log!Closed
  <2>3. lines \subseteq Log!Entry
    BY <1>4, <1>5, <1>7
  <2>4. restarts' \in 0..MaxRestarts
    BY <1>1, LogFacts DEF LogInv, Log!TypeOK
  <2> HIDE DEF lines
  <2>5. removed' \subseteq [entry : Log!Entry, when : Log!Hours]
    <3>1. now \in Log!Hours /\ removed \subseteq [entry : Log!Entry, when : Log!Hours]
      BY DEF LogInv, Log!TypeOK
    <3>2. QED
      BY <1>1, <2>3, <3>1
  <2>6. QED
    BY <1>1, <2>1, <2>2, <2>4, <2>5 DEF LogInv, Log!TypeOK
<1>10. OpenFile'
  BY <1>1 DEF OpenFile, Log!Closed
<1>11. ChunksByDay' /\ Log!FilesBounded'
  BY <1>3 DEF LogInv, ChunksByDay, Log!FilesBounded
<1>12. Log!KeptForFullDays'
  <2> SUFFICES ASSUME NEW r \in removed'
               PROVE  r.when - r.entry.at > (AuditRetentionDays - 1) * HoursPerDay
    BY DEF Log!KeptForFullDays
  <2>1. CASE r \in removed
    BY <2>1 DEF LogInv, Log!KeptForFullDays
  <2>2. CASE r \notin removed
    <3>1. r.entry \in lines /\ r.when = now
      <4> HIDE DEF lines
      <4>1. QED
        BY <1>1, <2>2
    <3>2. PICK d \in gone, i \in Log!Indexes : r.entry \in Log!Lines(files[d][i])
      BY <1>5, <3>1
    <3>3. /\ d \in Log!Days /\ d * HoursPerDay < now - AuditRetentionDays * HoursPerDay
          /\ r.entry \in Log!Entry /\ Log!Day(r.entry.at) = d
      BY <1>4, <1>7, <3>2 DEF Log!Expired
    <3>4. r.entry.at \in Nat
      BY <3>3 DEF Log!Entry, Log!Hours
    <3>5. /\ HoursPerDay \in Nat \ {0} /\ AuditRetentionDays \in Nat \ {0}
          /\ now \in Nat /\ d \in Nat
      BY <3>3, LogFacts
    <3>6. r.entry.at < (d + 1) * HoursPerDay
      BY <3>3, <3>4, <3>5 DEF Log!Day
    <3>7. \A k, h, n, w, a \in Nat :
            k * h < w - n * h /\ a < (k + 1) * h => w - a > (n - 1) * h
      OBVIOUS
    <3>8. QED
      BY <3>1, <3>3, <3>4, <3>5, <3>6, <3>7
  <2>3. QED
    BY <2>1, <2>2
<1>13. IsFiniteSet(recorded')
  BY <1>1 DEF LogInv
<1>14. DamageBounded'
  <2>1. Log!Query \subseteq Log!Query' \cup {r.entry : r \in removed'}
    <3> SUFFICES ASSUME NEW e \in Log!Query, e \notin Log!Query'
                 PROVE  e \in {r.entry : r \in removed'}
      OBVIOUS
    <3>1. PICK d \in Log!Days, i \in Log!Indexes : e \in Log!Lines(files[d][i])
      BY DEF Log!Query
    <3>2. Log!Lines(files'[d][i]) \subseteq Log!Query'
      BY DEF Log!Query
    <3>3. d \in gone
      BY <1>8, <3>1, <3>2
    <3>4. e \in lines
      BY <1>6, <3>1, <3>3
    <3> HIDE DEF lines
    <3>5. [entry |-> e, when |-> now] \in removed'
      BY <1>1, <3>4
    <3>6. QED
      BY <3>5
  <2>2. Log!Unreadable' \subseteq Log!Unreadable
    BY <1>1, <2>1, NothingReported
  <2>3. Fragments' \subseteq Fragments
    BY <1>3 DEF Fragments, Fragment
  <2>4. PICK total \in Nat, failing \in {0, 1} :
          /\ total = Cardinality(Log!Unreadable') + Cardinality(Fragments')
          /\ failing = Failing /\ total <= restarts + failing
          /\ Cardinality(Log!Unreadable') <= restarts
    BY <2>2, <2>3, DamageShrinks
  <2>5. Failing' = 0
    BY <1>1 DEF Failing, Log!Closed
  <2>6. total <= restarts' + 0 /\ Cardinality(Log!Unreadable') <= restarts'
    <3>1. restarts \in Nat /\ restarts' = restarts + 1
      BY <1>1, LogFacts
    <3>2. Cardinality(Log!Unreadable') \in Nat
      <4>1. IsFiniteSet(Log!Unreadable')
        BY <2>2, DamageFacts, FS_Subset
      <4>2. QED
        BY <4>1, FS_CardinalityType
    <3>3. QED
      BY <2>4, <3>1, <3>2
  <2>7. QED
    BY <2>4, <2>5, <2>6 DEF DamageBounded
<1>15. QED
  BY <1>9, <1>10, <1>11, <1>12, <1>13, <1>14 DEF LogInv

LEMMA TickInv ==
  ASSUME LogInv, Log!Tick
  PROVE  LogInv'
<1>1. /\ now < LastHour /\ now' = now + 1
      /\ UNCHANGED <<files, writer, count, recorded, removed, faults, restarts>>
  BY DEF Log!Tick
<1>2. now' \in Log!Hours
  BY <1>1, LogFacts DEF Log!Hours
<1>3. Log!TypeOK'
  BY <1>1, <1>2 DEF LogInv, Log!TypeOK
<1>4. /\ OpenFile' /\ ChunksByDay' /\ Log!FilesBounded' /\ Log!KeptForFullDays'
      /\ IsFiniteSet(recorded')
  BY <1>1 DEF LogInv, OpenFile, ChunksByDay, Log!FilesBounded, Log!KeptForFullDays
<1>5. DamageBounded'
  <2>1. Log!Unreadable' = Log!Unreadable /\ Fragments' = Fragments
    BY <1>1 DEF Log!Unreadable, Log!Query, Fragments, Fragment, Log!Whole
  <2>2. Failing' = Failing
    BY <1>1 DEF Failing
  <2>3. QED
    BY <1>1, <2>1, <2>2 DEF LogInv, DamageBounded
<1>6. QED
  BY <1>3, <1>4, <1>5 DEF LogInv

LEMMA LogNext ==
  ASSUME LogInv, Log!Next
  PROVE  LogInv'
BY WriteInv, RestartInv, TickInv DEF Log!Next

LEMMA LogStays ==
  ASSUME LogInv, UNCHANGED LogVars
  PROVE  LogInv'
<1>1. UNCHANGED <<now, files, writer, count, recorded, removed, faults, restarts>>
  BY DEF LogVars
<1>2. /\ Log!TypeOK' /\ OpenFile' /\ ChunksByDay' /\ Log!FilesBounded' /\ Log!KeptForFullDays'
      /\ IsFiniteSet(recorded')
  BY <1>1 DEF LogInv, Log!TypeOK, OpenFile, ChunksByDay, Log!FilesBounded, Log!KeptForFullDays
<1>3. DamageBounded'
  <2>1. Log!Unreadable' = Log!Unreadable /\ Fragments' = Fragments
    BY <1>1 DEF Log!Unreadable, Log!Query, Fragments, Fragment, Log!Whole
  <2>2. Failing' = Failing
    BY <1>1 DEF Failing
  <2>3. QED
    BY <1>1, <2>1, <2>2 DEF LogInv, DamageBounded
<1>4. QED
  BY <1>2, <1>3 DEF LogInv

-----------------------------------------------------------------------------
(* The two together, and what follows.                                     *)

LEMMA FilesInit == Init => LogInv /\ StoreInv
BY LogInit, StoreInit

LEMMA FilesNext ==
  LogInv /\ StoreInv /\ [Next]_<<subject, LogVars, StoreVars>> => LogInv' /\ StoreInv'
<1> SUFFICES ASSUME LogInv, StoreInv, [Next]_<<subject, LogVars, StoreVars>>
             PROVE  LogInv' /\ StoreInv'
  OBVIOUS
<1>1. CASE LogStep
  <2>1. Log!Next /\ UNCHANGED StoreVars
    BY <1>1 DEF LogStep
  <2>2. QED
    BY <2>1, LogNext, StoreStays
<1>2. CASE StoreStep
  <2>1. Store!Next /\ UNCHANGED LogVars
    BY <1>2 DEF StoreStep
  <2>2. QED
    BY <2>1, StoreNext, LogStays
<1>3. CASE UNCHANGED <<subject, LogVars, StoreVars>>
  BY <1>3, LogStays, StoreStays
<1>4. QED
  BY <1>1, <1>2, <1>3 DEF Next

(* Types, over every bound on time, entries, faults, restarts and kills.   *)
THEOREM FilesTypeCorrect == Spec => [](Log!TypeOK /\ Store!TypeOK)
<1>1. LogInv /\ StoreInv => Log!TypeOK /\ Store!TypeOK
  BY DEF LogInv, StoreInv
<1>2. QED
  BY <1>1, FilesInit, FilesNext, PTL DEF Spec

(* The audit log keeps to its configured file size, days and retention.    *)
THEOREM LogAsConfigured == Spec => []FilesAsConfigured
<1>1. LogInv => Log!FiledByDay
  <2> SUFFICES ASSUME LogInv, NEW d \in Log!Days, NEW i \in Log!Indexes,
                      NEW e \in Log!Lines(files[d][i])
               PROVE  Log!Day(e.at) = d
    BY DEF Log!FiledByDay
  <2>1. files[d][i] # NoFile
    BY DEF Log!Lines
  <2>2. PICK j \in 1..Len(files[d][i]) : e = files[d][i][j].entry
    BY <2>1 DEF Log!Lines
  <2>3. QED
    BY <2>1, <2>2 DEF LogInv, ChunksByDay
<1>2. LogInv => FilesAsConfigured
  BY <1>1 DEF LogInv, FilesAsConfigured
<1>3. QED
  BY <1>2, FilesInit, FilesNext, PTL DEF Spec

(* A run of the program that meets a failing write spoils at most one of   *)
(* the entries that were reported as recorded.                             *)
THEOREM DamageIsBounded == Spec => []RestartSpoilsOneAtMost
<1>1. LogInv => RestartSpoilsOneAtMost
  <2>1. LogInv => Cardinality(Log!Unreadable) <= restarts
    BY Zenon DEF LogInv, DamageBounded
  <2>2. QED
    BY <2>1, Zenon DEF RestartSpoilsOneAtMost, Log!RestartSpoilsOneAtMost, Log!Cardinality, Cardinality
<1>2. QED
  BY <1>1, FilesInit, FilesNext, PTL DEF Spec

(* config.yaml can be loaded at every moment, unless it is mounted, and    *)
(* only killed Saves leave temporary files behind.                         *)
THEOREM ConfigIsWhole == Spec => []FileIsWhole
<1>1. StoreInv => FileIsWhole
  <2> SUFFICES ASSUME StoreInv PROVE Store!FileIsWhole /\ Store!TempsRemoved
    BY DEF FileIsWhole
  <2>1. save = Store!Idle => ~ Staged
    BY DEF Staged, Store!Idle
  <2>2. QED
    BY <2>1, StoreFacts DEF StoreInv, TempsOwned, Store!TempsRemoved
<1>2. QED
  BY <1>1, FilesInit, FilesNext, PTL DEF Spec

(* What a Save has read and replaced can be restored.                      *)
THEOREM ReplacedIsRestorable == Spec => []ReadIsKept
<1>1. StoreInv => ReadIsKept
  BY DEF StoreInv, ReadIsKept
<1>2. QED
  BY <1>1, FilesInit, FilesNext, PTL DEF Spec

(* A file of the audit log only grows, until its day is removed.           *)
Grows(d, i) ==
  files[d][i] # NoFile =>
    \/ files'[d][i] = NoFile /\ Log!Expired(d)
    \/ /\ files'[d][i] # NoFile
       /\ Len(files'[d][i]) >= Len(files[d][i])
       /\ SubSeq(files'[d][i], 1, Len(files[d][i])) = files[d][i]

LEMMA StaysAsIs ==
  ASSUME LogInv, NEW d \in Log!Days, NEW i \in Log!Indexes, files'[d][i] = files[d][i]
  PROVE  Grows(d, i)
<1>1. CASE files[d][i] = NoFile
  BY <1>1 DEF Grows
<1>2. CASE files[d][i] # NoFile
  <2>1. files[d][i] \in Seq(Log!Chunk)
    BY <1>2, FileFacts
  <2>2. Len(files[d][i]) >= Len(files[d][i])
    BY <2>1
  <2>3. SubSeq(files[d][i], 1, Len(files[d][i])) = files[d][i]
    BY <2>1, SubSeqFull
  <2>4. QED
    BY <1>2, <2>2, <2>3 DEF Grows
<1>3. QED
  BY <1>1, <1>2

LEMMA AppendedGrows ==
  ASSUME LogInv, count < LastEntry, NEW size \in Sizes, NEW n \in 0..size,
         NEW k \in Log!Indexes, Appended(k, size, n), NEW d \in Log!Days, NEW i \in Log!Indexes
  PROVE  Grows(d, i)
<1>1. /\ files'[Log!Today][k] = Longer(k, size, n)
      /\ d # Log!Today \/ i # k => files'[d][i] = files[d][i]
  BY AppendedInv
<1>2. CASE d # Log!Today \/ i # k
  BY <1>1, <1>2, StaysAsIs
<1>3. CASE d = Log!Today /\ i = k /\ files[d][i] = NoFile
  BY <1>3 DEF Grows
<1>4. CASE d = Log!Today /\ i = k /\ files[d][i] # NoFile
  <2> DEFINE f == files[d][i]
             c == ChunkOf(size, n)
  <2>1. Held(k) = f /\ f \in Seq(Log!Chunk) /\ c \in Log!Chunk /\ Longer(k, size, n) # NoFile
    BY <1>4, LongerFacts DEF Held, Log!Opened
  <2>2. CASE n = 0
    BY <1>1, <1>4, <2>1, <2>2, StaysAsIs DEF Longer
  <2>3. CASE n # 0
    <3>1. files'[d][i] = Append(f, c)
      BY <1>1, <1>4, <2>1, <2>3 DEF Longer
    <3>2. SubSeq(Append(f, c), 1, Len(f)) = f /\ Len(Append(f, c)) >= Len(f)
      <4> HIDE DEF f, c
      <4>1. QED
        BY <2>1
    <3>3. QED
      BY <1>1, <1>4, <2>1, <3>1, <3>2 DEF Grows
  <2>4. QED
    BY <2>2, <2>3
<1>5. QED
  BY <1>2, <1>3, <1>4

(* The audit log is append-only: over midnights, restarts and write calls  *)
(* that fail half way.                                                     *)
THEOREM LogIsAppendOnly == Spec => AppendOnly
<1> DEFINE AllGrow == \A d \in Log!Days, i \in Log!Indexes : Grows(d, i)
<1>1. ASSUME LogInv, [Next]_<<subject, LogVars, StoreVars>>, ~ UNCHANGED Log!avars
      PROVE  AllGrow
  <2>1. LogStep
    BY <1>1 DEF Next, StoreStep, LogVars, Log!avars
  <2>2. ASSUME NEW size \in Sizes, Log!Write(size) PROVE AllGrow
    <3>1. count < LastEntry
      BY <2>2 DEF Log!Write
    <3>2. CASE Log!Lost(size) \/ Log!OpenFails(size)
      BY <1>1, <3>2, StaysAsIs DEF Log!Lost, Log!OpenFails
    <3>3. CASE Log!WriteOK(size) \/ Log!WriteFails(size)
      <4>1. PICK n \in 0..size : Log!AppendTo(size, n)
        <5>1. size \in Nat \ {0}
          BY <1>1, LogFacts
        <5>2. size \in 0..size /\ 0..(size - 1) \subseteq 0..size
          BY <5>1
        <5>3. QED
          BY <3>3, <5>2 DEF Log!WriteOK, Log!WriteFails
      <4>2. Log!Fits(size) \/ Log!Candidates(size) # {}
        BY <3>3 DEF Log!WriteOK, Log!WriteFails
      <4>3. PICK k \in Log!Indexes : Appended(k, size, n)
        BY <1>1, <4>1, <4>2, AppendToAppends
      <4>4. QED
        BY <1>1, <3>1, <4>3, AppendedGrows
    <3>4. QED
      BY <2>2, <3>2, <3>3 DEF Log!Write
  <2>3. CASE Log!Restart
    <3>1. ASSUME NEW d \in Log!Days, NEW i \in Log!Indexes PROVE Grows(d, i)
      <4>1. CASE Log!Expired(d)
        BY <2>3, <4>1 DEF Log!Restart, Grows
      <4>2. CASE ~ Log!Expired(d)
        <5>1. files'[d][i] = files[d][i]
          BY <2>3, <4>2 DEF Log!Restart
        <5>2. QED
          BY <1>1, <5>1, StaysAsIs
      <4>3. QED
        BY <4>1, <4>2
    <3>2. QED
      BY <3>1
  <2>4. CASE Log!Tick
    BY <1>1, <2>4, StaysAsIs DEF Log!Tick
  <2>5. QED
    BY <2>1, <2>2, <2>3, <2>4 DEF LogStep, Log!Next
<1>2. LogInv /\ [Next]_<<subject, LogVars, StoreVars>> => [AllGrow]_Log!avars
  <2> HIDE DEF AllGrow
  <2>1. QED
    BY <1>1
<1>3. AppendOnly <=> [][AllGrow]_Log!avars
  BY DEF AppendOnly, Log!AppendOnly, Grows
<1>4. QED
  BY <1>2, <1>3, FilesInit, FilesNext, PTL DEF Spec
=============================================================================
