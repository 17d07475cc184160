------------------------------ MODULE AuditLog ------------------------------
(***************************************************************************)
(* The audit log of internal/audit: the Writer that appends one line per   *)
(* dangerous operation to data/audit/<day>/audit-<n>.jsonl, the Query that *)
(* reads the lines back, and the Cleanup of old days that main runs as it  *)
(* starts.                                                                 *)
(*                                                                         *)
(* An entry is its number, its size and the hour it was written in.  A     *)
(* file is the sequence of the chunks its write calls have appended; a     *)
(* chunk that the disk took only a part of has fewer bytes than its entry  *)
(* and no newline at its end.  Writer.mu makes a Write one step.  (A name  *)
(* that starts with Fault_ is a seeded fault: see PROJECT.json.)           *)
(***************************************************************************)
EXTENDS Integers, Sequences, FiniteSets

CONSTANTS NoFile,         (* a file that does not exist                      *)
          Sizes,          (* sizes an entry may have, in bytes               *)
          MaxFileSize,    (* Config.MaxFileSizeBytes                         *)
          RetentionDays,  (* Config.RetentionDays                            *)
          HoursPerDay,    (* resolution of the clock within a day            *)
          LastHour,       (* bound on time                                   *)
          LastEntry,      (* bound on the number of entries                  *)
          MaxFiles,       (* bound on the files of a day                     *)
          MaxFaults,      (* bound on failing system calls                   *)
          MaxRestarts     (* bound on restarts of the program                *)

VARIABLES
  now,       (* the hour                                                     *)
  files,     (* the files, by day and index                                  *)
  writer,    (* Writer: is a file open, date, index, size, and whether its   *)
             (* bufio.Writer has met an error, which it then keeps           *)
  count,     (* entries so far                                               *)
  recorded,  (* entries whose Write returned nil                             *)
  removed,   (* entries in a day that Cleanup has removed, when it did       *)
  faults,    (* failed system calls so far                                   *)
  restarts   (* restarts so far                                              *)

avars == <<now, files, writer, count, recorded, removed, faults, restarts>>

Hours == 0..LastHour
Day(hour) == hour \div HoursPerDay
Days == 0..Day(LastHour)
Today == Day(now)
Indexes == 1..MaxFiles

Entry == [id : 1..LastEntry, size : Sizes, at : Hours]
Chunk == [entry : Entry, bytes : Nat]

(* Assumed where the module is instantiated.                               *)
AuditAssumption ==
  /\ Sizes \subseteq Nat \ {0} /\ Sizes # {}
  /\ {MaxFileSize, RetentionDays, HoursPerDay} \subseteq Nat \ {0}
  /\ {LastHour, LastEntry, MaxFiles, MaxFaults, MaxRestarts} \subseteq Nat
  /\ NoFile \notin Seq(Chunk)

NoDay == -1
Closed == [open |-> FALSE, date |-> NoDay, index |-> 0, size |-> 0, broken |-> FALSE]

TypeOK ==
  /\ now \in Hours
  /\ files \in [Days -> [Indexes -> Seq(Chunk) \cup {NoFile}]]
  /\ writer \in [open : BOOLEAN, date : Days \cup {NoDay}, index : 0..MaxFiles,
                 size : Nat, broken : BOOLEAN]
  /\ count \in 0..LastEntry
  /\ recorded \subseteq Entry
  /\ removed \subseteq [entry : Entry, when : Hours]
  /\ faults \in 0..MaxFaults /\ restarts \in 0..MaxRestarts

Init ==
  /\ now = 0
  /\ files = [d \in Days |-> [i \in Indexes |-> NoFile]]
  /\ writer = Closed
  /\ count = 0
  /\ recorded = {} /\ removed = {}
  /\ faults = 0 /\ restarts = 0

-----------------------------------------------------------------------------
(* The bytes in a file, and the entries Query gets out of it: a line that  *)
(* does not parse is skipped, so a chunk counts only if it is whole and    *)
(* starts a line.                                                          *)
Whole(chunk) == chunk.bytes = chunk.entry.size

Size(file) ==
  LET bytes[i \in 0..Len(file)] == IF i = 0 THEN 0 ELSE bytes[i - 1] + file[i].bytes
  IN IF file = NoFile THEN 0 ELSE bytes[Len(file)]

Lines(file) ==
  IF file = NoFile THEN {}
  ELSE {file[i].entry : i \in {j \in 1..Len(file) :
                                 Whole(file[j]) /\ (j > 1 => Whole(file[j - 1]))}}

Query == UNION {Lines(files[d][i]) : d \in Days, i \in Indexes}

-----------------------------------------------------------------------------
(* Writer.Write, with what ensureFile does.                                *)

(* The open file still takes an entry of this size today.                  *)
Fault_FitsWithoutDate(size) == writer.open /\ writer.size + size <= MaxFileSize
Fits(size) == /\ writer.open
              /\ writer.date = Today
              /\ writer.size + size <= MaxFileSize

(* The index ensureFile stops at: the first one after the last it tried    *)
(* whose file does not exist yet or has room for the entry.                *)
Fault_RoomIgnoresIncoming(file, size) == file = NoFile \/ Size(file) <= MaxFileSize
Room(file, size) == file = NoFile \/ Size(file) + size <= MaxFileSize

Tried == IF writer.date = Today THEN writer.index ELSE 0
Candidates(size) == {i \in Indexes : i > Tried /\ Room(files[Today][i], size)}
Pick(size) == CHOOSE i \in Candidates(size) : \A j \in Candidates(size) : i <= j

(* What a file holds once it is open: O_APPEND, never O_TRUNC.             *)
Fault_Truncated(file) == <<>>
Opened(file) == IF file = NoFile THEN <<>> ELSE file

(* An error of the bufio.Writer is kept: the Write fails, and so does the  *)
(* Flush in closeLocked, which leaves the file open.                       *)
Fault_Forgets == FALSE
Sticky == writer.broken

(* A missing timestamp becomes the time of the Write.                      *)
Fault_ZeroTimestamp(size) == [id |-> count + 1, size |-> size, at |-> NoDay]
NewEntry(size) == [id |-> count + 1, size |-> size, at |-> now]
Counted == count' = count + 1

Lost(size) ==
  /\ Sticky
  /\ Counted
  /\ UNCHANGED <<files, writer, recorded, faults>>

(* Closing the file before fails, or creating the directory, or a Stat or  *)
(* Open on the way to the next file, whose index is used up then.          *)
OpenFails(size) ==
  /\ ~ Sticky /\ ~ Fits(size) /\ Candidates(size) # {}
  /\ faults < MaxFaults
  /\ faults' = faults + 1
  /\ \/ writer.open /\ writer' = [writer EXCEPT !.open = FALSE, !.size = 0]
     \/ \E index \in Tried..Pick(size) :
          writer' = [Closed EXCEPT !.date = Today, !.index = index]
  /\ Counted
  /\ UNCHANGED <<files, recorded>>

(* The write call takes n bytes of the entry; fewer than all is an error.  *)
AppendTo(size, n) ==
  LET day   == IF Fits(size) THEN writer.date ELSE Today
      index == IF Fits(size) THEN writer.index ELSE Pick(size)
      kept  == IF Fits(size) THEN files[day][index] ELSE Opened(files[day][index])
      chunk == [entry |-> NewEntry(size), bytes |-> n]
  IN /\ files' = [files EXCEPT ![day][index] = IF n = 0 THEN kept ELSE Append(kept, chunk)]
     /\ writer' = [open |-> TRUE, date |-> day, index |-> index, broken |-> n < size,
                   size |-> size + IF Fits(size) THEN writer.size ELSE Size(kept)]

WriteOK(size) ==
  /\ ~ Sticky /\ (Fits(size) \/ Candidates(size) # {})
  /\ AppendTo(size, size)
  /\ recorded' = recorded \cup {NewEntry(size)}
  /\ Counted
  /\ UNCHANGED faults

WriteFails(size) ==
  /\ ~ Sticky /\ (Fits(size) \/ Candidates(size) # {})
  /\ faults < MaxFaults
  /\ faults' = faults + 1
  /\ \E n \in 0..(size - 1) : AppendTo(size, n)
  /\ Counted
  /\ UNCHANGED recorded

Write(size) ==
  /\ count < LastEntry
  /\ Lost(size) \/ OpenFails(size) \/ WriteOK(size) \/ WriteFails(size)
  /\ UNCHANGED <<now, removed, restarts>>

-----------------------------------------------------------------------------
(* Cleanup compares the midnight a day began with a moment RetentionDays   *)
(* before now.                                                             *)
Fault_ExpiredTooSoon(day) == day * HoursPerDay < now - (RetentionDays - 1) * HoursPerDay
Expired(day) == day * HoursPerDay < now - RetentionDays * HoursPerDay

(* The program ends and is started again: NewWriter, then Cleanup.         *)
Restart ==
  /\ restarts < MaxRestarts
  /\ restarts' = restarts + 1
  /\ writer' = Closed
  /\ LET gone == {d \in Days : Expired(d)}
     IN /\ removed' = removed \cup
             [entry : UNION {Lines(files[d][i]) : d \in gone, i \in Indexes}, when : {now}]
        /\ files' = [d \in Days |-> IF d \in gone THEN [i \in Indexes |-> NoFile]
                                                  ELSE files[d]]
  /\ UNCHANGED <<now, count, recorded, faults>>

Tick ==
  /\ now < LastHour
  /\ now' = now + 1
  /\ UNCHANGED <<files, writer, count, recorded, removed, faults, restarts>>

Next == (\E size \in Sizes : Write(size)) \/ Restart \/ Tick

Spec == Init /\ [][Next]_avars

-----------------------------------------------------------------------------
(* A file is no larger than configured unless one entry alone is: across   *)
(* days, restarts and failed writes, the Writer's own idea of the size is  *)
(* never too small.                                                        *)
FilesBounded ==
  \A d \in Days, i \in Indexes :
    files[d][i] # NoFile => Size(files[d][i]) <= MaxFileSize \/ Len(files[d][i]) = 1

(* An entry is in the directory of the day it was written.                 *)
FiledByDay ==
  \A d \in Days, i \in Indexes : \A entry \in Lines(files[d][i]) : Day(entry.at) = d

(* The log is append-only: a file keeps what it holds until Cleanup        *)
(* removes its day.                                                        *)
AppendOnly ==
  [][\A d \in Days, i \in Indexes :
       files[d][i] # NoFile =>
         \/ files'[d][i] = NoFile /\ Expired(d)
         \/ /\ files'[d][i] # NoFile
            /\ Len(files'[d][i]) >= Len(files[d][i])
            /\ SubSeq(files'[d][i], 1, Len(files[d][i])) = files[d][i]]_avars

(* What Write has reported as recorded and Query does not find.            *)
Unreadable == recorded \ (Query \cup {r.entry : r \in removed})

(* A failed write never garbles a later entry of the same run: Write fails *)
(* until a restart, and a restart spoils one reported entry at most, the   *)
(* one that continues the fragment.                                        *)
RestartSpoilsOneAtMost == Cardinality(Unreadable) <= restarts

(* What docs/security.md says: dangerous operations are written to the     *)
(* log.  What Write has reported as recorded can be read back.             *)
RecordedIsReadable == Unreadable = {}

(* An entry is kept until at least RetentionDays - 1 days have passed.     *)
KeptForFullDays ==
  \A r \in removed : r.when - r.entry.at > (RetentionDays - 1) * HoursPerDay

(* What the docs say of the retention: only what is older than             *)
(* RetentionDays is removed ...                                            *)
KeptForRetention ==
  \A r \in removed : r.when - r.entry.at >= RetentionDays * HoursPerDay

(* ... and it is removed by a job that runs every day.                     *)
ExpiredIsRemoved ==
  \A d \in Days : (\E i \in Indexes : files[d][i] # NoFile)
                    => now <= (d + RetentionDays + 2) * HoursPerDay

(* The same of operations whose Write meets no failing system call: they   *)
(* are recorded, whatever happened to earlier ones.                        *)
HealthyWritesAreRecorded ==
  [][count' # count /\ faults' = faults => recorded' # recorded]_avars
=============================================================================
