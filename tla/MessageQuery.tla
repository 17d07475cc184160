---------------------------- MODULE MessageQuery ----------------------------
(***************************************************************************)
(* Reading messages, internal/kafka/message: one query, or one live        *)
(* stream, over some partitions of a topic, while producers append to them *)
(* and the broker's retention deletes from their beginning.                *)
(*                                                                         *)
(* A record is its time and whether it passes the filters of the query; a  *)
(* message is a partition and an offset.  Records are taken one at a time: *)
(* a poll returns them partition by partition in any mixture and never     *)
(* more than the query may still scan, so a batch is a sequence of such    *)
(* steps.  (A name that starts with Fault_ is a seeded fault: see          *)
(* PROJECT.json.)                                                          *)
(***************************************************************************)
EXTENDS Integers, Sequences, FiniteSets

CONSTANTS Partitions,     (* partition numbers                               *)
          Modes,          (* modes asked for                                 *)
          Limits,         (* values of limit asked for                       *)
          ScanLimits,     (* values of scanLimit asked for                   *)
          Offsets,        (* values of offset asked for                      *)
          Times,          (* values of timestamp asked for                   *)
          DefaultLimit,   (* 100                                             *)
          MaxLimit,       (* 500                                             *)
          DefaultScan,    (* 5000                                            *)
          MaxScan,        (* 50000                                           *)
          PerMilli,       (* records produced in one millisecond             *)
          MaxRecords,     (* bound on records                                *)
          MaxDeletions    (* bound on what retention deletes                 *)

All == -1
Unresolved == -1

ASSUME QueryAssumption ==
  /\ Partitions \subseteq Nat /\ IsFiniteSet(Partitions)
  /\ Modes \subseteq {"earliest", "latest", "offset", "timestamp", "live"}
  /\ Limits \cup ScanLimits \cup Offsets \cup Times \subseteq Int
  /\ DefaultLimit \in 1..MaxLimit /\ MaxLimit \in Nat
  /\ DefaultScan \in 1..MaxScan /\ MaxScan \in Nat
  /\ PerMilli \in Nat \ {0}
  /\ MaxRecords \in Nat /\ MaxDeletions \in Nat

VARIABLES
  log,        (* the records of each partition, the first at offset 0        *)
  start,      (* the first offset of each partition that still exists        *)
  produced,   (* records appended so far                                     *)
  at,         (* where the query is                                          *)
  query,      (* the validated Query                                         *)
  from,       (* the offsets resolveOffset has found                         *)
  ends,       (* the ends of the partitions at that moment                   *)
  position,   (* the next offset the consumer reads                          *)
  seen,       (* the messages scanned                                        *)
  items,      (* the messages collected, or sent to the browser              *)
  gaveUp      (* it ended on an empty poll although there was more to read   *)

topic == <<log, start, produced>>
qvars == <<topic, at, query, from, ends, position, seen, items, gaveUp>>

Record  == [time : Nat, match : BOOLEAN]
Query   == [mode : Modes, partition : Partitions \cup {All}, where : Nat, filtered : BOOLEAN,
            limit : 1..MaxLimit, scan : 1..(IF MaxScan > MaxLimit THEN MaxScan ELSE MaxLimit)]
Offset  == 0..MaxRecords
NoQuery == [mode |-> "none"]

TypeOK ==
  /\ log \in [Partitions -> Seq(Record)]
  /\ start \in [Partitions -> Offset]
  /\ produced \in 0..MaxRecords
  /\ at \in {"idle", "resolving", "polling", "done", "failed"}
  /\ query \in Query \cup {NoQuery}
  /\ from \in [Partitions -> Int] /\ ends \in [Partitions -> Offset]
  /\ position \in [Partitions -> Offset]
  /\ seen \subseteq Partitions \X Offset
  /\ items \subseteq seen
  /\ gaveUp \in BOOLEAN

Init ==
  /\ log = [p \in Partitions |-> <<>>] /\ start = [p \in Partitions |-> 0]
  /\ produced = 0
  /\ at = "idle" /\ query = NoQuery
  /\ from = [p \in Partitions |-> Unresolved] /\ ends = [p \in Partitions |-> 0]
  /\ position = [p \in Partitions |-> 0]
  /\ seen = {} /\ items = {}
  /\ gaveUp = FALSE

End(p) == Len(log[p])
RecordOf(m) == log[m[1]][m[2] + 1]

-----------------------------------------------------------------------------
(* The topic: producers and the broker's retention.                        *)

Produce(p, match) ==
  /\ produced < MaxRecords
  /\ produced' = produced + 1
  /\ log' = [log EXCEPT ![p] = Append(@, [time |-> produced \div PerMilli, match |-> match])]
  /\ UNCHANGED <<start, at, query, from, ends, position, seen, items, gaveUp>>

Retention(p) ==
  /\ start[p] < End(p) /\ start[p] < MaxDeletions
  /\ start' = [start EXCEPT ![p] = @ + 1]
  /\ UNCHANGED <<log, produced, at, query, from, ends, position, seen, items, gaveUp>>

-----------------------------------------------------------------------------
(* validateQuery                                                           *)

Acceptable(q) ==
  /\ q.mode = "offset" => q.offset >= 0
  /\ q.mode = "timestamp" => q.time > 0
  /\ q.scan <= MaxScan

Fault_LimitUncapped(limit) == IF limit < 1 THEN DefaultLimit ELSE limit
CappedLimit(limit) ==
  IF limit < 1 THEN DefaultLimit ELSE IF limit > MaxLimit THEN MaxLimit ELSE limit

(* Without content filters there is nothing to scan beyond the limit.      *)
Validated(q) ==
  LET limit == CappedLimit(q.limit)
  IN [mode |-> q.mode, partition |-> q.partition, filtered |-> q.filtered, limit |-> limit,
      where |-> CASE q.mode = "offset" -> q.offset [] q.mode = "timestamp" -> q.time
                  [] OTHER -> 0,
      scan |-> IF ~ q.filtered THEN limit ELSE IF q.scan < 1 THEN DefaultScan ELSE q.scan]

Ask(q) ==
  /\ at = "idle"
  /\ Acceptable(q)
  /\ query' = Validated(q)
  /\ at' = "resolving"
  /\ UNCHANGED <<topic, from, ends, position, seen, items, gaveUp>>

Live == query.mode = "live"
Latest == query.mode = "latest"

(* The partitions ListTopics returned, or the one asked for.               *)
Assigned == IF query.partition = All THEN Partitions ELSE {query.partition}

Matching(m) == query.filtered => RecordOf(m).match

-----------------------------------------------------------------------------
(* resolveOffset, one partition after the other.                           *)

(* The first offset whose record is not older than t, or the end.          *)
After(p, t) ==
  LET late == {o \in start[p]..(End(p) - 1) : RecordOf(<<p, o>>).time >= t}
  IN IF late = {} THEN End(p) ELSE CHOOSE o \in late : \A other \in late : o <= other

Resolved(p) ==
  CASE query.mode = "offset"    -> query.where
    [] query.mode = "earliest"  -> start[p]
    [] query.mode = "timestamp" -> After(p, query.where)
    [] Live                     -> End(p)
    [] Latest -> IF End(p) < query.scan THEN 0 ELSE End(p) - query.scan

Resolve(p) ==
  /\ at = "resolving"
  /\ p \in Assigned
  /\ from[p] = Unresolved
  /\ from' = [from EXCEPT ![p] = Resolved(p)]
  /\ ends' = [ends EXCEPT ![p] = End(p)]
  /\ UNCHANGED <<topic, at, query, position, seen, items, gaveUp>>

(* The consumer of an offset that is out of range starts with the nearest  *)
(* one.                                                                    *)
Nearest(p, offset) ==
  IF offset < start[p] THEN start[p] ELSE IF offset > End(p) THEN End(p) ELSE offset

Open ==
  /\ at = "resolving"
  /\ \A p \in Assigned : from[p] # Unresolved
  /\ position' = [p \in Partitions |-> IF p \in Assigned THEN Nearest(p, from[p]) ELSE 0]
  /\ at' = "polling"
  /\ UNCHANGED <<topic, query, from, ends, seen, items, gaveUp>>

-----------------------------------------------------------------------------
(* recordCollector                                                         *)

Scanned == Cardinality(seen)
Matched == Cardinality({m \in seen : Matching(m)})

(* recordNewer: a total order of messages.                                 *)
Newer(m, n) ==
  LET r == RecordOf(m)
      s == RecordOf(n)
  IN \/ r.time > s.time
     \/ r.time = s.time /\ m[1] > n[1]
     \/ r.time = s.time /\ m[1] = n[1] /\ m[2] > n[2]

(* The newest of the scanned messages are wanted, not the first.           *)
KeepsNewest == Latest /\ query.filtered

(* done; a stream is never done.                                           *)
Fault_EnoughAtLimit == ~ Live /\ (Scanned >= query.scan \/ Cardinality(items) >= query.limit)
Fault_EnoughEvenLive ==
  Scanned >= query.scan \/ (~ KeepsNewest /\ Cardinality(items) >= query.limit)
Enough == /\ ~ Live
          /\ \/ Scanned >= query.scan
             \/ ~ KeepsNewest /\ Cardinality(items) >= query.limit

(* The item that gives way to a newer one.                                 *)
Fault_NewestItem == CHOOSE m \in items : \A n \in items : n # m => Newer(m, n)
OldestItem == CHOOSE m \in items : \A n \in items : n # m => Newer(n, m)

(* The items once message m has been added.                                *)
Collected(m) ==
  IF ~ Matching(m) THEN items
  ELSE IF KeepsNewest /\ Cardinality(items) >= query.limit
    THEN IF Newer(m, OldestItem) THEN (items \ {OldestItem}) \cup {m} ELSE items
    ELSE items \cup {m}

(* The next message of a partition, past what retention has deleted.       *)
Next1(p) == IF position[p] < start[p] THEN start[p] ELSE position[p]
Unread == {p \in Assigned : Next1(p) < End(p)}

Take(p) ==
  /\ at = "polling" /\ p \in Unread
  /\ ~ Enough
  /\ LET m == <<p, Next1(p)>>
     IN seen' = seen \cup {m} /\ items' = Collected(m)
  /\ position' = [position EXCEPT ![p] = Next1(p) + 1]
  /\ UNCHANGED <<topic, at, query, from, ends, gaveUp>>

(* A query ends when it has enough, or when nothing came for 1.2 seconds:  *)
(* there is nothing left, or the brokers are slow.                         *)
Finish ==
  /\ at = "polling" /\ ~ Live
  /\ at' = "done"
  /\ gaveUp' = (~ Enough /\ Unread # {})
  /\ UNCHANGED <<topic, query, from, ends, position, seen, items>>

(* Any request to the brokers fails, the browser goes away, or a record    *)
(* cannot be sent to it.                                                   *)
Fail ==
  /\ at \in {"resolving", "polling"}
  /\ at' = "failed"
  /\ UNCHANGED <<topic, query, from, ends, position, seen, items, gaveUp>>

Fault_ResultLimitedAbove == Matched > query.limit
ResultLimited == IF KeepsNewest THEN Matched > Cardinality(items)
                                ELSE Matched >= query.limit
ScanLimited == Scanned >= query.scan

Asked == [mode : Modes, partition : Partitions \cup {All}, filtered : BOOLEAN,
          limit : Limits, scan : ScanLimits, offset : Offsets, time : Times]

Next ==
  \/ \E p \in Partitions : \/ \E match \in BOOLEAN : Produce(p, match)
                           \/ Retention(p) \/ Resolve(p) \/ Take(p)
  \/ \E q \in Asked : Ask(q)
  \/ Open \/ Finish \/ Fail

Spec == Init /\ [][Next]_qvars

(* The consumer of a stream keeps polling every partition.                 *)
FairSpec == Spec /\ \A p \in Partitions : WF_qvars(Take(p))

-----------------------------------------------------------------------------
(* The matching messages there were when the query looked for its start,   *)
(* from there on, and that retention has not deleted since.                *)
Eligible == {m \in Partitions \X Offset :
               /\ m[1] \in Assigned /\ from[m[1]] # Unresolved
               /\ m[2] >= from[m[1]] /\ m[2] < ends[m[1]] /\ m[2] >= start[m[1]]
               /\ Matching(m)}
Answered == at = "done" /\ ~ gaveUp
OmitsOnlyOlder == \A m \in Eligible \ items, kept \in items : Newer(kept, m)

(* Whatever order the partitions answer in, a filtered query for the       *)
(* latest messages holds exactly the newest matches it has scanned.        *)
NewestMatchesKept ==
  at # "idle" /\ KeepsNewest =>
    LET matches == {m \in seen : Matching(m)}
    IN /\ \A m \in matches \ items, kept \in items : Newer(kept, m)
       /\ items = matches \/ Cardinality(items) = query.limit

(* A query that reports neither limit has left out no matching message:    *)
(* appends and deletions in the meantime make it skip nothing.             *)
CompleteUnlessLimited ==
  Answered /\ ~ ResultLimited /\ ~ ScanLimited => Eligible \subseteq items

(* The latest messages of one partition are its newest ones, and as many   *)
(* as were asked for if there are that many in the window.                 *)
LatestOfPartition ==
  Answered /\ Latest /\ Cardinality(Assigned) = 1 =>
    /\ OmitsOnlyOlder
    /\ Eligible \subseteq items \/ Cardinality(items) = query.limit

(* What the page says of a query for the latest messages of all            *)
(* partitions: it loads the most recent ones.                              *)
LatestOfTopic == Answered /\ Latest => OmitsOnlyOlder

(* A stream delivers every matching record appended since it began, until  *)
(* it breaks off or retention is faster.                                   *)
StreamDelivers ==
  \A p \in Partitions, o \in Offset :
    (at = "polling" /\ Live /\ p \in Assigned /\ o >= from[p] /\ o < End(p) /\ Matching(<<p, o>>))
      ~> (<<p, o>> \in items \/ at = "failed" \/ o < start[p])
=============================================================================
