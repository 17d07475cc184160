------------------------ MODULE MessageQuery_proofs ------------------------
(***************************************************************************)
(* Proofs about MessageQuery, for every number of partitions, limit, scan  *)
(* limit and bound on records and deletions.                               *)
(***************************************************************************)
EXTENDS MessageQuery, InductionLemmas, FiniteSetTheorems, TLAPS

(* A query was validated, and has scanned nothing before it is opened.     *)
Validity ==
  /\ at # "idle" => /\ query \in Query
                    /\ ~ query.filtered => query.scan = query.limit
  /\ at \in {"idle", "resolving"} => seen = {}
  /\ at = "idle" => \A p \in Partitions : from[p] = Unresolved

(* The offsets of a partition.                                             *)
Placed(p) ==
  /\ Len(log[p]) <= produced
  /\ start[p] <= End(p) /\ position[p] <= End(p) /\ ends[p] <= End(p)
  /\ from[p] \in Nat \cup {Unresolved}

(* What has been scanned lies before the position of its partition.        *)
Scanning ==
  /\ IsFiniteSet(seen)
  /\ \A m \in seen : m[1] \in Assigned /\ m[2] < position[m[1]]

(* Nothing is skipped between the start of the query and its position,     *)
(* except what retention has deleted.                                      *)
Contiguous ==
  at \in {"polling", "done"} =>
    \A p \in Assigned :
      /\ from[p] # Unresolved
      /\ \A o \in Offset : from[p] <= o /\ start[p] <= o /\ o < position[p] => <<p, o>> \in seen

(* A query for the latest messages begins no more than its scan limit      *)
(* before the end, and scans nothing before that.                          *)
Window ==
  at # "idle" /\ Latest =>
    /\ \A p \in Assigned : from[p] # Unresolved => from[p] <= ends[p] /\ ends[p] - from[p] <= query.scan
    /\ \A m \in seen : from[m[1]] <= m[2]
    /\ at \in {"polling", "done"} => \A p \in Assigned : from[p] <= position[p]

(* The collector.                                                          *)
Matches == {m \in seen : Matching(m)}
Collecting ==
  at # "idle" => /\ items \subseteq Matches
                 /\ ~ KeepsNewest => items = Matches
                 /\ KeepsNewest => Cardinality(items) <= query.limit

(* A query that did not give up has enough, or has read everything there   *)
(* was.                                                                    *)
Ended ==
  at = "done" /\ ~ gaveUp =>
    \/ Enough
    \/ \A p \in Assigned : position[p] >= ends[p] \/ start[p] >= ends[p]

QueryInv == /\ TypeOK /\ Validity /\ Scanning /\ Contiguous /\ Window
            /\ Collecting /\ NewestMatchesKept /\ Ended
            /\ \A p \in Partitions : Placed(p)

-----------------------------------------------------------------------------
(* recordNewer is a total order of the messages that exist.                *)

(* The messages of the log.                                                *)
Stored(m) == m \in Partitions \X Nat /\ RecordOf(m) \in Record

LEMMA NewerIsTotal ==
  ASSUME NEW m, NEW n, Stored(m), Stored(n), m # n
  PROVE  Newer(m, n) \/ Newer(n, m)
<1>1. /\ m = <<m[1], m[2]>> /\ n = <<n[1], n[2]>>
      /\ m[1] \in Nat /\ n[1] \in Nat /\ m[2] \in Nat /\ n[2] \in Nat
  <2>1. Partitions \subseteq Nat
    BY QueryAssumption
  <2>2. m \in Nat \X Nat /\ n \in Nat \X Nat
    BY <2>1 DEF Stored
  <2>3. QED
    BY <2>2
<1>2. RecordOf(m).time \in Nat /\ RecordOf(n).time \in Nat
  BY DEF Stored, Record
<1>3. m[1] # n[1] \/ m[2] # n[2]
  BY <1>1
<1>4. QED
  BY <1>1, <1>2, <1>3 DEF Newer

LEMMA NewerIsTransitive ==
  ASSUME NEW m, NEW n, NEW o, Stored(m), Stored(n), Stored(o), Newer(m, n), Newer(n, o)
  PROVE  Newer(m, o)
<1>1. /\ m[1] \in Nat /\ n[1] \in Nat /\ o[1] \in Nat
      /\ m[2] \in Nat /\ n[2] \in Nat /\ o[2] \in Nat
  BY QueryAssumption DEF Stored
<1>2. RecordOf(m).time \in Nat /\ RecordOf(n).time \in Nat /\ RecordOf(o).time \in Nat
  BY DEF Stored, Record
<1>3. QED
  BY <1>1, <1>2 DEF Newer

(* The item that gives way is one of the items, and all others are newer.  *)
LEMMA OldestIsOldest ==
  ASSUME IsFiniteSet(items), items # {}, \A m \in items : Stored(m)
  PROVE  OldestItem \in items /\ \A n \in items : n # OldestItem => Newer(n, OldestItem)
<1> DEFINE R == {ss \in items \X items : Newer(ss[1], ss[2])}
<1>1. \A x, y \in items : <<x, y>> \in R <=> Newer(x, y)
  OBVIOUS
<1> HIDE DEF R
<1>2. \A x, y \in items : x # y => <<x, y>> \in R \/ <<y, x>> \in R
  BY <1>1, NewerIsTotal
<1>3. \A x, y, z \in items : <<x, y>> \in R /\ <<y, z>> \in R => <<x, z>> \in R
  BY <1>1, NewerIsTransitive
<1>4. PICK x \in items : \A y \in items : y # x => <<y, x>> \in R
  BY <1>2, <1>3, LastOfFinite
<1>5. \A y \in items : y # x => Newer(y, x)
  BY <1>1, <1>4
<1>6. \E m \in items : \A n \in items : n # m => Newer(n, m)
  BY <1>5
<1>7. QED
  BY <1>6, Zenon DEF OldestItem

-----------------------------------------------------------------------------
(* The messages that were scanned, and the invariant at the start.         *)

(* What has been scanned is in the log.                                    *)
LEMMA StoredSeen ==
  ASSUME QueryInv, at # "idle", NEW m \in seen
  PROVE  Stored(m) /\ m[1] \in Partitions /\ m[2] \in Nat /\ m[2] < End(m[1])
<1>1. m \in Partitions \X Nat /\ m[1] \in Partitions /\ m[2] \in Nat /\ m[2] < position[m[1]]
  BY DEF QueryInv, TypeOK, Scanning, Offset
<1>2. m[2] + 1 \in 1..End(m[1]) /\ m[2] < End(m[1])
  <2>1. position[m[1]] <= End(m[1]) /\ position[m[1]] \in Nat /\ End(m[1]) \in Nat
    BY <1>1 DEF QueryInv, TypeOK, Placed, End, Offset
  <2>2. QED
    BY <1>1, <2>1
<1>3. log[m[1]] \in Seq(Record)
  BY <1>1 DEF QueryInv, TypeOK
<1>4. RecordOf(m) \in Record
  BY <1>2, <1>3 DEF RecordOf, End
<1>5. QED
  BY <1>1, <1>2, <1>4 DEF Stored

LEMMA QueryInit ==
  ASSUME Init
  PROVE  QueryInv
<1> USE DEF Init
<1>1. TypeOK
  <2>1. MaxRecords \in Nat /\ 0 \in Offset /\ -1 \in Int
    BY QueryAssumption DEF Offset
  <2>2. log \in [Partitions -> Seq(Record)] /\ from \in [Partitions -> Int]
    BY <2>1 DEF Unresolved
  <2>3. /\ start \in [Partitions -> Offset] /\ ends \in [Partitions -> Offset]
        /\ position \in [Partitions -> Offset]
    BY <2>1
  <2>4. QED
    BY <2>1, <2>2, <2>3 DEF TypeOK, Offset
<1>2. \A p \in Partitions : Placed(p)
  BY DEF Placed, End
<1>3. Scanning
  BY FS_EmptySet DEF Scanning
<1>4. Validity /\ Contiguous /\ Window /\ Collecting /\ NewestMatchesKept /\ Ended
  BY DEF Validity, Contiguous, Window, Collecting, NewestMatchesKept, Ended
<1>5. QED
  BY <1>1, <1>2, <1>3, <1>4 DEF QueryInv

-----------------------------------------------------------------------------
(* What a step leaves to the collector.                                    *)

(* A step that scans nothing and changes no scanned record keeps what has  *)
(* been collected.                                                         *)
LEMMA CollectionKept ==
  ASSUME QueryInv, UNCHANGED <<query, seen, items>>, at # "idle" \/ at' = "idle",
         \A m \in seen : RecordOf(m)' = RecordOf(m)
  PROVE  Collecting' /\ NewestMatchesKept'
<1>1. KeepsNewest' = KeepsNewest
  BY DEF KeepsNewest, Latest
<1>2. \A m \in seen : Matching(m)' <=> Matching(m)
  BY DEF Matching
<1>3. Matches' = Matches
  BY <1>2 DEF Matches
<1>4. items \subseteq seen
  BY DEF QueryInv, TypeOK
<1>5. \A m, n \in seen : Newer(m, n)' <=> Newer(m, n)
  <2> SUFFICES ASSUME NEW m \in seen, NEW n \in seen PROVE Newer(m, n)' <=> Newer(m, n)
    OBVIOUS
  <2>1. RecordOf(m)' = RecordOf(m) /\ RecordOf(n)' = RecordOf(n)
    OBVIOUS
  <2>2. QED
    BY <2>1, Zenon DEF Newer
<1>6. Collecting'
  BY <1>1, <1>3 DEF QueryInv, Collecting
<1>7. NewestMatchesKept'
  <2> SUFFICES ASSUME at' # "idle", KeepsNewest'
               PROVE  /\ \A m \in Matches' \ items', kept \in items' : Newer(kept, m)'
                      /\ items' = Matches' \/ (Cardinality(items) = query.limit)'
    BY DEF NewestMatchesKept, Matches
  <2>1. /\ \A m \in Matches \ items, kept \in items : Newer(kept, m)
        /\ items = Matches \/ Cardinality(items) = query.limit
    BY <1>1 DEF QueryInv, NewestMatchesKept, Matches
  <2>2. \A m \in Matches \ items, kept \in items : Newer(kept, m)'
    <3> SUFFICES ASSUME NEW m \in Matches \ items, NEW kept \in items PROVE Newer(kept, m)'
      OBVIOUS
    <3>1. m \in seen /\ kept \in seen
      BY <1>4 DEF Matches
    <3>2. QED
      BY <1>5, <2>1, <3>1
  <2>3. QED
    BY <1>3, <2>1, <2>2
<1>8. QED
  BY <1>6, <1>7

(* While the records stay, so does each of them.                           *)
LEMMA RecordsKept ==
  ASSUME log' = log
  PROVE  \A m : RecordOf(m)' = RecordOf(m)
BY DEF RecordOf

-----------------------------------------------------------------------------
(* The topic.                                                              *)

LEMMA ProduceKeeps ==
  ASSUME QueryInv, NEW p \in Partitions, NEW match \in BOOLEAN, Produce(p, match)
  PROVE  QueryInv'
<1> DEFINE r == [time |-> produced \div PerMilli, match |-> match]
<1>0. /\ UNCHANGED <<start, at, query, from, ends, position, seen, items, gaveUp>>
      /\ log' = [log EXCEPT ![p] = Append(@, r)] /\ produced' = produced + 1
      /\ produced < MaxRecords
  BY DEF Produce
<1>1. r \in Record
  <2>1. produced \in Nat /\ PerMilli \in Nat \ {0}
    BY QueryAssumption DEF QueryInv, TypeOK
  <2>2. produced \div PerMilli \in Nat
    BY <2>1
  <2>3. QED
    BY <2>2 DEF Record
<1>2. log \in [Partitions -> Seq(Record)] /\ produced \in 0..MaxRecords /\ MaxRecords \in Nat
  BY QueryAssumption DEF QueryInv, TypeOK
<1> HIDE DEF r
<1>3. log' \in [Partitions -> Seq(Record)] /\ log'[p] = Append(log[p], r)
  BY <1>0, <1>1, <1>2
<1>4. \A q \in Partitions : q # p => log'[q] = log[q]
  BY <1>0, <1>2
<1>5. Len(log'[p]) = Len(log[p]) + 1 /\ Len(log[p]) \in Nat
  BY <1>2, <1>3
<1>6. \A q \in Partitions : Len(log[q]) \in Nat /\ Len(log'[q]) \in Nat
                            /\ Len(log[q]) <= Len(log'[q]) /\ Len(log'[q]) <= Len(log[q]) + 1
  <2> SUFFICES ASSUME NEW q \in Partitions
               PROVE  Len(log[q]) \in Nat /\ Len(log'[q]) \in Nat
                      /\ Len(log[q]) <= Len(log'[q]) /\ Len(log'[q]) <= Len(log[q]) + 1
    OBVIOUS
  <2>1. Len(log[q]) \in Nat /\ Len(log'[q]) \in Nat
    BY <1>2, <1>3
  <2>2. CASE q = p
    BY <1>5, <2>1, <2>2
  <2>3. CASE q # p
    BY <1>4, <2>1, <2>3
  <2>4. QED
    BY <2>2, <2>3
<1>7. TypeOK'
  <2>1. produced' \in 0..MaxRecords
    BY <1>0, <1>2
  <2>2. QED
    BY <1>0, <1>3, <2>1 DEF QueryInv, TypeOK
<1>8. \A q \in Partitions : Placed(q)'
  <2> SUFFICES ASSUME NEW q \in Partitions PROVE Placed(q)'
    OBVIOUS
  <2>1. /\ start[q] \in Nat /\ position[q] \in Nat /\ ends[q] \in Nat /\ produced \in Nat
        /\ Placed(q)
    BY DEF QueryInv, TypeOK, Offset
  <2>2. QED
    BY <1>0, <1>6, <2>1 DEF Placed, End
<1>9. \A m \in seen : RecordOf(m)' = RecordOf(m)
  <2> SUFFICES ASSUME NEW m \in seen PROVE RecordOf(m)' = RecordOf(m)
    OBVIOUS
  <2>1. at # "idle"
    BY DEF QueryInv, Validity
  <2>2. m[1] \in Partitions /\ m[2] \in Nat /\ m[2] < Len(log[m[1]])
    BY <2>1, StoredSeen DEF End
  <2>3. CASE m[1] = p
    <3>1. m[2] + 1 \in 1..Len(log[p])
      BY <1>5, <2>2, <2>3
    <3>2. Append(log[p], r)[m[2] + 1] = log[p][m[2] + 1]
      BY <1>2, <3>1
    <3>3. QED
      BY <1>3, <2>3, <3>2 DEF RecordOf
  <2>4. CASE m[1] # p
    BY <1>4, <2>2, <2>4 DEF RecordOf
  <2>5. QED
    BY <2>3, <2>4
<1>10. Collecting' /\ NewestMatchesKept'
  BY <1>0, <1>9, CollectionKept
<1>11. Validity' /\ Scanning' /\ Contiguous' /\ Window'
  BY <1>0 DEF QueryInv, Validity, Scanning, Contiguous, Window, Assigned, Latest
<1>12. Ended'
  BY <1>0 DEF QueryInv, Ended, Enough, Live, Scanned, KeepsNewest, Latest, Assigned
<1>13. QED
  BY <1>7, <1>8, <1>10, <1>11, <1>12 DEF QueryInv

LEMMA RetentionKeeps ==
  ASSUME QueryInv, NEW p \in Partitions, Retention(p)
  PROVE  QueryInv'
<1>0. /\ UNCHANGED <<log, produced, at, query, from, ends, position, seen, items, gaveUp>>
      /\ start' = [start EXCEPT ![p] = @ + 1] /\ start[p] < End(p)
  BY DEF Retention
<1>1. \A q \in Partitions : /\ start[q] \in Nat /\ End(q) \in Nat /\ End(q) <= MaxRecords
                            /\ End(q)' = End(q) /\ start[q] <= End(q)
  <2>1. \A q \in Partitions : Len(log[q]) \in Nat /\ start[q] \in Nat
    BY DEF QueryInv, TypeOK, Offset
  <2>2. produced \in 0..MaxRecords /\ MaxRecords \in Nat
    BY QueryAssumption DEF QueryInv, TypeOK
  <2>3. \A q \in Partitions : Len(log[q]) <= produced /\ start[q] <= Len(log[q])
    BY DEF QueryInv, Placed, End
  <2>4. \A q \in Partitions : Len(log[q]) <= MaxRecords
    <3> SUFFICES ASSUME NEW q \in Partitions PROVE Len(log[q]) <= MaxRecords
      OBVIOUS
    <3>1. QED
      BY <2>1, <2>2, <2>3
  <2>5. QED
    BY <1>0, <2>1, <2>3, <2>4 DEF End
<1>2. \A q \in Partitions : start'[q] \in Nat /\ start[q] <= start'[q] /\ start'[q] <= End(q)
  <2> SUFFICES ASSUME NEW q \in Partitions
               PROVE  start'[q] \in Nat /\ start[q] <= start'[q] /\ start'[q] <= End(q)
    OBVIOUS
  <2>1. start \in [Partitions -> Offset]
    BY DEF QueryInv, TypeOK
  <2>2. CASE q = p
    BY <1>0, <1>1, <2>1, <2>2
  <2>3. CASE q # p
    BY <1>0, <1>1, <2>1, <2>3
  <2>4. QED
    BY <2>2, <2>3
<1>3. TypeOK'
  <2>1. start' \in [Partitions -> Offset]
    <3>1. \A q \in Partitions : start'[q] \in Offset
      BY <1>1, <1>2, QueryAssumption DEF Offset
    <3>2. start \in [Partitions -> Offset]
      BY DEF QueryInv, TypeOK
    <3>3. QED
      BY <1>0, <3>1, <3>2
  <2>2. QED
    BY <1>0, <2>1 DEF QueryInv, TypeOK
<1>4. \A q \in Partitions : Placed(q)'
  BY <1>0, <1>1, <1>2 DEF QueryInv, Placed, End
<1>5. Collecting' /\ NewestMatchesKept'
  BY <1>0, CollectionKept, RecordsKept
<1>6. Validity' /\ Scanning' /\ Window'
  BY <1>0 DEF QueryInv, Validity, Scanning, Window, Assigned, Latest
<1>6a. at # "idle" => Assigned' = Assigned /\ Assigned \subseteq Partitions
  BY <1>0 DEF QueryInv, Validity, Query, Assigned
<1>7. Contiguous'
  <2> SUFFICES ASSUME at' \in {"polling", "done"}, NEW q \in Assigned'
               PROVE  /\ from'[q] # Unresolved
                      /\ \A o \in Offset : from'[q] <= o /\ start'[q] <= o /\ o < position'[q]
                                             => <<q, o>> \in seen'
    BY DEF Contiguous
  <2>1. q \in Assigned /\ q \in Partitions
    BY <1>0, <1>6a
  <2>2. /\ from[q] # Unresolved
        /\ \A o \in Offset : from[q] <= o /\ start[q] <= o /\ o < position[q] => <<q, o>> \in seen
    BY <1>0, <2>1 DEF QueryInv, Contiguous
  <2>3. \A o \in Offset : start'[q] <= o => start[q] <= o
    BY <1>1, <1>2, <2>1, QueryAssumption DEF Offset
  <2>4. QED
    BY <1>0, <2>2, <2>3
<1>8. Ended'
  <2> SUFFICES ASSUME at' = "done", ~ gaveUp', ~ Enough'
               PROVE  \A q \in Assigned' : position'[q] >= ends'[q] \/ start'[q] >= ends'[q]
    BY DEF Ended
  <2>1. ~ Enough
    BY <1>0 DEF Enough, Live, Scanned, KeepsNewest, Latest
  <2>2. TAKE q \in Assigned'
  <2>3. q \in Assigned /\ q \in Partitions
    BY <1>0, <1>6a
  <2>4. position[q] >= ends[q] \/ start[q] >= ends[q]
    BY <1>0, <2>1, <2>3 DEF QueryInv, Ended
  <2>5. ends[q] \in Nat
    BY <2>3 DEF QueryInv, TypeOK, Offset
  <2>6. QED
    BY <1>0, <1>1, <1>2, <2>3, <2>4, <2>5
<1>9. QED
  BY <1>3, <1>4, <1>5, <1>6, <1>7, <1>8 DEF QueryInv

-----------------------------------------------------------------------------
(* The query is validated, its start is found, and it is opened.           *)

LEMMA QueryFields ==
  ASSUME NEW M, NEW P, NEW L, NEW S, NEW mode \in M, NEW partition \in P, NEW where \in Nat,
         NEW filtered \in BOOLEAN, NEW limit \in L, NEW scan \in S
  PROVE  LET q == [mode |-> mode, partition |-> partition, filtered |-> filtered,
                   limit |-> limit, where |-> where, scan |-> scan]
         IN /\ q \in [mode : M, partition : P, where : Nat, filtered : BOOLEAN,
                      limit : L, scan : S]
            /\ q.filtered = filtered /\ q.limit = limit /\ q.scan = scan
OBVIOUS

LEMMA AskedIsValid ==
  ASSUME NEW q \in Asked, Acceptable(q)
  PROVE  Validated(q) \in Query /\ (~ Validated(q).filtered => Validated(q).scan = Validated(q).limit)
<1> DEFINE limit == CappedLimit(q.limit)
           where == CASE q.mode = "offset" -> q.offset [] q.mode = "timestamp" -> q.time
                      [] OTHER -> 0
           scan == IF ~ q.filtered THEN limit ELSE IF q.scan < 1 THEN DefaultScan ELSE q.scan
           most == IF MaxScan > MaxLimit THEN MaxScan ELSE MaxLimit
<1>1. /\ q.mode \in Modes /\ q.partition \in Partitions \cup {All} /\ q.filtered \in BOOLEAN
      /\ q.limit \in Limits /\ q.scan \in ScanLimits /\ q.offset \in Offsets /\ q.time \in Times
  BY DEF Asked
<1>2. q.limit \in Int /\ q.scan \in Int /\ q.offset \in Int /\ q.time \in Int
  BY <1>1, QueryAssumption
<1>3. /\ MaxLimit \in Nat /\ MaxScan \in Nat /\ DefaultLimit \in 1..MaxLimit
      /\ DefaultScan \in 1..MaxScan
  BY QueryAssumption
<1>4. limit \in 1..MaxLimit
  BY <1>2, <1>3 DEF CappedLimit
<1>5. where \in Nat
  <2>1. CASE q.mode = "offset"
    BY <1>2, <2>1 DEF Acceptable
  <2>2. CASE q.mode = "timestamp"
    BY <1>2, <2>2 DEF Acceptable
  <2>3. CASE q.mode # "offset" /\ q.mode # "timestamp"
    BY <2>3
  <2>4. QED
    BY <2>1, <2>2, <2>3
<1> HIDE DEF limit, where
<1>6. scan \in 1..most
  <2>1. q.scan <= MaxScan
    BY DEF Acceptable
  <2>2. CASE ~ q.filtered
    BY <1>3, <1>4, <2>2
  <2>3. CASE q.filtered
    BY <1>2, <1>3, <2>1, <2>3
  <2>4. QED
    BY <2>2, <2>3
<1>7. ~ q.filtered => scan = limit
  OBVIOUS
<1>8. Validated(q) = [mode |-> q.mode, partition |-> q.partition, filtered |-> q.filtered,
                      limit |-> limit, where |-> where, scan |-> scan]
  BY DEF Validated, limit, where
<1> HIDE DEF scan, most
<1>9. Query = [mode : Modes, partition : Partitions \cup {All}, where : Nat, filtered : BOOLEAN,
               limit : 1..MaxLimit, scan : 1..most]
  BY DEF Query, most
<1>10. /\ Validated(q) \in Query
       /\ Validated(q).filtered = q.filtered /\ Validated(q).limit = limit
       /\ Validated(q).scan = scan
  <2> DEFINE S == 1..most
             L == 1..MaxLimit
             P == Partitions \cup {All}
  <2>1. limit \in L /\ scan \in S /\ q.partition \in P
    BY <1>1, <1>4, <1>6
  <2>2. Query = [mode : Modes, partition : P, where : Nat, filtered : BOOLEAN, limit : L, scan : S]
    BY <1>9
  <2> HIDE DEF S, L, P
  <2>3. LET r == [mode |-> q.mode, partition |-> q.partition, filtered |-> q.filtered,
                  limit |-> limit, where |-> where, scan |-> scan]
        IN /\ r \in [mode : Modes, partition : P, where : Nat, filtered : BOOLEAN,
                     limit : L, scan : S]
           /\ r.filtered = q.filtered /\ r.limit = limit /\ r.scan = scan
    BY <1>1, <1>5, <2>1, QueryFields
  <2>4. QED
    BY <1>8, <2>2, <2>3, Zenon
<1>11. QED
  BY <1>7, <1>10

LEMMA AskKeeps ==
  ASSUME QueryInv, NEW q \in Asked, Ask(q)
  PROVE  QueryInv'
<1>0. /\ UNCHANGED <<log, start, produced, from, ends, position, seen, items, gaveUp>>
      /\ query' = Validated(q) /\ at = "idle" /\ at' = "resolving" /\ Acceptable(q)
  BY DEF Ask, topic
<1>1. query' \in Query /\ (~ query'.filtered => query'.scan = query'.limit)
  BY <1>0, AskedIsValid
<1>2. seen' = {} /\ items' = {}
  BY <1>0 DEF QueryInv, Validity, TypeOK
<1>3. TypeOK'
  BY <1>0, <1>1 DEF QueryInv, TypeOK
<1>4. \A p \in Partitions : Placed(p)'
  BY <1>0 DEF QueryInv, Placed, End
<1>5. Validity'
  BY <1>0, <1>1, <1>2 DEF Validity
<1>6. Scanning'
  BY <1>2, FS_EmptySet DEF Scanning
<1>7. Contiguous' /\ Ended'
  BY <1>0 DEF Contiguous, Ended
<1>8. Collecting' /\ NewestMatchesKept'
  <2>1. 1 <= query'.limit /\ Cardinality({}) = 0
    BY <1>1, FS_EmptySet, QueryAssumption DEF Query
  <2>2. Matches' = {} /\ Cardinality(items)' <= query'.limit
    <3>1. Cardinality(items)' = 0
      BY <1>2, FS_EmptySet
    <3>2. query'.limit \in Nat
      BY <1>1, QueryAssumption DEF Query
    <3>3. QED
      BY <1>2, <2>1, <3>1, <3>2 DEF Matches
  <2>3. Collecting'
    BY <1>2, <2>2 DEF Collecting
  <2>4. NewestMatchesKept'
    BY <1>2 DEF NewestMatchesKept
  <2>5. QED
    BY <2>3, <2>4
<1>9. Window'
  <2> SUFFICES ASSUME NEW p \in Assigned', from'[p] # Unresolved, Latest'
               PROVE  from'[p] <= ends'[p] /\ ends'[p] - from'[p] <= query'.scan
    BY <1>0, <1>2 DEF Window
  <2>1. FALSE
    <3>1. p \in Partitions
      BY <1>1 DEF Assigned, Query
    <3>2. QED
      BY <1>0, <3>1 DEF QueryInv, Validity
  <2>2. QED
    BY <2>1
<1>10. QED
  BY <1>3, <1>4, <1>5, <1>6, <1>7, <1>8, <1>9 DEF QueryInv

(* The partitions that are read are partitions of the topic.               *)
LEMMA AssignedExist ==
  ASSUME QueryInv, at # "idle"
  PROVE  Assigned \subseteq Partitions
BY DEF QueryInv, Validity, Query, Assigned

(* The ends of a partition's offsets.                                      *)
LEMMA PlacedOffsets ==
  ASSUME QueryInv, NEW p \in Partitions
  PROVE  /\ start[p] \in Nat /\ position[p] \in Nat /\ ends[p] \in Nat /\ End(p) \in Nat
         /\ start[p] <= End(p) /\ position[p] <= End(p) /\ ends[p] <= End(p)
         /\ End(p) <= MaxRecords /\ MaxRecords \in Nat /\ from[p] \in Nat \cup {Unresolved}
<1>1. start[p] \in Nat /\ position[p] \in Nat /\ ends[p] \in Nat /\ End(p) \in Nat
  BY DEF QueryInv, TypeOK, Offset, End
<1>2. start[p] <= End(p) /\ position[p] <= End(p) /\ ends[p] <= End(p) /\ Len(log[p]) <= produced
      /\ from[p] \in Nat \cup {Unresolved}
  BY DEF QueryInv, Placed
<1>3. produced \in 0..MaxRecords /\ MaxRecords \in Nat
  BY QueryAssumption DEF QueryInv, TypeOK
<1>4. End(p) <= MaxRecords
  BY <1>1, <1>2, <1>3 DEF End
<1>5. QED
  BY <1>1, <1>2, <1>3, <1>4

LEMMA ResolvedIsOffset ==
  ASSUME QueryInv, at # "idle", NEW p \in Assigned
  PROVE  /\ Resolved(p) \in Nat
         /\ Latest => Resolved(p) <= End(p) /\ End(p) - Resolved(p) <= query.scan
<1>1. /\ query \in Query /\ query.mode \in {"earliest", "latest", "offset", "timestamp", "live"}
      /\ query.where \in Nat
  BY QueryAssumption DEF QueryInv, Validity, Query
<1>2. query.scan \in Nat
  BY <1>1, QueryAssumption DEF Query
<1>3. start[p] \in Nat /\ End(p) \in Nat
  BY AssignedExist, PlacedOffsets
<1>4. CASE query.mode = "offset"
  BY <1>1, <1>4 DEF Resolved, Live, Latest
<1>5. CASE query.mode = "earliest"
  BY <1>3, <1>5 DEF Resolved, Latest
<1>6. CASE query.mode = "timestamp"
  <2> DEFINE late == {o \in start[p]..(End(p) - 1) : RecordOf(<<p, o>>).time >= query.where}
  <2>1. late \in SUBSET Nat
    BY <1>3
  <2>2. After(p, query.where) = IF late = {} THEN End(p)
                                ELSE CHOOSE o \in late : \A other \in late : o <= other
    BY DEF After
  <2> HIDE DEF late
  <2>3. After(p, query.where) \in Nat
    <3>1. CASE late = {}
      BY <1>3, <2>2, <3>1
    <3>2. CASE late # {}
      <4>1. \E o \in late : \A other \in late : o <= other
        BY <2>1, <3>2, LeastNatural
      <4>2. (CHOOSE o \in late : \A other \in late : o <= other) \in late
        BY <4>1, Zenon
      <4>3. QED
        BY <2>1, <2>2, <3>2, <4>2
    <3>3. QED
      BY <3>1, <3>2
  <2>4. QED
    <3>1. Resolved(p) = After(p, query.where)
      BY <1>6, Zenon DEF Resolved, Live, Latest
    <3>2. QED
      BY <1>6, <2>3, <3>1 DEF Latest
<1>7. CASE query.mode = "live"
  BY <1>3, <1>7 DEF Resolved, Latest, Live
<1>8. CASE query.mode = "latest"
  <2>1. Resolved(p) = IF End(p) < query.scan THEN 0 ELSE End(p) - query.scan
    BY <1>8 DEF Resolved, Latest, Live
  <2>2. QED
    BY <1>2, <1>3, <2>1
<1>9. QED
  BY <1>1, <1>4, <1>5, <1>6, <1>7, <1>8

LEMMA ResolveKeeps ==
  ASSUME QueryInv, NEW p \in Partitions, Resolve(p)
  PROVE  QueryInv'
<1>0. /\ UNCHANGED <<log, start, produced, at, query, position, seen, items, gaveUp>>
      /\ at = "resolving" /\ p \in Assigned
      /\ from' = [from EXCEPT ![p] = Resolved(p)] /\ ends' = [ends EXCEPT ![p] = End(p)]
  BY DEF Resolve, topic
<1>1. seen = {}
  BY <1>0 DEF QueryInv, Validity
<1>2. from \in [Partitions -> Int] /\ ends \in [Partitions -> Offset]
  BY DEF QueryInv, TypeOK
<1>3. /\ Resolved(p) \in Nat
      /\ Latest => Resolved(p) <= End(p) /\ End(p) - Resolved(p) <= query.scan
  BY <1>0, ResolvedIsOffset
<1>4. End(p) \in Offset
  BY PlacedOffsets DEF Offset
<1>5. TypeOK'
  <2>1. from' \in [Partitions -> Int] /\ ends' \in [Partitions -> Offset]
    BY <1>0, <1>2, <1>3, <1>4
  <2>2. QED
    BY <1>0, <2>1 DEF QueryInv, TypeOK
<1>6. \A q \in Partitions : Placed(q)'
  <2> SUFFICES ASSUME NEW q \in Partitions PROVE Placed(q)'
    OBVIOUS
  <2>1. Placed(q)
    BY DEF QueryInv
  <2>2. CASE q = p
    <3>1. from'[q] \in Nat /\ ends'[q] = End(q)
      BY <1>0, <1>2, <1>3, <2>2
    <3>2. End(q) \in Nat /\ End(q)' = End(q)
      BY <1>0, PlacedOffsets DEF End
    <3>3. QED
      BY <1>0, <2>1, <3>1, <3>2 DEF Placed
  <2>3. CASE q # p
    BY <1>0, <1>2, <2>1, <2>3 DEF Placed, End
  <2>4. QED
    BY <2>2, <2>3
<1>7. Validity' /\ Scanning'
  BY <1>0, <1>1 DEF QueryInv, Validity, Scanning
<1>8. Contiguous' /\ Ended'
  BY <1>0 DEF Contiguous, Ended
<1>9. Collecting' /\ NewestMatchesKept'
  BY <1>0, CollectionKept, RecordsKept
<1>10. Window'
  <2> SUFFICES ASSUME NEW q \in Assigned', from'[q] # Unresolved, Latest'
               PROVE  from'[q] <= ends'[q] /\ ends'[q] - from'[q] <= query'.scan
    BY <1>0, <1>1 DEF Window
  <2>1. q \in Assigned /\ q \in Partitions /\ Latest
    BY <1>0, AssignedExist DEF Assigned, Latest
  <2>2. CASE q = p
    BY <1>0, <1>2, <1>3, <2>1, <2>2
  <2>3. CASE q # p
    <3>1. from'[q] = from[q] /\ ends'[q] = ends[q]
      BY <1>0, <1>2, <2>1, <2>3
    <3>2. QED
      BY <1>0, <2>1, <3>1 DEF QueryInv, Window
  <2>4. QED
    BY <2>2, <2>3
<1>11. QED
  BY <1>5, <1>6, <1>7, <1>8, <1>9, <1>10 DEF QueryInv

LEMMA OpenKeeps ==
  ASSUME QueryInv, Open
  PROVE  QueryInv'
<1>0. /\ UNCHANGED <<log, start, produced, query, from, ends, seen, items, gaveUp>>
      /\ at = "resolving" /\ at' = "polling"
      /\ \A p \in Assigned : from[p] # Unresolved
      /\ position' = [p \in Partitions |-> IF p \in Assigned THEN Nearest(p, from[p]) ELSE 0]
  BY DEF Open, topic
<1>1. seen = {}
  BY <1>0 DEF QueryInv, Validity
<1>2. Assigned' = Assigned /\ Assigned \subseteq Partitions
  BY <1>0, AssignedExist DEF Assigned
<1>3. \A p \in Assigned : position'[p] = Nearest(p, from[p])
  BY <1>0, <1>2
<1>4. \A p \in Assigned : from[p] \in Nat
  BY <1>0, <1>2, PlacedOffsets
<1>5. \A p \in Assigned : /\ start[p] \in Nat /\ End(p) \in Nat /\ start[p] <= End(p)
                          /\ End(p) <= MaxRecords
  BY <1>2, PlacedOffsets
<1>6. \A p \in Assigned :
        /\ position'[p] \in Nat /\ position'[p] <= End(p)
        /\ from[p] <= position'[p] \/ End(p) < from[p]
        /\ \A o \in Nat : ~ (from[p] <= o /\ start[p] <= o /\ o < position'[p])
  BY <1>3, <1>4, <1>5 DEF Nearest
<1>7. \A p \in Partitions : position'[p] \in Offset /\ position'[p] <= End(p)
  <2> SUFFICES ASSUME NEW p \in Partitions PROVE position'[p] \in Offset /\ position'[p] <= End(p)
    OBVIOUS
  <2>1. End(p) \in Nat /\ End(p) <= MaxRecords /\ MaxRecords \in Nat
    BY PlacedOffsets
  <2>2. CASE p \in Assigned
    BY <1>6, <2>1, <2>2 DEF Offset
  <2>3. CASE p \notin Assigned
    BY <1>0, <2>1, <2>3 DEF Offset
  <2>4. QED
    BY <2>2, <2>3
<1>8. TypeOK'
  <2>1. position' \in [Partitions -> Offset]
    BY <1>0, <1>7
  <2>2. QED
    BY <1>0, <2>1 DEF QueryInv, TypeOK
<1>9. \A p \in Partitions : Placed(p)'
  BY <1>0, <1>7 DEF QueryInv, Placed, End
<1>10. Validity' /\ Scanning'
  BY <1>0, <1>1 DEF QueryInv, Validity, Scanning
<1>11. Collecting' /\ NewestMatchesKept'
  BY <1>0, CollectionKept, RecordsKept
<1>12. Contiguous'
  <2>1. \A o \in Offset : o \in Nat
    BY QueryAssumption DEF Offset
  <2>2. QED
    BY <1>0, <1>2, <1>6, <2>1 DEF Contiguous
<1>13. Window'
  <2> SUFFICES ASSUME Latest', NEW p \in Assigned'
               PROVE  /\ from'[p] <= ends'[p] /\ ends'[p] - from'[p] <= query'.scan
                      /\ from'[p] <= position'[p]
    BY <1>0, <1>1 DEF Window
  <2>1. p \in Assigned /\ p \in Partitions /\ Latest /\ from[p] # Unresolved
    BY <1>0, <1>2 DEF Latest
  <2>2. from[p] <= ends[p] /\ ends[p] - from[p] <= query.scan
    BY <1>0, <2>1 DEF QueryInv, Window
  <2>3. ends[p] \in Nat /\ ends[p] <= End(p) /\ End(p) \in Nat
    BY <2>1, PlacedOffsets
  <2>4. ~ (End(p) < from[p])
    BY <1>4, <2>1, <2>2, <2>3
  <2>5. QED
    BY <1>0, <1>6, <2>1, <2>2, <2>4
<1>14. Ended'
  BY <1>0 DEF Ended
<1>15. QED
  BY <1>8, <1>9, <1>10, <1>11, <1>12, <1>13, <1>14 DEF QueryInv

-----------------------------------------------------------------------------
(* recordCollector.                                                        *)

(* What a matching message that was not scanned before makes of the items  *)
(* of a query that keeps the newest.                                       *)
LEMMA CollectNewest ==
  ASSUME QueryInv, at # "idle", KeepsNewest, NEW m, m \notin seen, Stored(m), Matching(m)
  PROVE  /\ \A n \in (Matches \cup {m}) \ Collected(m), kept \in Collected(m) : Newer(kept, n)
         /\ Collected(m) = Matches \cup {m} \/ Cardinality(Collected(m)) = query.limit
         /\ Collected(m) \subseteq Matches \cup {m}
         /\ Cardinality(Collected(m)) <= query.limit
<1>1. /\ \A n \in Matches \ items, kept \in items : Newer(kept, n)
      /\ items = Matches \/ Cardinality(items) = query.limit
  BY DEF QueryInv, NewestMatchesKept, Matches
<1>2. items \subseteq Matches /\ Matches \subseteq seen /\ Cardinality(items) <= query.limit
  BY DEF QueryInv, Collecting, Matches
<1>3. IsFiniteSet(items) /\ Cardinality(items) \in Nat
  <2>1. IsFiniteSet(seen) /\ items \in SUBSET seen
    BY <1>2 DEF QueryInv, Scanning
  <2>2. QED
    BY <2>1, FS_Subset, FS_CardinalityType
<1>4. query.limit \in Nat \ {0}
  BY QueryAssumption DEF QueryInv, Validity, Query
<1>5. \A n \in seen : Stored(n)
  BY StoredSeen
<1>6. \A n \in Matches : Stored(n) /\ n # m
  BY <1>2, <1>5
<1>7. CASE Cardinality(items) < query.limit
  <2>1. Collected(m) = items \cup {m}
    BY <1>3, <1>4, <1>7 DEF Collected
  <2>2. items = Matches
    BY <1>1, <1>3, <1>4, <1>7
  <2>3. Cardinality(items \cup {m}) <= query.limit
    <3>1. Cardinality(items \cup {m}) = Cardinality(items) + 1
      BY <1>2, <1>3, FS_AddElement
    <3>2. QED
      BY <1>3, <1>4, <1>7, <3>1
  <2>4. QED
    BY <2>1, <2>2, <2>3
<1>8. CASE Cardinality(items) >= query.limit
  <2>1. Cardinality(items) = query.limit
    BY <1>2, <1>3, <1>4, <1>8
  <2>2. items # {}
    BY <1>4, <2>1, FS_EmptySet
  <2>3. /\ OldestItem \in items
        /\ \A n \in items : n # OldestItem => Newer(n, OldestItem)
    BY <1>2, <1>3, <1>6, <2>2, OldestIsOldest
  <2>4. Collected(m) = IF Newer(m, OldestItem) THEN (items \ {OldestItem}) \cup {m} ELSE items
    BY <1>8 DEF Collected
  <2> DEFINE o == OldestItem
  <2>5. o \in Matches /\ Stored(o) /\ o # m
    BY <1>2, <1>6, <2>3
  <2> HIDE DEF o
  <2>6. CASE Newer(m, o)
    <3>1. Collected(m) = (items \ {o}) \cup {m}
      BY <2>4, <2>6 DEF o
    <3>2. Cardinality(Collected(m)) = query.limit
      <4>1. IsFiniteSet(items \ {o}) /\ Cardinality(items \ {o}) = Cardinality(items) - 1
        BY <1>3, <2>3, FS_RemoveElement DEF o
      <4>2. m \notin items \ {o}
        BY <1>2
      <4>3. Cardinality((items \ {o}) \cup {m}) = Cardinality(items \ {o}) + 1
        BY <4>1, <4>2, FS_AddElement
      <4>4. QED
        BY <1>3, <1>4, <2>1, <3>1, <4>1, <4>3
    <3>3. ASSUME NEW n \in (Matches \cup {m}) \ Collected(m), NEW kept \in Collected(m)
          PROVE  Newer(kept, n)
      <4>1. n = o \/ n \in Matches \ items
        BY <3>1
      <4>2. kept = m \/ (kept \in items /\ kept # o)
        BY <3>1
      <4>3. CASE n = o /\ kept = m
        BY <2>6, <4>3
      <4>4. CASE n = o /\ kept \in items /\ kept # o
        BY <2>3, <4>4 DEF o
      <4>5. CASE n \in Matches \ items /\ kept \in items
        BY <1>1, <4>5
      <4>6. CASE n \in Matches \ items /\ kept = m
        <5>1. Newer(o, n) /\ Stored(n)
          BY <1>1, <1>6, <2>3, <4>6 DEF o
        <5>2. QED
          BY <2>5, <2>6, <4>6, <5>1, NewerIsTransitive
      <4>7. QED
        BY <4>1, <4>2, <4>3, <4>4, <4>5, <4>6
    <3>4. Collected(m) \subseteq Matches \cup {m}
      BY <1>2, <3>1
    <3>5. QED
      BY <1>4, <3>2, <3>3, <3>4
  <2>7. CASE ~ Newer(m, o)
    <3>1. Collected(m) = items
      BY <2>4, <2>7 DEF o
    <3>2. Newer(o, m)
      BY <2>5, <2>7, NewerIsTotal
    <3>3. ASSUME NEW n \in (Matches \cup {m}) \ items, NEW kept \in items
          PROVE  Newer(kept, n)
      <4>1. CASE n = m /\ kept = o
        BY <3>2, <4>1
      <4>2. CASE n = m /\ kept # o
        <5>1. Newer(kept, o) /\ Stored(kept)
          BY <1>2, <1>6, <2>3, <4>2 DEF o
        <5>2. QED
          BY <2>5, <3>2, <4>2, <5>1, NewerIsTransitive
      <4>3. CASE n \in Matches
        BY <1>1, <4>3
      <4>4. QED
        BY <4>1, <4>2, <4>3
    <3>4. QED
      BY <1>2, <2>1, <3>1, <3>3
  <2>8. QED
    BY <2>6, <2>7
<1>9. QED
  BY <1>3, <1>4, <1>7, <1>8

LEMMA TakeKeeps ==
  ASSUME QueryInv, NEW p \in Partitions, Take(p)
  PROVE  QueryInv'
<1> DEFINE m == <<p, Next1(p)>>
<1>0. /\ UNCHANGED <<log, start, produced, at, query, from, ends, gaveUp>>
      /\ at = "polling" /\ p \in Assigned /\ Next1(p) < End(p)
      /\ seen' = seen \cup {m} /\ items' = Collected(m)
      /\ position' = [position EXCEPT ![p] = Next1(p) + 1]
  BY DEF Take, Unread, topic
<1>1. /\ start[p] \in Nat /\ position[p] \in Nat /\ End(p) \in Nat
      /\ End(p) <= MaxRecords /\ MaxRecords \in Nat
  BY PlacedOffsets
<1>2. /\ Next1(p) \in Nat /\ position[p] <= Next1(p) /\ start[p] <= Next1(p)
      /\ Next1(p) = position[p] \/ (Next1(p) = start[p] /\ position[p] < start[p])
  BY <1>1 DEF Next1
<1>3. position \in [Partitions -> Offset] /\ position'[p] = Next1(p) + 1
  BY <1>0 DEF QueryInv, TypeOK
<1>3a. \A q \in Partitions : q # p => position'[q] = position[q]
  BY <1>0, <1>3
<1>4. Next1(p) \in Offset /\ Next1(p) + 1 \in Offset /\ Next1(p) + 1 <= End(p)
  BY <1>0, <1>1, <1>2 DEF Offset
<1>5. Assigned' = Assigned /\ Assigned \subseteq Partitions
  BY <1>0, AssignedExist DEF Assigned
<1>6. m \notin seen
  BY <1>1, <1>2 DEF QueryInv, Scanning
<1>7. Stored(m)
  <2>1. Next1(p) + 1 \in 1..Len(log[p])
    BY <1>0, <1>1, <1>2 DEF End
  <2>2. log[p] \in Seq(Record)
    BY DEF QueryInv, TypeOK
  <2>3. log[p][Next1(p) + 1] \in Record
    BY <2>1, <2>2
  <2>4. QED
    BY <1>2, <2>3 DEF Stored, RecordOf
<1> DEFINE offset == Next1(p)
<1>8. m = <<p, offset>>
  OBVIOUS
<1>9. /\ items \subseteq Matches /\ (~ KeepsNewest => items = Matches) /\ items \subseteq seen
      /\ Matches \subseteq seen
  BY <1>0 DEF QueryInv, Collecting, TypeOK, Matches
<1> HIDE DEF m, offset
<1>10. Collected(m) \subseteq items \cup {m}
  BY DEF Collected
<1>11. KeepsNewest' = KeepsNewest /\ Latest' = Latest
  BY <1>0 DEF KeepsNewest, Latest
<1>12. \A n : RecordOf(n)' = RecordOf(n)
  BY <1>0, RecordsKept
<1>13. /\ \A n : Matching(n)' <=> Matching(n)
       /\ \A n, k : Newer(n, k)' <=> Newer(n, k)
  <2>1. \A n : Matching(n)' <=> Matching(n)
    BY <1>0, <1>12 DEF Matching
  <2>2. \A n, k : Newer(n, k)' <=> Newer(n, k)
    <3> TAKE n, k
    <3>1. RecordOf(n)' = RecordOf(n) /\ RecordOf(k)' = RecordOf(k)
      BY <1>12
    <3>2. QED
      BY <3>1, Zenon DEF Newer
  <2>3. QED
    BY <2>1, <2>2
<1>14. Matches' = IF Matching(m) THEN Matches \cup {m} ELSE Matches
  BY <1>0, <1>13 DEF Matches
<1>15. TypeOK'
  <2>1. position' \in [Partitions -> Offset]
    BY <1>0, <1>3, <1>4
  <2>2. seen' \subseteq Partitions \X Offset
    BY <1>0, <1>4, <1>8 DEF QueryInv, TypeOK, offset
  <2>3. items' \subseteq seen'
    BY <1>0, <1>9, <1>10
  <2>4. QED
    BY <1>0, <2>1, <2>2, <2>3 DEF QueryInv, TypeOK
<1>16. \A q \in Partitions : Placed(q)'
  <2> SUFFICES ASSUME NEW q \in Partitions PROVE Placed(q)'
    OBVIOUS
  <2>1. Placed(q) /\ End(q)' = End(q)
    BY <1>0 DEF QueryInv, End
  <2>2. position'[q] <= End(q)
    BY <1>3, <1>3a, <1>4, <2>1 DEF Placed
  <2>3. QED
    BY <1>0, <2>1, <2>2 DEF Placed
<1>17. Validity'
  BY <1>0 DEF QueryInv, Validity
<1>18. Scanning'
  <2>1. IsFiniteSet(seen')
    BY <1>0, FS_AddElement DEF QueryInv, Scanning
  <2>2. ASSUME NEW n \in seen' PROVE n[1] \in Assigned' /\ n[2] < position'[n[1]]
    <3>1. CASE n = m
      <4>1. n[1] = p /\ n[2] = Next1(p)
        BY <1>8, <3>1 DEF offset
      <4>2. QED
        BY <1>0, <1>2, <1>3, <1>5, <4>1
    <3>2. CASE n \in seen
      <4>1. n[1] \in Assigned /\ n[2] < position[n[1]] /\ n[2] \in Nat /\ n[1] \in Partitions
        BY <3>2, <1>5, QueryAssumption DEF QueryInv, Scanning, TypeOK, Offset
      <4>2. CASE n[1] = p
        BY <1>1, <1>2, <1>3, <1>5, <4>1, <4>2
      <4>3. CASE n[1] # p
        BY <1>3a, <1>5, <4>1, <4>3
      <4>4. QED
        BY <4>2, <4>3
    <3>3. QED
      BY <1>0, <2>2, <3>1, <3>2
  <2>3. QED
    BY <2>1, <2>2 DEF Scanning
<1>19. Contiguous'
  <2> SUFFICES ASSUME NEW q \in Assigned
               PROVE  /\ from[q] # Unresolved
                      /\ \A o \in Offset : from[q] <= o /\ start[q] <= o /\ o < position'[q]
                                             => <<q, o>> \in seen'
    BY <1>0, <1>5 DEF Contiguous
  <2>1. /\ from[q] # Unresolved
        /\ \A o \in Offset : from[q] <= o /\ start[q] <= o /\ o < position[q] => <<q, o>> \in seen
    BY <1>0 DEF QueryInv, Contiguous
  <2>2. CASE q = p
    <3>1. ASSUME NEW o \in Offset, from[p] <= o, start[p] <= o, o < position'[p]
          PROVE  <<p, o>> \in seen'
      <4>1. o \in Nat
        BY <1>1 DEF Offset
      <4>2. o < position[p] \/ o = Next1(p)
        BY <1>1, <1>2, <1>3, <3>1, <4>1
      <4>3. QED
        BY <1>0, <1>8, <2>1, <2>2, <3>1, <4>2 DEF offset
    <3>2. QED
      BY <2>1, <2>2, <3>1
  <2>3. CASE q # p
    BY <1>0, <1>3a, <1>5, <2>1, <2>3
  <2>4. QED
    BY <2>2, <2>3
<1>20. Window'
  <2> SUFFICES ASSUME Latest
               PROVE  /\ \A q \in Assigned : from[q] # Unresolved => from[q] <= ends[q] /\ ends[q] - from[q] <= query.scan
                      /\ \A n \in seen' : from[n[1]] <= n[2]
                      /\ \A q \in Assigned : from[q] <= position'[q]
    BY <1>0, <1>5, <1>11 DEF Window
  <2>1. /\ \A q \in Assigned : from[q] # Unresolved => from[q] <= ends[q] /\ ends[q] - from[q] <= query.scan
        /\ \A n \in seen : from[n[1]] <= n[2]
        /\ \A q \in Assigned : from[q] <= position[q]
    BY <1>0 DEF QueryInv, Window
  <2>2. from[p] <= Next1(p) /\ from[p] <= Next1(p) + 1
    <3>1. from[p] \in Int
      BY DEF QueryInv, TypeOK
    <3>2. QED
      BY <1>0, <1>1, <1>2, <2>1, <3>1
  <2>3. \A n \in seen' : from[n[1]] <= n[2]
    BY <1>0, <1>8, <2>1, <2>2 DEF offset
  <2>4. \A q \in Assigned : from[q] <= position'[q]
    BY <1>3, <1>3a, <1>5, <2>1, <2>2
  <2>5. QED
    BY <2>1, <2>3, <2>4
<1>21. Ended'
  BY <1>0 DEF Ended
<1>22. CASE ~ Matching(m)
  <2>1. items' = items /\ Matches' = Matches
    BY <1>0, <1>14, <1>22 DEF Collected
  <2>2. Collecting'
    BY <1>0, <1>11, <2>1 DEF QueryInv, Collecting
  <2>3. NewestMatchesKept'
    <3> SUFFICES ASSUME KeepsNewest
                 PROVE  /\ \A n \in Matches \ items, kept \in items : Newer(kept, n)
                        /\ items = Matches \/ Cardinality(items) = query.limit
      BY <1>0, <1>11, <1>13, <2>1 DEF NewestMatchesKept, Matches
    <3>1. QED
      BY <1>0 DEF QueryInv, NewestMatchesKept, Matches
  <2>4. QED
    BY <1>15, <1>16, <1>17, <1>18, <1>19, <1>20, <1>21, <2>2, <2>3 DEF QueryInv
<1>23. CASE Matching(m) /\ ~ KeepsNewest
  <2>1. items' = Matches'
    BY <1>0, <1>9, <1>14, <1>23 DEF Collected
  <2>2. Collecting' /\ NewestMatchesKept'
    BY <1>11, <1>23, <2>1 DEF Collecting, NewestMatchesKept
  <2>3. QED
    BY <1>15, <1>16, <1>17, <1>18, <1>19, <1>20, <1>21, <2>2 DEF QueryInv
<1>24. CASE Matching(m) /\ KeepsNewest
  <2>1. /\ \A n \in Matches' \ items', kept \in items' : Newer(kept, n)
        /\ items' = Matches' \/ Cardinality(items') = query.limit
        /\ items' \subseteq Matches'
        /\ Cardinality(items') <= query.limit
    <3>1. Matches' = Matches \cup {m} /\ items' = Collected(m)
      BY <1>0, <1>14, <1>24
    <3>2. /\ \A n \in (Matches \cup {m}) \ Collected(m), kept \in Collected(m) : Newer(kept, n)
          /\ Collected(m) = Matches \cup {m} \/ Cardinality(Collected(m)) = query.limit
          /\ Collected(m) \subseteq Matches \cup {m}
          /\ Cardinality(Collected(m)) <= query.limit
      BY <1>0, <1>6, <1>7, <1>24, CollectNewest
    <3>3. QED
      BY <3>1, <3>2
  <2>2. Collecting'
    BY <1>0, <1>11, <1>24, <2>1 DEF Collecting
  <2>3. NewestMatchesKept'
    BY <1>0, <1>11, <1>13, <2>1 DEF NewestMatchesKept, Matches
  <2>4. QED
    BY <1>15, <1>16, <1>17, <1>18, <1>19, <1>20, <1>21, <2>2, <2>3 DEF QueryInv
<1>25. QED
  BY <1>22, <1>23, <1>24

-----------------------------------------------------------------------------
(* The end of a query.                                                     *)

LEMMA FinishKeeps ==
  ASSUME QueryInv, Finish
  PROVE  QueryInv'
<1>0. /\ UNCHANGED <<log, start, produced, query, from, ends, position, seen, items>>
      /\ at = "polling" /\ at' = "done" /\ gaveUp' = (~ Enough /\ Unread # {})
  BY DEF Finish, topic
<1>1. Assigned' = Assigned /\ Assigned \subseteq Partitions
  BY <1>0, AssignedExist DEF Assigned
<1>2. TypeOK'
  BY <1>0, Zenon DEF QueryInv, TypeOK
<1>3. \A p \in Partitions : Placed(p)'
  BY <1>0 DEF QueryInv, Placed, End
<1>4. Collecting' /\ NewestMatchesKept'
  BY <1>0, CollectionKept, RecordsKept
<1>5. Validity' /\ Scanning' /\ Contiguous' /\ Window'
  BY <1>0, <1>1 DEF QueryInv, Validity, Scanning, Contiguous, Window, Latest
<1>6. Ended'
  <2> SUFFICES ASSUME ~ gaveUp', ~ Enough'
               PROVE  \A p \in Assigned : position[p] >= ends[p] \/ start[p] >= ends[p]
    BY <1>0, <1>1 DEF Ended
  <2>1. ~ Enough
    BY <1>0 DEF Enough, Live, Scanned, KeepsNewest, Latest
  <2>2. Unread = {}
    BY <1>0, <2>1, Zenon
  <2>3. \A p \in Assigned : ~ (Next1(p) < End(p))
    BY <2>2 DEF Unread
  <2> TAKE p \in Assigned
  <2>4. /\ start[p] \in Nat /\ position[p] \in Nat /\ ends[p] \in Nat /\ End(p) \in Nat
        /\ ends[p] <= End(p)
    BY <1>1, PlacedOffsets
  <2>5. QED
    BY <2>3, <2>4 DEF Next1
<1>7. QED
  BY <1>2, <1>3, <1>4, <1>5, <1>6 DEF QueryInv

LEMMA FailKeeps ==
  ASSUME QueryInv, Fail
  PROVE  QueryInv'
<1>0. /\ UNCHANGED <<log, start, produced, query, from, ends, position, seen, items, gaveUp>>
      /\ at \in {"resolving", "polling"} /\ at' = "failed"
  BY DEF Fail, topic
<1>1. Assigned' = Assigned
  BY <1>0 DEF Assigned
<1>2. TypeOK'
  BY <1>0 DEF QueryInv, TypeOK
<1>3. \A p \in Partitions : Placed(p)'
  BY <1>0 DEF QueryInv, Placed, End
<1>4. Collecting' /\ NewestMatchesKept'
  BY <1>0, CollectionKept, RecordsKept
<1>5. Validity' /\ Scanning' /\ Contiguous' /\ Window' /\ Ended'
  BY <1>0, <1>1 DEF QueryInv, Validity, Scanning, Contiguous, Window, Ended, Latest
<1>6. QED
  BY <1>2, <1>3, <1>4, <1>5 DEF QueryInv

LEMMA QueryStutter ==
  ASSUME QueryInv, UNCHANGED qvars
  PROVE  QueryInv'
<1>0. /\ UNCHANGED <<log, start, produced, at, query, from, ends, position, seen, items, gaveUp>>
  BY DEF qvars, topic
<1>1. Assigned' = Assigned
  BY <1>0 DEF Assigned
<1>2. TypeOK'
  BY <1>0 DEF QueryInv, TypeOK
<1>3. \A p \in Partitions : Placed(p)'
  BY <1>0 DEF QueryInv, Placed, End
<1>4. Collecting' /\ NewestMatchesKept'
  BY <1>0, CollectionKept, RecordsKept
<1>5. Validity' /\ Scanning' /\ Contiguous' /\ Window'
  BY <1>0, <1>1 DEF QueryInv, Validity, Scanning, Contiguous, Window, Latest
<1>6. Ended'
  BY <1>0, <1>1 DEF QueryInv, Ended, Enough, Live, Scanned, KeepsNewest, Latest
<1>7. QED
  BY <1>2, <1>3, <1>4, <1>5, <1>6 DEF QueryInv

LEMMA QueryInvariant == Spec => []QueryInv
<1>1. ASSUME QueryInv, [Next]_qvars PROVE QueryInv'
  <2>1. CASE \E p \in Partitions, match \in BOOLEAN : Produce(p, match)
    BY <1>1, <2>1, ProduceKeeps
  <2>2. CASE \E p \in Partitions : Retention(p)
    BY <1>1, <2>2, RetentionKeeps
  <2>3. CASE \E p \in Partitions : Resolve(p)
    BY <1>1, <2>3, ResolveKeeps
  <2>4. CASE \E p \in Partitions : Take(p)
    BY <1>1, <2>4, TakeKeeps
  <2>5. CASE \E q \in Asked : Ask(q)
    BY <1>1, <2>5, AskKeeps
  <2>6. CASE Open
    BY <1>1, <2>6, OpenKeeps
  <2>7. CASE Finish
    BY <1>1, <2>7, FinishKeeps
  <2>8. CASE Fail
    BY <1>1, <2>8, FailKeeps
  <2>9. CASE UNCHANGED qvars
    BY <1>1, <2>9, QueryStutter
  <2>10. QED
    BY <1>1, <2>1, <2>2, <2>3, <2>4, <2>5, <2>6, <2>7, <2>8, <2>9 DEF Next
<1>2. QED
  BY <1>1, QueryInit, PTL DEF Spec

-----------------------------------------------------------------------------
(* What an answer holds.                                                   *)

(* A query that has read everything up to the end it found has scanned     *)
(* every message that was there and still is.                              *)
LEMMA AllScanned ==
  ASSUME QueryInv, Answered, ~ Enough
  PROVE  Eligible \subseteq seen
<1> SUFFICES ASSUME NEW m \in Eligible PROVE m \in seen
  OBVIOUS
<1>1. /\ m = <<m[1], m[2]>> /\ m[2] \in Offset /\ m[1] \in Partitions /\ m[1] \in Assigned
      /\ m[2] >= from[m[1]] /\ m[2] < ends[m[1]] /\ m[2] >= start[m[1]]
  BY DEF Eligible
<1>2. position[m[1]] >= ends[m[1]] \/ start[m[1]] >= ends[m[1]]
  BY <1>1 DEF QueryInv, Answered, Ended
<1>3. /\ position[m[1]] \in Nat /\ ends[m[1]] \in Nat /\ start[m[1]] \in Nat /\ m[2] \in Nat
      /\ from[m[1]] \in Int
  BY <1>1, PlacedOffsets DEF QueryInv, TypeOK, Offset
<1>4. m[2] < position[m[1]] /\ from[m[1]] <= m[2] /\ start[m[1]] <= m[2]
  BY <1>1, <1>2, <1>3
<1>5. <<m[1], m[2]>> \in seen
  BY <1>1, <1>4 DEF QueryInv, Contiguous, Answered
<1>6. QED
  BY <1>1, <1>5

LEMMA MatchesFinite ==
  ASSUME QueryInv
  PROVE  /\ IsFiniteSet(Matches) /\ IsFiniteSet(items) /\ IsFiniteSet(seen)
         /\ Cardinality(Matches) \in Nat /\ Cardinality(items) \in Nat /\ Scanned \in Nat
<1>1. IsFiniteSet(seen) /\ Matches \in SUBSET seen /\ items \in SUBSET seen
  BY DEF QueryInv, Scanning, Matches, TypeOK
<1>2. QED
  BY <1>1, FS_Subset, FS_CardinalityType DEF Scanned

(* The variables of a query keep their types.                              *)
THEOREM QueryTypeCorrect == Spec => []TypeOK
<1>1. QueryInv => TypeOK
  BY DEF QueryInv
<1>2. QED
  BY <1>1, QueryInvariant, PTL

(* Whatever order the partitions answer in, the collector of a filtered    *)
(* query for the latest messages holds exactly the newest matches it has   *)
(* scanned: what it dropped is older than all that it kept.                *)
THEOREM NewestAreKept == Spec => []NewestMatchesKept
<1>1. QueryInv => NewestMatchesKept
  BY DEF QueryInv
<1>2. QED
  BY <1>1, QueryInvariant, PTL

(* A query that reports neither limit has left out no matching message     *)
(* that was there when it began and still is.                              *)
THEOREM CompleteAnswers == Spec => []CompleteUnlessLimited
<1>1. ASSUME QueryInv PROVE CompleteUnlessLimited
  <2> SUFFICES ASSUME Answered, ~ ResultLimited, ~ ScanLimited PROVE Eligible \subseteq items
    BY DEF CompleteUnlessLimited
  <2>1. query.limit \in Nat /\ query.scan \in Nat
    BY <1>1, QueryAssumption DEF QueryInv, Validity, Query, Answered
  <2>2. /\ IsFiniteSet(Matches) /\ Cardinality(Matches) \in Nat /\ Cardinality(items) \in Nat
        /\ Scanned \in Nat
    BY <1>1, MatchesFinite
  <2>3. Matched = Cardinality(Matches)
    BY DEF Matched, Matches
  <2>4. items \subseteq Matches /\ (~ KeepsNewest => items = Matches)
    BY <1>1 DEF QueryInv, Collecting, Answered
  <2>5. items = Matches
    <3>1. CASE KeepsNewest
      <4>1. Cardinality(Matches) <= Cardinality(items)
        BY <2>2, <2>3, <3>1 DEF ResultLimited
      <4>2. Cardinality(items) <= Cardinality(Matches)
        BY <2>2, <2>4, FS_Subset
      <4>3. Cardinality(items) = Cardinality(Matches)
        BY <2>2, <4>1, <4>2
      <4>4. QED
        BY <2>2, <2>4, <4>3, FS_Subset
    <3>2. QED
      BY <2>4, <3>1
  <2>6. ~ Enough
    <3>1. CASE KeepsNewest
      BY <3>1 DEF Enough, ScanLimited
    <3>2. CASE ~ KeepsNewest
      <4>1. ~ (Cardinality(items) >= query.limit)
        BY <2>3, <2>5, <3>2 DEF ResultLimited
      <4>2. QED
        BY <4>1 DEF Enough, ScanLimited
    <3>3. QED
      BY <3>1, <3>2
  <2>7. Eligible \subseteq seen
    BY <1>1, <2>6, AllScanned
  <2>8. QED
    BY <2>5, <2>7 DEF Matches, Eligible
<1>2. QED
  BY <1>1, QueryInvariant, PTL

(* The latest messages of one partition are its newest ones, and as many   *)
(* as were asked for if its window holds that many: a query that has       *)
(* scanned its whole allowance has reached the end of the window.          *)
THEOREM LatestAreNewest == Spec => []LatestOfPartition
<1>1. ASSUME QueryInv PROVE LatestOfPartition
  <2> SUFFICES ASSUME Answered, Latest, Cardinality(Assigned) = 1
               PROVE  OmitsOnlyOlder /\ (Eligible \subseteq items \/ Cardinality(items) = query.limit)
    BY DEF LatestOfPartition
  <2>1. at = "done" /\ query \in Query /\ query.limit \in Nat /\ query.scan \in Nat
    BY <1>1, QueryAssumption DEF QueryInv, Validity, Query, Answered
  <2>2. IsFiniteSet(Assigned)
    <3>1. CASE query.partition = All
      BY <3>1, QueryAssumption DEF Assigned
    <3>2. CASE query.partition # All
      BY <3>2, FS_Singleton DEF Assigned
    <3>3. QED
      BY <3>1, <3>2
  <2>3. PICK p : Assigned = {p}
    BY <2>2, FS_Singleton
  <2>4. p \in Partitions /\ from[p] # Unresolved /\ p \in Assigned
    BY <1>1, <2>1, <2>3, AssignedExist DEF QueryInv, Contiguous
  <2>5. /\ position[p] \in Nat /\ ends[p] \in Nat /\ from[p] \in Nat
    BY <1>1, <2>4, PlacedOffsets
  <2>6. /\ from[p] <= ends[p] /\ ends[p] - from[p] <= query.scan
        /\ \A m \in seen : from[m[1]] <= m[2]
        /\ from[p] <= position[p]
    BY <1>1, <2>1, <2>4 DEF QueryInv, Window
  (* No more than what lies between the start and the position is scanned. *)
  <2>7. Scanned <= position[p] - from[p]
    <3> DEFINE Between == from[p]..(position[p] - 1)
    <3>1. IsFiniteSet(Between) /\ Cardinality(Between) = position[p] - from[p]
      <4>1. from[p] \in Int /\ position[p] - 1 \in Int
        BY <2>5
      <4>2. /\ IsFiniteSet(Between)
            /\ Cardinality(Between) = IF from[p] > position[p] - 1 THEN 0
                                      ELSE (position[p] - 1) - from[p] + 1
        BY <4>1, FS_Interval
      <4>3. QED
        BY <2>5, <2>6, <4>2
    <3>2. \A m \in seen : m = <<p, m[2]>> /\ m[2] \in Between
      <4> SUFFICES ASSUME NEW m \in seen PROVE m = <<p, m[2]>> /\ m[2] \in Between
        OBVIOUS
      <4>1. m \in Partitions \X Nat /\ m[1] = p /\ m[2] < position[p] /\ from[p] <= m[2]
        BY <1>1, <2>3, <2>6, QueryAssumption DEF QueryInv, TypeOK, Offset, Scanning
      <4>2. QED
        BY <2>5, <4>1
    <3> DEFINE f == [m \in seen |-> m[2]]
    <3>3. f \in Injection(seen, Between)
      <4>1. f \in [seen -> Between]
        BY <3>2
      <4>2. \A m, n \in seen : f[m] = f[n] => m = n
        <5> SUFFICES ASSUME NEW m \in seen, NEW n \in seen, f[m] = f[n] PROVE m = n
          OBVIOUS
        <5>1. m = <<p, m[2]>> /\ n = <<p, n[2]>> /\ m[2] = n[2]
          BY <3>2
        <5>2. QED
          BY <5>1
      <4>3. QED
        BY <4>1, <4>2 DEF Injection, IsInjective
    <3> HIDE DEF f, Between
    <3>4. Cardinality(seen) <= Cardinality(Between)
      BY <3>1, <3>3, FS_Injection
    <3>5. QED
      BY <3>1, <3>4 DEF Scanned
  <2>8. items \subseteq Matches /\ (~ KeepsNewest => items = Matches)
    BY <1>1, <2>1 DEF QueryInv, Collecting
  <2>9. Eligible \subseteq seen
    <3>1. CASE ~ Enough
      BY <1>1, <3>1, AllScanned
    <3>2. CASE Enough
      <4>1. Scanned >= query.scan
        <5>1. CASE KeepsNewest
          BY <3>2, <5>1 DEF Enough
        <5>2. CASE ~ KeepsNewest
          <6>1. ~ query.filtered /\ query.scan = query.limit
            BY <1>1, <2>1, <5>2 DEF KeepsNewest, QueryInv, Validity
          <6>2. Matches = seen
            BY <6>1 DEF Matches, Matching
          <6>3. items = seen
            BY <2>8, <5>2, <6>2
          <6>4. QED
            BY <3>2, <6>1, <6>3 DEF Enough, Scanned
        <5>3. QED
          BY <5>1, <5>2
      <4>2. Scanned \in Nat
        BY <1>1, MatchesFinite
      <4>3. ends[p] <= position[p]
        BY <2>1, <2>5, <2>6, <2>7, <4>1, <4>2
      <4> SUFFICES ASSUME NEW m \in Eligible PROVE m \in seen
        OBVIOUS
      <4>4. /\ m = <<p, m[2]>> /\ m[2] \in Offset
            /\ m[2] >= from[p] /\ m[2] < ends[p] /\ m[2] >= start[p]
        BY <2>3 DEF Eligible
      <4>5. m[2] \in Nat /\ start[p] \in Nat
        BY <1>1, <2>4, <4>4, PlacedOffsets, QueryAssumption DEF Offset
      <4>6. from[p] <= m[2] /\ start[p] <= m[2] /\ m[2] < position[p]
        BY <2>5, <4>3, <4>4, <4>5
      <4>7. <<p, m[2]>> \in seen
        BY <1>1, <2>1, <2>4, <4>4, <4>6 DEF QueryInv, Contiguous
      <4>8. QED
        BY <4>4, <4>7
    <3>3. QED
      BY <3>1, <3>2
  <2>10. Eligible \subseteq Matches
    BY <2>9 DEF Eligible, Matches
  <2>11. CASE KeepsNewest
    BY <1>1, <2>1, <2>10, <2>11 DEF QueryInv, NewestMatchesKept, Matches, OmitsOnlyOlder
  <2>12. CASE ~ KeepsNewest
    BY <2>8, <2>10, <2>12 DEF OmitsOnlyOlder
  <2>13. QED
    BY <2>11, <2>12
<1>2. QED
  BY <1>1, QueryInvariant, PTL
=============================================================================
