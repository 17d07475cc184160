---------------------------- MODULE MessagesPage ----------------------------
(***************************************************************************)
(* MessagesPage.tsx: queries, the live stream (an EventSource) and the     *)
(* producer's form, for a topic that the workspace fixes or that the user  *)
(* types.  The cluster, the fixed topic and the read-only mode are given   *)
(* by the component above and may change at any moment.  The '' that App   *)
(* gives before it has a cluster is one of Clusters: the page asks for it  *)
(* as for any other, and is refused.                                       *)
(***************************************************************************)
EXTENDS Naturals, FiniteSets

CONSTANTS Clusters, Topics, None,
          ReadOnly,     (* clusters that refuse writes                       *)
          MaxQueries,   (* bound on queries in flight                        *)
          MaxStreams    (* bound on EventSources ever open at once           *)

(* Assumed where the module is instantiated.                               *)
MessagesAssumption ==
  /\ ReadOnly \subseteq Clusters
  /\ None \notin Clusters \cup Topics
  /\ {MaxQueries, MaxStreams} \subseteq Nat \ {0}

VARIABLES
  mounted,
  place,        (* what the component above gives: cluster and fixedTopic    *)
  topic,        (* the topic of the form                                     *)
  queries,      (* queries in flight                                         *)
  querying,     (* loading                                                   *)
  streams,      (* the EventSources that are open                            *)
  stream,       (* stream.current, a number, or None                         *)
  live,
  items,        (* what is listed: nothing, or a source                      *)
  producer,     (* the producer's form is open                               *)
  sending       (* it waits for its answer                                   *)

follow == <<streams, stream, live>>
form   == <<producer, sending>>
mvars  == <<mounted, place, topic, queries, querying, follow, items, form>>

Numbers == 1..(MaxStreams + 1)
Place   == [cluster : Clusters, fixed : Topics \cup {None}]
Source  == [kind : {"query", "live"}, cluster : Clusters, topic : Topics \cup {None}]

TypeOK ==
  /\ mounted \in BOOLEAN /\ querying \in BOOLEAN /\ live \in BOOLEAN
  /\ producer \in BOOLEAN /\ sending \in BOOLEAN
  /\ place \in Place /\ topic \in Topics \cup {None}
  /\ queries \subseteq Source /\ Cardinality(queries) <= MaxQueries
  /\ streams \subseteq [n : Numbers, cluster : Clusters, topic : Topics]
  /\ stream \in Numbers \cup {None}
  /\ items \in Source \cup {None}

Query(p, t) == [kind |-> "query", cluster |-> p.cluster, topic |-> t]

-----------------------------------------------------------------------------
Fault_StopForgets == stream' = None /\ live' = FALSE /\ streams' = streams
Stop ==
  /\ streams' = {s \in streams : s.n # stream}
  /\ stream' = None /\ live' = FALSE

(* queryMessages: no EventSource outlives it.                              *)
QueryMessages(p, t) ==
  /\ Cardinality(queries) < MaxQueries
  /\ queries' = queries \cup {Query(p, t)}
  /\ querying' = TRUE
  /\ Stop

(* The effect of [clusterId, fixedTopic]; a fixed topic is queried at once. *)
Arrives(p) ==
  IF p.fixed = None
  THEN Stop /\ topic' = topic /\ UNCHANGED <<queries, querying>>
  ELSE topic' = p.fixed /\ QueryMessages(p, p.fixed)

Init ==
  /\ mounted = TRUE /\ place \in Place
  /\ topic = place.fixed
  /\ queries = (IF place.fixed = None THEN {} ELSE {Query(place, place.fixed)})
  /\ querying = (place.fixed # None)
  /\ streams = {} /\ stream = None /\ live = FALSE
  /\ items = None /\ producer = FALSE /\ sending = FALSE

(* The workspace is given another topic, or App another cluster; a page    *)
(* without a fixed topic stays one.                                        *)
PlaceChanges(p) ==
  /\ mounted /\ p # place /\ (p.fixed = None) = (place.fixed = None)
  /\ place' = p
  /\ Arrives(p)
  /\ producer' = (producer /\ p.cluster \notin ReadOnly)
  /\ sending' = (sending /\ producer')
  /\ UNCHANGED <<mounted, items>>

(* Answers to a page that is gone change nothing.                          *)
Unmount ==
  /\ mounted /\ mounted' = FALSE
  /\ Stop
  /\ queries' = {} /\ querying' = FALSE /\ items' = None
  /\ producer' = FALSE /\ sending' = FALSE
  /\ UNCHANGED <<place, topic>>

TypeTopic(t) ==
  /\ mounted /\ place.fixed = None /\ topic' = t
  /\ UNCHANGED <<mounted, place, queries, querying, follow, items, form>>

SubmitQuery ==
  /\ mounted /\ ~ querying /\ topic # None
  /\ QueryMessages(place, topic)
  /\ UNCHANGED <<mounted, place, topic, items, form>>

QueryDone(q) ==
  /\ q \in queries
  /\ queries' = queries \ {q} /\ querying' = FALSE
  /\ items' = q
  /\ UNCHANGED <<mounted, place, topic, follow, form>>

QueryFailed(q) ==
  /\ q \in queries
  /\ queries' = queries \ {q} /\ querying' = FALSE
  /\ UNCHANGED <<mounted, place, topic, follow, items, form>>

Unused == CHOOSE n \in Numbers : \A s \in streams : s.n # n

Fault_FollowWithoutToggle ==
  /\ mounted /\ topic # None /\ Cardinality(streams) < MaxStreams
  /\ items' = None
  /\ streams' = streams \cup {[n |-> Unused, cluster |-> place.cluster, topic |-> topic]}
  /\ stream' = Unused /\ live' = TRUE
  /\ UNCHANGED <<mounted, place, topic, queries, querying, form>>
Follow ==
  /\ mounted /\ ~ live /\ topic # None /\ Cardinality(streams) < MaxStreams
  /\ items' = None
  /\ streams' = streams \cup {[n |-> Unused, cluster |-> place.cluster, topic |-> topic]}
  /\ stream' = Unused /\ live' = TRUE
  /\ UNCHANGED <<mounted, place, topic, queries, querying, form>>

Unfollow ==
  /\ mounted /\ live
  /\ Stop
  /\ UNCHANGED <<mounted, place, topic, queries, querying, items, form>>

(* onmessage: the record is put before what is listed.                     *)
RecordArrives(s) ==
  /\ s \in streams
  /\ items' = IF items = None
              THEN [kind |-> "live", cluster |-> s.cluster, topic |-> s.topic] ELSE items
  /\ UNCHANGED <<mounted, place, topic, queries, querying, follow, form>>

StreamFails(s) ==
  /\ s \in streams
  /\ Stop
  /\ UNCHANGED <<mounted, place, topic, queries, querying, items, form>>

ToggleProducer ==
  /\ mounted /\ place.cluster \notin ReadOnly
  /\ producer' = ~ producer /\ sending' = FALSE
  /\ UNCHANGED <<mounted, place, topic, queries, querying, follow, items>>

Produce ==
  /\ producer /\ ~ sending
  /\ sending' = TRUE
  /\ UNCHANGED <<mounted, place, topic, queries, querying, follow, items, producer>>

ProduceAnswered ==
  /\ sending /\ sending' = FALSE
  /\ UNCHANGED <<mounted, place, topic, queries, querying, follow, items, producer>>

Next ==
  \/ \E p \in Place : PlaceChanges(p)
  \/ \E t \in Topics : TypeTopic(t)
  \/ \E q \in queries : QueryDone(q) \/ QueryFailed(q)
  \/ \E s \in streams : RecordArrives(s) \/ StreamFails(s)
  \/ SubmitQuery \/ Follow \/ Unfollow \/ Unmount
  \/ ToggleProducer \/ Produce \/ ProduceAnswered

Spec == Init /\ [][Next]_mvars

-----------------------------------------------------------------------------
(* Whatever is clicked and wherever the page is taken, every connection    *)
(* that is open belongs to the page that shows it: it is the one the stop  *)
(* button closes, and it follows the cluster, and the fixed topic, of the  *)
(* page.                                                                   *)
StreamIsHeld ==
  /\ \A s \in streams :
       /\ mounted /\ s.n = stream
       /\ s.cluster = place.cluster
       /\ place.fixed # None => s.topic = place.fixed
  /\ live <=> stream # None

(* Counterexamples: see PagesClaims.cfg.                                   *)

(* While the page says it listens for new messages it lists no others.     *)
LiveShowsNew == live /\ items # None => items.kind = "live"
(* With no query under way, a page with a fixed topic lists records of it. *)
RecordsOfTopic ==
  queries = {} /\ place.fixed # None /\ items # None
    => items.cluster = place.cluster /\ items.topic = place.fixed
=============================================================================
