--------------------------- MODULE WebApp_proofs ----------------------------
(***************************************************************************)
(* Proofs about WebApp, for every set of clusters, topics, pages and lists *)
(* the server may be given, every length of the history and every number   *)
(* of polls in flight.                                                     *)
(***************************************************************************)
EXTENDS WebApp, FiniteSetTheorems, SequenceTheorems, TLAPS

(* The addresses there are, and the routes that are shown.                 *)
Paths ==
  {<<>>} \cup {<<"clusters", c>> : c \in Clusters}
         \cup {<<"clusters", c, p>> : c \in Clusters, p \in Pages}
         \cup {<<"clusters", c, "topics", t>> : c \in Clusters, t \in Topics}
         \cup {<<"clusters", c, "topics", t, tab>> : c \in Clusters, t \in Topics, tab \in Tabs}

TopicScreen(c, t, tab) == [page |-> "topics", cluster |-> c, topic |-> t, tab |-> tab]
Screens ==
  {NoTopic(p, c) : p \in Pages, c \in Clusters \cup {None}}
    \cup {TopicScreen(c, t, tab) : c \in Clusters, t \in Topics, tab \in Tabs}

(* An address fits a screen: it opens it, or there is no cluster to name.  *)
Addressed(r, path) ==
  \/ ParseRoutePath(path) = r
  \/ r.cluster = None /\ path = <<>>

(* What a render decides.  Every address of the history can be opened, the *)
(* one it is at fits the route, and the page of a topic is not blank while *)
(* there is a cluster.                                                     *)
Screened ==
  /\ authenticated \in {"unknown", "yes", "no"}
  /\ route \in Screens
  /\ history \in Seq(Paths) /\ Len(history) <= MaxHistory /\ at \in 1..Len(history)
  /\ clusters \in Lists \cup {<<>>}
  /\ selected \in Key \cup {None} /\ load \in Key \cup {None}
  /\ topicLoading \in BOOLEAN /\ topicError \in BOOLEAN
  /\ AddressShowsRoute
  /\ BlankOnlyWithoutClusters

(* The polls.  Each request in flight has a number of its own, and the one *)
(* that may still change the screen brings nothing older than what is      *)
(* there.                                                                  *)
Polled ==
  /\ servers \in Seq(Lists) /\ Len(servers) \in Versions
  /\ requests \subseteq [n : Numbers, from : Versions]
  /\ current \in Numbers \cup {0}
  /\ shown \in Versions \cup {0} /\ shown <= Len(servers)
  /\ dashboardState \in {"idle", "loading", "ready", "error"}
  /\ refreshes \subseteq Key
  /\ IsFiniteSet(requests)
  /\ \A r \in requests : /\ r.from <= Len(servers)
                         /\ r.n = current => shown <= r.from
  /\ \A r, s \in requests : r.n = s.n => r = s

WebInv == Screened /\ Polled

-----------------------------------------------------------------------------
(* Addresses and routes                                                    *)

LEMMA ScreenFields ==
  /\ \A p \in Pages, c \in Clusters \cup {None} :
       /\ NoTopic(p, c) \in Screens
       /\ NoTopic(p, c).page = p /\ NoTopic(p, c).cluster = c
       /\ NoTopic(p, c).topic = None /\ NoTopic(p, c).tab = None
  /\ \A c \in Clusters, t \in Topics, tab \in Tabs :
       /\ TopicScreen(c, t, tab) \in Screens
       /\ TopicScreen(c, t, tab).page = "topics" /\ TopicScreen(c, t, tab).cluster = c
       /\ TopicScreen(c, t, tab).topic = t /\ TopicScreen(c, t, tab).tab = tab
<1>1. ASSUME NEW p \in Pages, NEW c \in Clusters \cup {None}
      PROVE  /\ NoTopic(p, c) \in Screens
             /\ NoTopic(p, c).page = p /\ NoTopic(p, c).cluster = c
             /\ NoTopic(p, c).topic = None /\ NoTopic(p, c).tab = None
  <2>1. NoTopic(p, c) \in Screens
    BY DEF Screens
  <2>2. QED
    BY <2>1 DEF NoTopic
<1>2. ASSUME NEW c \in Clusters, NEW t \in Topics, NEW tab \in Tabs
      PROVE  /\ TopicScreen(c, t, tab) \in Screens
             /\ TopicScreen(c, t, tab).page = "topics" /\ TopicScreen(c, t, tab).cluster = c
             /\ TopicScreen(c, t, tab).topic = t /\ TopicScreen(c, t, tab).tab = tab
  <2>1. TopicScreen(c, t, tab) \in Screens
    BY DEF Screens
  <2>2. QED
    BY <2>1 DEF TopicScreen
<1>3. QED
  BY <1>1, <1>2

LEMMA ScreensAreRoutes == Screens \subseteq Route
<1>1. "topics" \in Pages
  BY WebAssumption
<1>2. QED
  BY <1>1 DEF Screens, Route, NoTopic, TopicScreen

(* A route with a topic has a cluster.                                     *)
LEMMA TopicHasCluster ==
  ASSUME NEW r \in Screens
  PROVE  /\ r.page \in Pages /\ r.cluster \in Clusters \cup {None}
         /\ r.topic \in Topics \cup {None}
         /\ r.topic # None => r.cluster \in Clusters /\ r.topic \in Topics
                              /\ r.page = "topics" /\ r.tab \in Tabs
<1>1. "topics" \in Pages /\ None \notin Clusters /\ None \notin Topics
  BY WebAssumption
<1>2. CASE \E p \in Pages, c \in Clusters \cup {None} : r = NoTopic(p, c)
  BY <1>2, ScreenFields
<1>3. CASE \E c \in Clusters, t \in Topics, tab \in Tabs : r = TopicScreen(c, t, tab)
  BY <1>1, <1>3, ScreenFields
<1>4. QED
  BY <1>2, <1>3 DEF Screens

(* The same page of another cluster.                                       *)
LEMMA ScreenOfCluster ==
  ASSUME NEW r \in Screens, NEW c \in Clusters
  PROVE  LET to == [r EXCEPT !.cluster = c]
         IN to \in Screens /\ to.cluster = c /\ to.topic = r.topic
<1>1. CASE \E p \in Pages, d \in Clusters \cup {None} : r = NoTopic(p, d)
  <2>1. PICK p \in Pages, d \in Clusters \cup {None} : r = NoTopic(p, d)
    BY <1>1
  <2>2. [r EXCEPT !.cluster = c] = NoTopic(p, c)
    BY <2>1 DEF NoTopic
  <2>3. QED
    BY <2>1, <2>2, ScreenFields
<1>2. CASE \E d \in Clusters, t \in Topics, tab \in Tabs : r = TopicScreen(d, t, tab)
  <2>1. PICK d \in Clusters, t \in Topics, tab \in Tabs : r = TopicScreen(d, t, tab)
    BY <1>2
  <2>2. [r EXCEPT !.cluster = c] = TopicScreen(c, t, tab)
    BY <2>1 DEF TopicScreen
  <2>3. QED
    BY <2>1, <2>2, ScreenFields
<1>3. QED
  BY <1>1, <1>2 DEF Screens

LEMMA PathConcat ==
  ASSUME NEW a, NEW b, NEW c, NEW d, NEW e
  PROVE  <<a, b, c>> \o <<d, e>> = <<a, b, c, d, e>>
<1> DEFINE S == {a, b, c, d, e}
           f == <<a, b, c>>
           g == <<d, e>>
           h == <<a, b, c, d, e>>
<1>1. /\ f \in Seq(S) /\ Len(f) = 3 /\ f[1] = a /\ f[2] = b /\ f[3] = c
      /\ g \in Seq(S) /\ Len(g) = 2 /\ g[1] = d /\ g[2] = e
  OBVIOUS
<1>2. /\ h \in Seq(S) /\ Len(h) = 5
      /\ h[1] = a /\ h[2] = b /\ h[3] = c /\ h[4] = d /\ h[5] = e
  OBVIOUS
<1> HIDE DEF S, f, g, h
<1>3. /\ f \o g \in Seq(S) /\ Len(f \o g) = 5
      /\ \A i \in 1..5 : (f \o g)[i] = IF i <= 3 THEN f[i] ELSE g[i - 3]
  <2>1. /\ f \o g \in Seq(S) /\ Len(f \o g) = Len(f) + Len(g)
        /\ \A i \in 1..(Len(f) + Len(g)) : (f \o g)[i] = IF i <= Len(f) THEN f[i] ELSE g[i - Len(f)]
    BY <1>1, ConcatProperties
  <2>2. Len(f) + Len(g) = 5
    BY <1>1
  <2>3. QED
    BY <1>1, <2>1, <2>2, Zenon
<1>4. /\ (f \o g)[1] = a /\ (f \o g)[2] = b /\ (f \o g)[3] = c
      /\ (f \o g)[4] = d /\ (f \o g)[5] = e
  BY <1>1, <1>3
<1>5. \A i \in 1..5 : (f \o g)[i] = h[i]
  <2> TAKE i \in 1..5
  <2>1. i = 1 \/ i = 2 \/ i = 3 \/ i = 4 \/ i = 5
    OBVIOUS
  <2>2. QED
    BY <1>2, <1>4, <2>1
<1>6. f \o g = h
  BY <1>2, <1>3, <1>5, SeqEqual
<1>7. QED
  BY <1>6 DEF f, g, h

(* The address of a screen opens that screen.                              *)
LEMMA AddressOpensScreen ==
  ASSUME NEW r \in Screens
  PROVE  /\ BuildRoutePath(r) \in Paths
         /\ r.cluster # None => ParseRoutePath(BuildRoutePath(r)) = r
         /\ Addressed(r, BuildRoutePath(r))
<1>0. None \notin Clusters /\ None \notin Topics
  BY WebAssumption
<1>1. CASE \E p \in Pages, c \in Clusters \cup {None} : r = NoTopic(p, c)
  <2>1. PICK p \in Pages, c \in Clusters \cup {None} : r = NoTopic(p, c)
    BY <1>1
  <2>2. CASE c = None
    <3>1. BuildRoutePath(r) = <<>>
      BY <2>1, <2>2, ScreenFields DEF BuildRoutePath
    <3>2. QED
      BY <2>1, <2>2, <3>1, ScreenFields DEF Paths, Addressed
  <2>3. CASE c \in Clusters
    <3>0. r.page = p /\ r.cluster = c /\ r.topic = None /\ c # None
      BY <1>0, <2>1, <2>3, ScreenFields
    <3>1. BuildRoutePath(r) = <<"clusters", c, p>> \o <<>>
      BY <3>0 DEF BuildRoutePath
    <3>2. <<"clusters", c, p>> \o <<>> = <<"clusters", c, p>>
      BY ConcatEmptySeq, <<"clusters", c, p>> \in Seq({"clusters", c, p})
    <3>3. ParseRoutePath(<<"clusters", c, p>>) = NoTopic(p, c)
      BY DEF ParseRoutePath
    <3>4. <<"clusters", c, p>> \in Paths
      BY <2>3 DEF Paths
    <3>5. QED
      BY <2>1, <3>1, <3>2, <3>3, <3>4 DEF Addressed
  <2>4. QED
    BY <2>2, <2>3
<1>2. CASE \E d \in Clusters, t \in Topics, tab \in Tabs : r = TopicScreen(d, t, tab)
  <2>1. PICK c \in Clusters, t \in Topics, tab \in Tabs : r = TopicScreen(c, t, tab)
    BY <1>2
  <2>2. /\ r.page = "topics" /\ r.cluster = c /\ r.topic = t /\ r.tab = tab
        /\ c # None /\ t # None
    BY <1>0, <2>1, ScreenFields
  <2>3. BuildRoutePath(r) = <<"clusters", c, "topics">> \o <<t, tab>>
    BY <2>2 DEF BuildRoutePath
  <2>4. <<"clusters", c, "topics">> \o <<t, tab>> = <<"clusters", c, "topics", t, tab>>
    BY PathConcat
  <2>5. ParseRoutePath(<<"clusters", c, "topics", t, tab>>) = TopicScreen(c, t, tab)
    BY DEF ParseRoutePath, TopicScreen
  <2>6. <<"clusters", c, "topics", t, tab>> \in Paths
    BY DEF Paths
  <2>7. QED
    BY <2>1, <2>3, <2>4, <2>5, <2>6 DEF Addressed
<1>3. QED
  BY <1>1, <1>2 DEF Screens

(* Every address opens a screen.                                           *)
LEMMA AddressesOpen ==
  ASSUME NEW path \in Paths
  PROVE  ParseRoutePath(path) \in Screens
<1>0. "dashboard" \in Pages /\ "topics" \in Pages /\ "overview" \in Tabs
  BY WebAssumption
<1>1. CASE path = <<>>
  <2>1. ParseRoutePath(path) = NoTopic("dashboard", None)
    BY <1>1 DEF ParseRoutePath
  <2>2. QED
    BY <1>0, <2>1, ScreenFields
<1>2. ASSUME NEW c \in Clusters, path = <<"clusters", c>> PROVE ParseRoutePath(path) \in Screens
  <2>1. ParseRoutePath(path) = NoTopic("dashboard", c)
    BY <1>2 DEF ParseRoutePath
  <2>2. QED
    BY <1>0, <2>1, ScreenFields
<1>3. ASSUME NEW c \in Clusters, NEW p \in Pages, path = <<"clusters", c, p>>
      PROVE  ParseRoutePath(path) \in Screens
  <2>1. ParseRoutePath(path) = NoTopic(p, c)
    BY <1>3 DEF ParseRoutePath
  <2>2. QED
    BY <2>1, ScreenFields
<1>4. ASSUME NEW c \in Clusters, NEW t \in Topics, path = <<"clusters", c, "topics", t>>
      PROVE  ParseRoutePath(path) \in Screens
  <2>1. ParseRoutePath(path) = TopicScreen(c, t, "overview")
    BY <1>4 DEF ParseRoutePath, TopicScreen
  <2>2. QED
    BY <1>0, <2>1, ScreenFields
<1>5. ASSUME NEW c \in Clusters, NEW t \in Topics, NEW tab \in Tabs,
             path = <<"clusters", c, "topics", t, tab>>
      PROVE  ParseRoutePath(path) \in Screens
  <2>1. ParseRoutePath(path) = TopicScreen(c, t, tab)
    BY <1>5 DEF ParseRoutePath, TopicScreen
  <2>2. QED
    BY <2>1, ScreenFields
<1>6. QED
  BY <1>1, <1>2, <1>3, <1>4, <1>5 DEF Paths

-----------------------------------------------------------------------------
(* A render.                                                               *)

(* The cluster in use is one of the list, if there is a list.              *)
LEMMA ClusterInUse ==
  ASSUME NEW r \in Screens, NEW list \in Lists \cup {<<>>}
  PROVE  /\ ClusterIdOf(r, list) \in Clusters \cup {None}
         /\ list # <<>> => ClusterIdOf(r, list) \in Clusters /\ Listed(ClusterIdOf(r, list), list)
         /\ list = <<>> => ClusterIdOf(r, list) = r.cluster
         /\ r.topic # None => ClusterIdOf(r, list) \in Clusters
<1>1. list \in Seq(Clusters)
  BY WebAssumption, EmptySeq
<1>2. r.cluster \in Clusters \cup {None} /\ (r.topic # None => r.cluster \in Clusters)
  BY TopicHasCluster
<1>3. list = <<>> => ClusterIdOf(r, list) = r.cluster
  BY DEF ClusterIdOf
<1>4. ASSUME list # <<>>
      PROVE  ClusterIdOf(r, list) \in Clusters /\ Listed(ClusterIdOf(r, list), list)
  <2>1. Len(list) \in Nat \ {0} /\ DOMAIN list = 1..Len(list)
    BY <1>1, <1>4, EmptySeq, LenProperties
  <2>2. 1 \in DOMAIN list /\ \A i \in DOMAIN list : list[i] \in Clusters
    BY <1>1, <2>1, ElementOfSeq
  <2>3. CASE Listed(r.cluster, list)
    BY <2>2, <2>3 DEF ClusterIdOf, Listed
  <2>4. CASE ~ Listed(r.cluster, list)
    <3>1. ClusterIdOf(r, list) = list[1]
      BY <1>4, <2>4 DEF ClusterIdOf
    <3>2. QED
      BY <2>2, <3>1 DEF Listed
  <2>5. QED
    BY <2>3, <2>4
<1>5. QED
  BY <1>2, <1>3, <1>4

(* The cluster in use stays in use when the route names it.                *)
LEMMA ClusterStays ==
  ASSUME NEW r \in Screens, NEW list \in Lists \cup {<<>>}, NEW to,
         to.cluster = ClusterIdOf(r, list)
  PROVE  ClusterIdOf(to, list) = ClusterIdOf(r, list)
<1>1. CASE list = <<>>
  BY <1>1 DEF ClusterIdOf
<1>2. CASE list # <<>>
  <2>1. Listed(to.cluster, list)
    BY <1>2, ClusterInUse
  <2>2. QED
    BY <2>1 DEF ClusterIdOf
<1>3. QED
  BY <1>1, <1>2

(* What a handler may hand to a render.                                    *)
Proper(n) ==
  /\ n.auth \in {"unknown", "yes", "no"}
  /\ n.route \in Screens
  /\ n.history \in Seq(Paths) /\ Len(n.history) <= MaxHistory /\ n.at \in 1..Len(n.history)
  /\ n.list \in Lists \cup {<<>>}
  /\ n.sel \in Key \cup {None} /\ n.load \in Key \cup {None}
  /\ n.loading \in BOOLEAN /\ n.error \in BOOLEAN
  /\ Addressed(n.route, n.history[n.at])
  /\ n.new \/ n.error \/ (n.loading = topicLoading /\ n.error = topicError)

LEMMA NowFields ==
  /\ Now.auth = authenticated /\ Now.route = route /\ Now.history = history /\ Now.at = at
  /\ Now.list = clusters /\ Now.sel = selected /\ Now.new = FALSE
  /\ Now.loading = topicLoading /\ Now.error = topicError /\ Now.load = load
BY DEF Now

LEMMA SameDeps ==
  ASSUME NEW a, NEW b, NEW c, NEW d, NEW e, NEW f,
         NEW a1, NEW b1, NEW c1, NEW d1, NEW e1, NEW f1,
         <<a, b, c, d, e, f>> = <<a1, b1, c1, d1, e1, f1>>
  PROVE  a = a1 /\ b = b1 /\ c = c1 /\ d = d1 /\ e = e1 /\ f = f1
OBVIOUS

LEMMA RenderedKeeps ==
  ASSUME Screened, NEW n, Proper(n), Rendered(n)
  PROVE  Screened'
<1> DEFINE cluster == ClusterIdOf(n.route, n.list)
           to == [n.route EXCEPT !.cluster = cluster]
<1>1. /\ authenticated' = n.auth /\ clusters' = n.list /\ route' = to /\ at' = n.at
      /\ history' = IF n.list = <<>> \/ to = n.route THEN n.history
                    ELSE [n.history EXCEPT ![n.at] = BuildRoutePath(to)]
      /\ IF Deps(n) = Deps(Now) THEN Keep(n) /\ load' = n.load ELSE LoadTopic(n)
  BY DEF Rendered
<1>2. /\ cluster \in Clusters \cup {None}
      /\ n.list # <<>> => cluster \in Clusters
      /\ n.list = <<>> => cluster = n.route.cluster
      /\ n.route.topic # None => cluster \in Clusters
  BY ClusterInUse DEF Proper
<1>3. n.route \in Screens /\ n.list \in Lists \cup {<<>>}
  BY DEF Proper
<1> HIDE DEF cluster
<1>4. to \in Screens /\ to.cluster = cluster /\ to.topic = n.route.topic
  <2>1. CASE cluster \in Clusters
    BY <1>3, <2>1, ScreenOfCluster
  <2>2. CASE cluster \notin Clusters
    <3>1. n.list = <<>> /\ cluster = n.route.cluster
      BY <1>2, <2>2
    <3>2. to = n.route
      BY <1>3, <3>1 DEF Screens, NoTopic, TopicScreen
    <3>3. QED
      BY <1>3, <3>1, <3>2
  <2>3. QED
    BY <2>1, <2>2
<1> HIDE DEF to
<1>5. ClusterId' = cluster
  <2>1. ClusterIdOf(to, n.list) = cluster
    BY <1>3, <1>4, ClusterStays DEF cluster
  <2>2. QED
    BY <1>1, <2>1 DEF ClusterId, ClusterIdOf, Listed
<1>6. /\ history' \in Seq(Paths) /\ Len(history') <= MaxHistory /\ at' \in 1..Len(history')
      /\ route' \in Screens /\ AddressShowsRoute'
  <2>0. /\ n.history \in Seq(Paths) /\ Len(n.history) <= MaxHistory /\ n.at \in 1..Len(n.history)
        /\ Addressed(n.route, n.history[n.at])
    BY DEF Proper
  <2>1. CASE to = n.route
    <3>1. route' = n.route /\ history' = n.history /\ at' = n.at /\ clusters' = n.list
      BY <1>1, <2>1
    <3>2. n.list # <<>> => n.route.cluster # None /\ Listed(n.route.cluster, n.list)
      BY <1>2, <1>3, <1>4, <2>1, ClusterInUse, WebAssumption DEF cluster
    <3>3. \/ ParseRoutePath(n.history[n.at]) = n.route
          \/ n.list = <<>> /\ n.route.cluster = None /\ n.history[n.at] = <<>>
      BY <2>0, <3>2 DEF Addressed
    <3>4. AddressShowsRoute'
      BY <3>1, <3>2, <3>3 DEF AddressShowsRoute, Listed
    <3>5. QED
      BY <1>3, <2>0, <3>1, <3>4
  <2>2. CASE to # n.route
    <3>1. n.list # <<>>
      <4> SUFFICES ASSUME n.list = <<>> PROVE to = n.route
        BY <2>2
      <4>1. cluster = n.route.cluster
        BY <1>2
      <4>2. QED
        BY <1>3, <4>1 DEF to, Screens, NoTopic, TopicScreen
    <3>2. cluster # None
      BY <1>2, <3>1, WebAssumption
    <3>3. /\ BuildRoutePath(to) \in Paths
          /\ ParseRoutePath(BuildRoutePath(to)) = to
      BY <1>4, <3>2, AddressOpensScreen
    <3>4. history' = [n.history EXCEPT ![n.at] = BuildRoutePath(to)]
      BY <1>1, <2>2, <3>1
    <3>5. /\ history' \in Seq(Paths) /\ Len(history') = Len(n.history)
          /\ history'[n.at] = BuildRoutePath(to)
      BY <2>0, <3>3, <3>4, ExceptSeq
    <3>6. QED
      <4>1. Listed(cluster, n.list)
        BY <1>3, <3>1, ClusterInUse DEF cluster
      <4>2. AddressShowsRoute'
        BY <1>1, <1>4, <3>3, <3>5, <4>1 DEF AddressShowsRoute, Listed
      <4>3. QED
        BY <1>1, <1>4, <2>0, <3>5, <4>2
  <2>3. QED
    BY <2>1, <2>2
<1>7. KeyOf(n) = [cluster |-> cluster, topic |-> n.route.topic]
  BY DEF KeyOf, cluster
<1>8. n.route.topic # None => KeyOf(n) \in Key
  <2>1. n.route.topic # None => n.route.topic \in Topics
    BY <1>3, TopicHasCluster
  <2>2. QED
    BY <1>2, <1>7, <2>1 DEF Key
<1>9. TopicKey' = KeyOf(n)
  BY <1>1, <1>4, <1>5, <1>7 DEF TopicKey
<1>10. /\ selected' \in Key \cup {None} /\ load' \in Key \cup {None}
       /\ topicLoading' \in BOOLEAN /\ topicError' \in BOOLEAN
  <2>1. /\ n.sel \in Key \cup {None} /\ n.load \in Key \cup {None}
        /\ n.loading \in BOOLEAN /\ n.error \in BOOLEAN
    BY DEF Proper
  <2>2. CASE Keep(n) /\ load' \in {n.load, None}
    BY <2>1, <2>2, Zenon DEF Keep
  <2>3. CASE LoadTopic(n)
    BY <1>8, <2>1, <2>3, Zenon DEF Keep, LoadTopic
  <2>4. QED
    BY <1>1, <2>2, <2>3
<1>11. BlankOnlyWithoutClusters'
  <2> SUFFICES ASSUME n.auth = "yes", n.list # <<>>, n.route.topic # None
               PROVE  topicLoading' \/ topicError' \/ selected' = TopicKey'
    BY <1>1, <1>4, Zenon DEF BlankOnlyWithoutClusters, Home, TopicView, Matching
  <2>1. CASE Deps(n) # Deps(Now)
    <3>1. LoadTopic(n)
      BY <1>1, <2>1
    <3>2. (n.sel = KeyOf(n) /\ Keep(n)) \/ topicLoading'
      BY <3>1 DEF LoadTopic
    <3>3. QED
      BY <1>9, <3>2, Zenon DEF Keep
  <2>2. CASE Deps(n) = Deps(Now)
    <3>1. Keep(n)
      BY <1>1, <2>2
    <3>2. /\ authenticated = "yes" /\ ClusterId = cluster /\ Len(clusters) = Len(n.list)
          /\ route.topic = n.route.topic /\ selected = n.sel /\ n.new = FALSE
      <4>1. Deps(n) = <<n.auth, cluster, Len(n.list), n.route.topic, n.sel, n.new>>
        BY DEF Deps, cluster
      <4>2. Deps(Now) = <<authenticated, ClusterId, Len(clusters), route.topic, selected, FALSE>>
        BY NowFields DEF Deps, ClusterId
      <4>3. <<n.auth, cluster, Len(n.list), n.route.topic, n.sel, n.new>>
              = <<authenticated, ClusterId, Len(clusters), route.topic, selected, FALSE>>
        BY <2>2, <4>1, <4>2, Zenon
      <4>4. /\ n.auth = authenticated /\ cluster = ClusterId /\ Len(n.list) = Len(clusters)
            /\ n.route.topic = route.topic /\ n.sel = selected /\ n.new = FALSE
        BY <4>3, SameDeps, Zenon
      <4>5. QED
        BY <4>4, Zenon
    <3>3. clusters # <<>>
      <4>1. n.list \in Seq(Clusters) /\ clusters \in Seq(Clusters)
        BY <1>3, WebAssumption, EmptySeq DEF Screened
      <4>2. QED
        BY <3>2, <4>1, EmptySeq
    <3>4. topicLoading \/ topicError \/ selected = TopicKey
      BY <3>2, <3>3, Zenon DEF Screened, BlankOnlyWithoutClusters, Home, TopicView, Matching
    <3>5. TopicKey = KeyOf(n)
      BY <1>7, <3>2 DEF TopicKey
    <3>6. n.error \/ (n.loading = topicLoading /\ n.error = topicError)
      BY <3>2 DEF Proper
    <3>7. QED
      BY <1>9, <3>1, <3>2, <3>4, <3>5, <3>6, Zenon DEF Keep
  <2>3. QED
    BY <2>1, <2>2
<1>12. authenticated' \in {"unknown", "yes", "no"} /\ clusters' \in Lists \cup {<<>>}
  BY <1>1, <1>3 DEF Proper
<1>13. QED
  BY <1>6, <1>10, <1>11, <1>12 DEF Screened

-----------------------------------------------------------------------------
(* What each handler hands to the render.                                  *)

LEMMA NowIsProper ==
  ASSUME Screened
  PROVE  Proper(Now)
BY NowFields DEF Screened, Proper, AddressShowsRoute, Addressed

(* navigate adds the address of the route behind the entry it is at.       *)
LEMMA HistoryGrows ==
  ASSUME Screened, at < MaxHistory, MaxHistory \in Nat, NEW r \in Screens
  PROVE  LET h == Append(SubSeq(history, 1, at), BuildRoutePath(r))
         IN /\ h \in Seq(Paths) /\ Len(h) <= MaxHistory /\ at + 1 \in 1..Len(h)
            /\ Addressed(r, h[at + 1])
<1> DEFINE s == SubSeq(history, 1, at)
           h == Append(s, BuildRoutePath(r))
<1>1. history \in Seq(Paths) /\ at \in 1..Len(history) /\ at \in Int /\ at >= 1
  <2>1. history \in Seq(Paths) /\ at \in 1..Len(history)
    BY DEF Screened
  <2>2. Len(history) \in Nat
    BY <2>1, LenProperties
  <2>3. QED
    BY <2>1, <2>2
<1>2. \A i \in 1..at : history[i] \in Paths
  <2>1. \A i \in 1..at : i \in 1..Len(history)
    BY <1>1
  <2>2. QED
    BY <1>1, <2>1, ElementOfSeq
<1>3. s \in Seq(Paths) /\ Len(s) = at
  <2>1. 1 \in Int /\ at \in Int
    BY <1>1
  <2>2. s \in Seq(Paths) /\ Len(s) = IF 1 <= at THEN at - 1 + 1 ELSE 0
    BY <1>2, <2>1, SubSeqProperties
  <2>3. QED
    BY <1>1, <2>2
<1>4. BuildRoutePath(r) \in Paths /\ Addressed(r, BuildRoutePath(r))
  BY AddressOpensScreen
<1> HIDE DEF s
<1>5. h \in Seq(Paths) /\ Len(h) = Len(s) + 1 /\ h[Len(s) + 1] = BuildRoutePath(r)
  BY <1>3, <1>4, AppendProperties
<1> HIDE DEF h
<1>6. Len(h) = at + 1 /\ h[at + 1] = BuildRoutePath(r)
  BY <1>3, <1>5
<1>7. Len(h) <= MaxHistory /\ at + 1 \in 1..Len(h)
  BY <1>1, <1>6
<1>8. QED
  BY <1>4, <1>5, <1>6, <1>7 DEF h, s

LEMMA NavigateFields ==
  ASSUME NEW r
  PROVE  LET n == Navigate(Now, r)
         IN /\ n.auth = authenticated /\ n.route = r /\ n.at = at + 1
            /\ n.history = Append(SubSeq(history, 1, at), BuildRoutePath(r))
            /\ n.list = clusters /\ n.sel = selected /\ n.new = FALSE
            /\ n.loading = topicLoading /\ n.error = topicError /\ n.load = load
BY DEF Navigate, Now

LEMMA NavigateIsProper ==
  ASSUME Screened, at < MaxHistory, NEW r \in Screens
  PROVE  Proper(Navigate(Now, r))
<1>1. MaxHistory \in Nat
  BY WebAssumption
<1> DEFINE n == Navigate(Now, r)
<1>2. /\ n.auth = authenticated /\ n.route = r /\ n.at = at + 1
      /\ n.history = Append(SubSeq(history, 1, at), BuildRoutePath(r))
      /\ n.list = clusters /\ n.sel = selected
      /\ n.loading = topicLoading /\ n.error = topicError /\ n.load = load
  BY NavigateFields
<1> HIDE DEF n
<1>3. /\ n.history \in Seq(Paths) /\ Len(n.history) <= MaxHistory /\ n.at \in 1..Len(n.history)
      /\ Addressed(n.route, n.history[n.at])
  BY <1>1, <1>2, HistoryGrows
<1>4. Proper(n)
  BY <1>2, <1>3, Zenon DEF Screened, Proper
<1>5. QED
  BY <1>4 DEF n

LEMMA OpenTopicFields ==
  ASSUME NEW r, NEW k
  PROVE  LET n == Navigate([Now EXCEPT !.sel = k, !.new = TRUE], r)
         IN /\ n.auth = authenticated /\ n.route = r /\ n.at = at + 1
            /\ n.history = Append(SubSeq(history, 1, at), BuildRoutePath(r))
            /\ n.list = clusters /\ n.sel = k /\ n.new = TRUE
            /\ n.loading = topicLoading /\ n.error = topicError /\ n.load = load
BY DEF Navigate, Now

LEMMA OpenTopicIsProper ==
  ASSUME Screened, at < MaxHistory, NEW r \in Screens, NEW k \in Key
  PROVE  Proper(Navigate([Now EXCEPT !.sel = k, !.new = TRUE], r))
<1>1. MaxHistory \in Nat
  BY WebAssumption
<1> DEFINE n == Navigate([Now EXCEPT !.sel = k, !.new = TRUE], r)
<1>2. /\ n.auth = authenticated /\ n.route = r /\ n.at = at + 1
      /\ n.history = Append(SubSeq(history, 1, at), BuildRoutePath(r))
      /\ n.list = clusters /\ n.sel = k /\ n.new = TRUE
      /\ n.loading = topicLoading /\ n.error = topicError /\ n.load = load
  BY OpenTopicFields
<1> HIDE DEF n
<1>3. /\ n.history \in Seq(Paths) /\ Len(n.history) <= MaxHistory /\ n.at \in 1..Len(n.history)
      /\ Addressed(n.route, n.history[n.at])
  BY <1>1, <1>2, HistoryGrows
<1>4. Proper(n)
  BY <1>2, <1>3, Zenon DEF Screened, Proper
<1>5. QED
  BY <1>4 DEF n

LEMMA ReplaceFields ==
  ASSUME NEW r
  PROVE  LET n == Replace(Now, r)
         IN /\ n.auth = authenticated /\ n.route = r /\ n.at = at
            /\ n.history = [history EXCEPT ![at] = BuildRoutePath(r)]
            /\ n.list = clusters /\ n.sel = selected
            /\ n.loading = topicLoading /\ n.error = topicError /\ n.load = load
BY DEF Replace, Now

LEMMA ReplaceIsProper ==
  ASSUME Screened, NEW r \in Screens
  PROVE  Proper(Replace(Now, r))
<1> DEFINE n == Replace(Now, r)
<1>1. /\ n.auth = authenticated /\ n.route = r /\ n.at = at
      /\ n.history = [history EXCEPT ![at] = BuildRoutePath(r)]
      /\ n.list = clusters /\ n.sel = selected
      /\ n.loading = topicLoading /\ n.error = topicError /\ n.load = load
  BY ReplaceFields
<1> HIDE DEF n
<1>2. history \in Seq(Paths) /\ at \in 1..Len(history) /\ Len(history) <= MaxHistory
  BY DEF Screened
<1>3. BuildRoutePath(r) \in Paths /\ Addressed(r, BuildRoutePath(r))
  BY AddressOpensScreen
<1>4. /\ n.history \in Seq(Paths) /\ Len(n.history) = Len(history)
      /\ n.history[at] = BuildRoutePath(r)
  BY <1>1, <1>2, <1>3, ExceptSeq
<1>5. /\ Len(n.history) <= MaxHistory /\ n.at \in 1..Len(n.history)
      /\ Addressed(n.route, n.history[n.at])
  BY <1>1, <1>2, <1>3, <1>4
<1>6. Proper(n)
  BY <1>1, <1>4, <1>5, Zenon DEF Screened, Proper
<1>7. QED
  BY <1>6 DEF n

LEMMA BackIsProper ==
  ASSUME Screened, NEW i \in DOMAIN history
  PROVE  Proper([Now EXCEPT !.at = i, !.route = ParseRoutePath(history[i])])
<1> DEFINE n == [Now EXCEPT !.at = i, !.route = ParseRoutePath(history[i])]
<1>1. /\ n.auth = authenticated /\ n.route = ParseRoutePath(history[i]) /\ n.at = i
      /\ n.history = history
      /\ n.list = clusters /\ n.sel = selected
      /\ n.loading = topicLoading /\ n.error = topicError /\ n.load = load
  BY DEF Now
<1> HIDE DEF n
<1>2. history \in Seq(Paths) /\ i \in 1..Len(history)
  BY LenProperties DEF Screened
<1>3. ParseRoutePath(history[i]) \in Screens
  BY <1>2, ElementOfSeq, AddressesOpen
<1>4. Proper(n)
  BY <1>1, <1>2, <1>3, Zenon DEF Screened, Proper, Addressed
<1>5. QED
  BY <1>4 DEF n

(* A list of clusters, a topic, a failure or a session that has come.      *)
LEMMA ListIsProper ==
  ASSUME Screened, NEW list \in Lists
  PROVE  Proper([Now EXCEPT !.list = list])
<1> DEFINE n == [Now EXCEPT !.list = list]
<1>1. /\ n.auth = authenticated /\ n.route = route /\ n.at = at /\ n.history = history
      /\ n.list = list /\ n.sel = selected
      /\ n.loading = topicLoading /\ n.error = topicError /\ n.load = load
  BY DEF Now
<1> HIDE DEF n
<1>2. Proper(n)
  BY <1>1, Zenon DEF Screened, Proper, AddressShowsRoute, Addressed
<1>3. QED
  BY <1>2 DEF n

LEMMA FoundIsProper ==
  ASSUME Screened, NEW k \in Key
  PROVE  Proper([Now EXCEPT !.sel = k, !.new = TRUE, !.loading = FALSE, !.load = None])
<1> DEFINE n == [Now EXCEPT !.sel = k, !.new = TRUE, !.loading = FALSE, !.load = None]
<1>1. /\ n.auth = authenticated /\ n.route = route /\ n.at = at /\ n.history = history
      /\ n.list = clusters /\ n.sel = k /\ n.new = TRUE
      /\ n.loading = FALSE /\ n.error = topicError /\ n.load = None
  BY DEF Now
<1> HIDE DEF n
<1>2. n.loading \in BOOLEAN /\ n.error \in BOOLEAN
  BY <1>1 DEF Screened
<1>3. Proper(n)
  BY <1>1, <1>2, Zenon DEF Screened, Proper, AddressShowsRoute, Addressed
<1>4. QED
  BY <1>3 DEF n

LEMMA FailedIsProper ==
  ASSUME Screened
  PROVE  Proper([Now EXCEPT !.loading = FALSE, !.error = TRUE, !.load = None])
<1> DEFINE n == [Now EXCEPT !.loading = FALSE, !.error = TRUE, !.load = None]
<1>1. /\ n.auth = authenticated /\ n.route = route /\ n.at = at /\ n.history = history
      /\ n.list = clusters /\ n.sel = selected
      /\ n.loading = FALSE /\ n.error = TRUE /\ n.load = None
  BY DEF Now
<1> HIDE DEF n
<1>2. n.loading \in BOOLEAN /\ n.error \in BOOLEAN
  BY <1>1
<1>3. Proper(n)
  BY <1>1, <1>2, Zenon DEF Screened, Proper, AddressShowsRoute, Addressed
<1>4. QED
  BY <1>3 DEF n

LEMMA RefreshedIsProper ==
  ASSUME Screened, NEW k \in Key
  PROVE  Proper([Now EXCEPT !.sel = k, !.new = TRUE])
<1> DEFINE n == [Now EXCEPT !.sel = k, !.new = TRUE]
<1>1. /\ n.auth = authenticated /\ n.route = route /\ n.at = at /\ n.history = history
      /\ n.list = clusters /\ n.sel = k /\ n.new = TRUE
      /\ n.loading = topicLoading /\ n.error = topicError /\ n.load = load
  BY DEF Now
<1> HIDE DEF n
<1>2. Proper(n)
  BY <1>1, Zenon DEF Screened, Proper, AddressShowsRoute, Addressed
<1>3. QED
  BY <1>2 DEF n

LEMMA SessionIsProper ==
  ASSUME Screened, NEW auth \in {"unknown", "yes", "no"}
  PROVE  Proper([Now EXCEPT !.auth = auth])
<1> DEFINE n == [Now EXCEPT !.auth = auth]
<1>1. /\ n.auth = auth /\ n.route = route /\ n.at = at /\ n.history = history
      /\ n.list = clusters /\ n.sel = selected
      /\ n.loading = topicLoading /\ n.error = topicError /\ n.load = load
  BY DEF Now
<1> HIDE DEF n
<1>2. Proper(n)
  BY <1>1, Zenon DEF Screened, Proper, AddressShowsRoute, Addressed
<1>3. QED
  BY <1>2 DEF n

-----------------------------------------------------------------------------
(* The polls.                                                              *)

LEMMA ElsewhereKeeps ==
  ASSUME Polled, UNCHANGED Elsewhere
  PROVE  Polled'
<1>1. UNCHANGED <<servers, requests, current, shown, dashboardState, refreshes>>
  BY DEF Elsewhere
<1>2. QED
  BY <1>1 DEF Polled

(* There is a number that no request in flight bears.                      *)
LEMMA UnusedIsUnused ==
  ASSUME Polled, Cardinality(requests) < MaxRequests
  PROVE  Unused \in Numbers /\ \A r \in requests : r.n # Unused
<1>1. MaxRequests \in Nat /\ Cardinality(requests) \in Nat /\ IsFiniteSet(requests)
  BY WebAssumption, FS_CardinalityType DEF Polled
<1>2. IsFiniteSet(Numbers) /\ Cardinality(Numbers) = MaxRequests + 1
  BY <1>1, FS_Interval DEF Numbers
<1> DEFINE f == [r \in requests |-> r.n]
           Taken == {r.n : r \in requests}
<1>3. f \in Surjection(requests, Taken)
  BY DEF Surjection
<1>4. IsFiniteSet(Taken) /\ Cardinality(Taken) <= Cardinality(requests)
  BY <1>1, <1>3, FS_Surjection
<1>5. Cardinality(Taken) \in Nat
  BY <1>4, FS_CardinalityType
<1>6. ~ (Numbers \subseteq Taken)
  <2> SUFFICES ASSUME Numbers \subseteq Taken PROVE FALSE
    OBVIOUS
  <2>1. Cardinality(Numbers) <= Cardinality(Taken)
    BY <1>4, FS_Subset
  <2>2. QED
    BY <1>1, <1>2, <1>4, <1>5, <2>1
<1>7. \E n \in Numbers : \A r \in requests : r.n # n
  BY <1>6
<1>8. QED
  BY <1>7, Zenon DEF Unused

LEMMA BeginKeeps ==
  ASSUME Polled, Begin, UNCHANGED <<servers, shown, refreshes>>
  PROVE  Polled'
<1> DEFINE new == [n |-> Unused, from |-> Len(servers)]
<1>1. /\ requests' = requests \cup {new} /\ current' = Unused
      /\ dashboardState' = IF dashboardState = "idle" THEN "loading" ELSE dashboardState
      /\ Cardinality(requests) < MaxRequests
  BY DEF Begin
<1>2. Unused \in Numbers /\ \A r \in requests : r.n # Unused
  BY <1>1, UnusedIsUnused
<1>3. /\ servers \in Seq(Lists) /\ Len(servers) \in Versions
      /\ requests \subseteq [n : Numbers, from : Versions]
      /\ shown \in Versions \cup {0} /\ shown <= Len(servers)
      /\ IsFiniteSet(requests)
      /\ \A r \in requests : r.from <= Len(servers)
      /\ \A r, s \in requests : r.n = s.n => r = s
  BY DEF Polled
<1>4. new.n = Unused /\ new.from = Len(servers) /\ new \in [n : Numbers, from : Versions]
  BY <1>2, <1>3
<1> HIDE DEF new
<1>5. Len(servers) <= Len(servers) /\ Len(servers) \in Nat
  BY <1>3, WebAssumption DEF Versions
<1>6. IsFiniteSet(requests') /\ requests' \subseteq [n : Numbers, from : Versions]
  BY <1>1, <1>3, <1>4, FS_AddElement
<1>7. ASSUME NEW r \in requests' PROVE r.from <= Len(servers) /\ (r.n = current' => shown <= r.from)
  <2>1. CASE r = new
    BY <1>3, <1>4, <1>5, <2>1
  <2>2. CASE r \in requests
    BY <1>1, <1>2, <1>3, <2>2
  <2>3. QED
    BY <1>1, <2>1, <2>2
<1>8. ASSUME NEW r \in requests', NEW s \in requests', r.n = s.n PROVE r = s
  BY <1>1, <1>2, <1>3, <1>4, <1>8
<1>9. dashboardState' \in {"idle", "loading", "ready", "error"} /\ current' \in Numbers \cup {0}
  BY <1>1, <1>2 DEF Polled
<1>10. /\ servers' = servers /\ shown' = shown /\ refreshes' = refreshes
  OBVIOUS
<1>11. refreshes \subseteq Key
  BY DEF Polled
<1>12. QED
  BY <1>3, <1>6, <1>7, <1>8, <1>9, <1>10, <1>11 DEF Polled

LEMMA AnsweredKeeps ==
  ASSUME Polled, NEW request \in requests, NEW version \in Nat,
         version >= request.from, version <= Len(servers),
         requests' = requests \ {request}, UNCHANGED <<servers, current, refreshes>>,
         dashboardState' \in {"idle", "loading", "ready", "error"},
         IF request.n = current THEN shown' = version ELSE shown' = shown
  PROVE  Polled' /\ (shown' = 0 \/ shown' >= shown)
<1>1. /\ servers \in Seq(Lists) /\ Len(servers) \in Versions
      /\ requests \subseteq [n : Numbers, from : Versions]
      /\ shown \in Versions \cup {0} /\ shown <= Len(servers)
      /\ IsFiniteSet(requests)
      /\ \A r \in requests : r.from <= Len(servers) /\ (r.n = current => shown <= r.from)
      /\ \A r, s \in requests : r.n = s.n => r = s
  BY DEF Polled
<1>2. request.from \in Versions /\ \A n \in Versions : n \in Nat /\ n > 0
  BY <1>1 DEF Versions
<1>3. MaxVersions \in Nat /\ Len(servers) \in Nat /\ Len(servers) <= MaxVersions
  BY <1>1, WebAssumption DEF Versions
<1>4. shown \in Nat /\ request.from \in Nat /\ request.from > 0
  BY <1>1, <1>2
<1>5. shown' \in Versions \cup {0} /\ shown' <= Len(servers) /\ shown' >= shown
  <2>1. CASE request.n = current
    <3>1. shown <= request.from
      BY <1>1, <2>1
    <3>2. version \in Versions
      BY <1>3, <1>4 DEF Versions
    <3>3. QED
      BY <1>4, <2>1, <3>1, <3>2
  <2>2. CASE request.n # current
    BY <1>1, <1>4, <2>2
  <2>3. QED
    BY <2>1, <2>2
<1>6. IsFiniteSet(requests')
  BY <1>1, FS_RemoveElement
<1>7. \A r \in requests' : r.n = current => shown' <= r.from
  <2> SUFFICES ASSUME NEW r \in requests', r.n = current PROVE shown' <= r.from
    OBVIOUS
  <2>1. r \in requests /\ r # request
    OBVIOUS
  <2>2. request.n # current
    BY <1>1, <2>1
  <2>3. QED
    BY <1>1, <2>1, <2>2
<1>8. Polled'
  BY <1>1, <1>5, <1>6, <1>7 DEF Polled
<1>9. QED
  BY <1>5, <1>8

-----------------------------------------------------------------------------
(* The steps.                                                              *)

(* A step that renders nothing new.                                        *)
LEMMA ScreenKept ==
  ASSUME Screened, UNCHANGED <<authenticated, place, clusters, view, load>>
  PROVE  Screened'
<1>1. UNCHANGED <<authenticated, route, history, at, clusters, selected, topicLoading, topicError, load>>
  BY DEF place, view
<1>2. AddressShowsRoute' <=> AddressShowsRoute
  BY <1>1 DEF AddressShowsRoute
<1>3. BlankOnlyWithoutClusters' <=> BlankOnlyWithoutClusters
  BY <1>1 DEF BlankOnlyWithoutClusters, Home, TopicView, Matching, TopicKey, ClusterId, ClusterIdOf, Listed
<1>4. QED
  BY <1>1, <1>2, <1>3, Zenon DEF Screened

LEMMA InUse ==
  ASSUME Screened
  PROVE  /\ ClusterId \in Clusters \cup {None}
         /\ clusters # <<>> => ClusterId \in Clusters
         /\ route.topic # None => ClusterId \in Clusters /\ route.topic \in Topics /\ TopicKey \in Key
                                  /\ route.page = "topics"
         /\ route.page \in Pages
<1>1. route \in Screens /\ clusters \in Lists \cup {<<>>}
  BY DEF Screened
<1>2. /\ ClusterId \in Clusters \cup {None} /\ (clusters # <<>> => ClusterId \in Clusters)
      /\ route.topic # None => ClusterId \in Clusters
  BY <1>1, ClusterInUse DEF ClusterId
<1>3. route.page \in Pages
      /\ (route.topic # None => route.topic \in Topics /\ route.page = "topics")
  BY <1>1, TopicHasCluster
<1>4. QED
  BY <1>2, <1>3 DEF TopicKey, Key

LEMMA NavigationKeeps ==
  ASSUME WebInv, Navigation
  PROVE  WebInv' /\ (shown' = 0 \/ shown' >= shown)
<1>0. Screened /\ Polled /\ shown \in Nat
  BY DEF WebInv, Polled, Versions
(* Every button that adds an entry to the history.                         *)
<1>1. ASSUME NEW r \in Screens, at < MaxHistory, UNCHANGED Elsewhere, Rendered(Navigate(Now, r))
      PROVE  WebInv' /\ shown' = shown
  BY <1>0, <1>1, NavigateIsProper, RenderedKeeps, ElsewhereKeeps DEF WebInv, Elsewhere
<1>2. ASSUME NEW page \in Pages, ChangePage(page) PROVE WebInv' /\ shown' = shown
  <2>1. NoTopic(page, ClusterId) \in Screens
    BY <1>0, InUse, ScreenFields
  <2>2. QED
    BY <1>1, <1>2, <2>1 DEF ChangePage
<1>3. ASSUME NEW id \in Clusters, ChangeCluster(id) PROVE WebInv' /\ shown' = shown
  <2>1. NoTopic(route.page, id) \in Screens
    BY <1>0, InUse, ScreenFields
  <2>2. QED
    BY <1>1, <1>3, <2>1 DEF ChangeCluster
<1>4. ASSUME NEW id \in Clusters, NEW page \in Pages, OpenCluster(id, page)
      PROVE  WebInv' /\ shown' = shown
  <2>1. NoTopic(page, id) \in Screens
    BY ScreenFields
  <2>2. QED
    BY <1>1, <1>4, <2>1 DEF OpenCluster
<1>5. ASSUME NEW tab \in Tabs, SetTab(tab) PROVE WebInv' /\ shown' = shown
  <2>1. route.topic # None /\ route \in Screens
    BY <1>0, <1>5 DEF SetTab, Workspace, Screened
  <2>2. PICK c \in Clusters, t \in Topics, tab0 \in Tabs : route = TopicScreen(c, t, tab0)
    BY <2>1, ScreenFields DEF Screens
  <2>3. [route EXCEPT !.tab = tab] = TopicScreen(c, t, tab)
    BY <2>2 DEF TopicScreen
  <2>4. [route EXCEPT !.tab = tab] \in Screens
    BY <2>3, ScreenFields
  <2>5. QED
    BY <1>1, <1>5, <2>4 DEF SetTab
<1>6. ASSUME OnBack PROVE WebInv' /\ shown' = shown
  <2>1. NoTopic("topics", ClusterId) \in Screens
    BY <1>0, InUse, ScreenFields, WebAssumption
  <2>2. QED
    BY <1>1, <1>6, <2>1 DEF OnBack
<1>7. ASSUME RouteErrorBack PROVE WebInv' /\ shown' = shown
  <2>1. NoTopic("topics", ClusterId) \in Screens
    BY <1>0, InUse, ScreenFields, WebAssumption
  <2>2. UNCHANGED Elsewhere /\ Rendered(Replace(Now, NoTopic("topics", ClusterId)))
    BY <1>7 DEF RouteErrorBack
  <2>3. QED
    BY <1>0, <2>1, <2>2, ReplaceIsProper, RenderedKeeps, ElsewhereKeeps DEF WebInv, Elsewhere
<1>8. ASSUME NEW t \in Topics, NEW tab \in Tabs, OpenTopic(t, tab) PROVE WebInv' /\ shown' = shown
  <2> DEFINE k == [cluster |-> ClusterId, topic |-> t]
             r == [page |-> "topics", cluster |-> ClusterId, topic |-> t, tab |-> tab]
  <2>1. UNCHANGED Elsewhere /\ at < MaxHistory /\ ClusterId # None
        /\ Rendered(Navigate([Now EXCEPT !.sel = k, !.new = TRUE], r))
    BY <1>8 DEF OpenTopic
  <2>2. ClusterId \in Clusters
    BY <1>0, <2>1, InUse
  <2>3. r \in Screens
    <3>1. r = TopicScreen(ClusterId, t, tab)
      BY DEF TopicScreen
    <3>2. QED
      BY <2>2, <3>1, ScreenFields
  <2>4. k \in Key
    BY <2>2 DEF Key
  <2> HIDE DEF k, r
  <2>5. QED
    BY <1>0, <2>1, <2>3, <2>4, OpenTopicIsProper, RenderedKeeps, ElsewhereKeeps DEF WebInv, Elsewhere
<1>9. ASSUME NEW i \in DOMAIN history, BackOrForward(i) PROVE WebInv' /\ shown' = shown
  <2>1. UNCHANGED Elsewhere /\ Rendered([Now EXCEPT !.at = i, !.route = ParseRoutePath(history[i])])
    BY <1>9 DEF BackOrForward
  <2>2. QED
    BY <1>0, <2>1, BackIsProper, RenderedKeeps, ElsewhereKeeps DEF WebInv, Elsewhere
<1>10. ASSUME Reload PROVE WebInv' /\ shown' = 0
  <2>1. /\ authenticated' = "unknown" /\ route' = ParseRoutePath(history[at])
        /\ requests' = {} /\ current' = 0 /\ clusters' = <<>> /\ shown' = 0 /\ dashboardState' = "idle"
        /\ selected' = None /\ topicLoading' = (route'.topic # None) /\ topicError' = FALSE
        /\ load' = None /\ refreshes' = {} /\ UNCHANGED <<servers, history, at>>
    BY <1>10 DEF Reload
  <2>2. history \in Seq(Paths) /\ Len(history) <= MaxHistory /\ at \in 1..Len(history)
    BY <1>0 DEF Screened
  <2>3. route' \in Screens
    BY <2>1, <2>2, ElementOfSeq, AddressesOpen
  <2>4. AddressShowsRoute' /\ BlankOnlyWithoutClusters'
    BY <2>1 DEF AddressShowsRoute, BlankOnlyWithoutClusters, Home
  <2>5. topicLoading' \in BOOLEAN /\ topicError' \in BOOLEAN
    BY <2>1
  <2>6. Screened'
    BY <2>1, <2>2, <2>3, <2>4, <2>5 DEF Screened
  <2>7. servers \in Seq(Lists) /\ Len(servers) \in Versions
    BY <1>0 DEF Polled
  <2>8. 0 <= Len(servers)
    BY <2>7 DEF Versions
  <2>9. Polled'
    BY <2>1, <2>7, <2>8, FS_EmptySet DEF Polled
  <2>10. QED
    BY <2>1, <2>6, <2>9 DEF WebInv
<1>11. QED
  BY <1>0, <1>2, <1>3, <1>4, <1>5, <1>6, <1>7, <1>8, <1>9, <1>10 DEF Navigation

LEMMA AnswersKeep ==
  ASSUME WebInv, Answers
  PROVE  WebInv' /\ (shown' = 0 \/ shown' >= shown)
<1>0. Screened /\ Polled /\ shown \in Nat
  BY DEF WebInv, Polled, Versions
<1>1. ASSUME NEW r \in requests, NEW v \in Versions, DashboardDone(r, v)
      PROVE  WebInv' /\ (shown' = 0 \/ shown' >= shown)
  <2>1. /\ v \in r.from..Len(servers) /\ requests' = requests \ {r}
        /\ UNCHANGED <<servers, current, refreshes>>
        /\ IF r.n = current
           THEN /\ Rendered([Now EXCEPT !.list = servers[v]])
                /\ shown' = v /\ dashboardState' = "ready"
           ELSE Rendered(Now) /\ UNCHANGED <<shown, dashboardState>>
    BY <1>1 DEF DashboardDone, IsCurrent
  <2>2. /\ servers \in Seq(Lists) /\ Len(servers) \in Nat
        /\ dashboardState \in {"idle", "loading", "ready", "error"}
    BY <1>0 DEF Polled, Versions
  <2>3. v \in Nat /\ v >= r.from /\ v <= Len(servers) /\ v >= 1 /\ r.from \in Nat
    <3>1. r.from \in Versions /\ v \in Versions
      BY <1>0 DEF Polled
    <3>2. r.from \in Nat /\ v \in Nat /\ v >= 1
      BY <3>1 DEF Versions
    <3>3. QED
      BY <2>1, <2>2, <3>2
  <2>4. servers[v] \in Lists
    BY <2>2, <2>3, ElementOfSeq
  <2>5. Screened'
    <3>1. CASE r.n = current
      BY <1>0, <2>1, <2>4, <3>1, ListIsProper, RenderedKeeps
    <3>2. CASE r.n # current
      BY <1>0, <2>1, <3>2, NowIsProper, RenderedKeeps
    <3>3. QED
      BY <3>1, <3>2
  <2>6. /\ dashboardState' \in {"idle", "loading", "ready", "error"}
        /\ IF r.n = current THEN shown' = v ELSE shown' = shown
    BY <2>1, <2>2
  <2>7. Polled' /\ (shown' = 0 \/ shown' >= shown)
    BY <1>0, <2>1, <2>3, <2>6, AnsweredKeeps
  <2>8. QED
    BY <2>5, <2>7 DEF WebInv
<1>2. ASSUME NEW r \in requests, DashboardFailed(r)
      PROVE  WebInv' /\ (shown' = 0 \/ shown' >= shown)
  <2>1. /\ requests' = requests \ {r} /\ UNCHANGED <<servers, current, refreshes, shown>>
        /\ UNCHANGED <<authenticated, place, clusters, view, load>>
        /\ dashboardState' = IF IsCurrent(r) THEN "error" ELSE dashboardState
    BY <1>2 DEF DashboardFailed
  <2>2. Screened'
    BY <1>0, <2>1, ScreenKept
  <2>3. Polled'
    <3>1. dashboardState' \in {"idle", "loading", "ready", "error"}
      BY <1>0, <2>1 DEF Polled
    <3>2. IsFiniteSet(requests')
      BY <1>0, <2>1, FS_RemoveElement DEF Polled
    <3>3. QED
      BY <1>0, <2>1, <3>1, <3>2 DEF Polled
  <2>4. QED
    BY <1>0, <2>1, <2>2, <2>3 DEF WebInv
<1>3. ASSUME NEW found \in SUBSET Topics, TopicFound(found) PROVE WebInv' /\ shown' = shown
  <2> DEFINE name == SelectExactTopic(found, load.topic)
             k == [cluster |-> load.cluster, topic |-> name]
  <2>1. /\ load # None /\ name # None /\ UNCHANGED Elsewhere
        /\ Rendered([Now EXCEPT !.sel = k, !.new = TRUE, !.loading = FALSE, !.load = None])
    BY <1>3 DEF TopicFound
  <2>2. load \in Key
    BY <1>0, <2>1 DEF Screened
  <2>3. name \in Topics
    BY <2>1 DEF SelectExactTopic
  <2>4. k \in Key
    BY <2>2, <2>3 DEF Key
  <2> HIDE DEF k, name
  <2>5. QED
    BY <1>0, <2>1, <2>4, FoundIsProper, RenderedKeeps, ElsewhereKeeps DEF WebInv, Elsewhere
<1>4. ASSUME TopicFailed PROVE WebInv' /\ shown' = shown
  <2>1. UNCHANGED Elsewhere
        /\ Rendered([Now EXCEPT !.loading = FALSE, !.error = TRUE, !.load = None])
    BY <1>4 DEF TopicFailed
  <2>2. QED
    BY <1>0, <2>1, FailedIsProper, RenderedKeeps, ElsewhereKeeps DEF WebInv, Elsewhere
<1>5. ASSUME NEW key \in refreshes, RefreshDone(key) PROVE WebInv' /\ shown' = shown
  <2>1. /\ refreshes' = refreshes \ {key}
        /\ UNCHANGED <<servers, requests, current, shown, dashboardState>>
        /\ Rendered([Now EXCEPT !.sel = key, !.new = TRUE])
    BY <1>5 DEF RefreshDone
  <2>2. key \in Key /\ refreshes' \subseteq Key
    BY <1>0, <2>1 DEF Polled
  <2>3. Screened'
    BY <1>0, <2>1, <2>2, RefreshedIsProper, RenderedKeeps
  <2>4. Polled'
    BY <1>0, <2>1, <2>2 DEF Polled
  <2>5. QED
    BY <2>1, <2>3, <2>4 DEF WebInv
<1>6. ASSUME NEW key \in refreshes, RefreshFailed(key) PROVE WebInv' /\ shown' = shown
  <2>1. /\ refreshes' = refreshes \ {key}
        /\ UNCHANGED <<servers, authenticated, place, dash, view, load>>
    BY <1>6 DEF RefreshFailed
  <2>2. UNCHANGED <<requests, current, clusters, shown, dashboardState>>
    BY <2>1 DEF dash
  <2>3. Screened'
    BY <1>0, <2>1, <2>2, ScreenKept
  <2>4. Polled'
    BY <1>0, <2>1, <2>2 DEF Polled
  <2>5. QED
    BY <2>2, <2>3, <2>4 DEF WebInv
<1>7. QED
  BY <1>0, <1>1, <1>2, <1>3, <1>4, <1>5, <1>6 DEF Answers

LEMMA SessionKeeps ==
  ASSUME WebInv, SignedIn \/ SignedOut
  PROVE  WebInv' /\ shown' = shown
<1>0. Screened /\ Polled
  BY DEF WebInv
<1>1. CASE SignedIn
  <2>1. Begin /\ UNCHANGED <<servers, shown, refreshes>> /\ Rendered([Now EXCEPT !.auth = "yes"])
    BY <1>1 DEF SignedIn
  <2>2. QED
    BY <1>0, <2>1, SessionIsProper, RenderedKeeps, BeginKeeps DEF WebInv
<1>2. CASE SignedOut
  <2>1. UNCHANGED Elsewhere /\ Rendered([Now EXCEPT !.auth = "no"])
    BY <1>2 DEF SignedOut
  <2>2. QED
    BY <1>0, <2>1, SessionIsProper, RenderedKeeps, ElsewhereKeeps DEF WebInv, Elsewhere
<1>3. QED
  BY <1>1, <1>2

LEMMA RequestsKeep ==
  ASSUME WebInv, LoadClusters \/ RefreshTopic
  PROVE  WebInv' /\ shown' = shown
<1>0. Screened /\ Polled
  BY DEF WebInv
<1>1. CASE LoadClusters
  <2>1. Begin /\ UNCHANGED <<servers, authenticated, place, clusters, shown, view, load, refreshes>>
    BY <1>1 DEF LoadClusters
  <2>2. QED
    BY <1>0, <2>1, ScreenKept, BeginKeeps DEF WebInv
<1>2. CASE RefreshTopic
  <2>1. /\ route.topic # None /\ refreshes' = refreshes \cup {TopicKey}
        /\ UNCHANGED <<servers, authenticated, place, dash, view, load>>
    BY <1>2 DEF RefreshTopic, Workspace
  <2>2. UNCHANGED <<requests, current, clusters, shown, dashboardState>>
    BY <2>1 DEF dash
  <2>3. Screened'
    BY <1>0, <2>1, <2>2, ScreenKept
  <2>4. TopicKey \in Key
    BY <1>0, <2>1, InUse
  <2>5. refreshes' \subseteq Key
    BY <1>0, <2>1, <2>4 DEF Polled
  <2>6. Polled'
    BY <1>0, <2>1, <2>2, <2>5 DEF Polled
  <2>7. QED
    BY <2>2, <2>3, <2>6 DEF WebInv
<1>3. QED
  BY <1>1, <1>2

LEMMA ServersChangeKeeps ==
  ASSUME WebInv, NEW list \in Lists, ServersChange(list)
  PROVE  WebInv' /\ shown' = shown
<1>0. /\ Screened /\ Polled /\ Len(servers) < MaxVersions /\ servers' = Append(servers, list)
      /\ UNCHANGED <<authenticated, place, requests, current, clusters, shown, dashboardState,
                     view, load, refreshes>>
  BY DEF WebInv, ServersChange, dash
<1>1. Screened'
  BY <1>0, ScreenKept
<1>2. servers \in Seq(Lists) /\ Len(servers) \in Versions /\ MaxVersions \in Nat
  BY <1>0, WebAssumption DEF Polled
<1>3. servers' \in Seq(Lists) /\ Len(servers') = Len(servers) + 1
  BY <1>0, <1>2, AppendProperties
<1>4. Len(servers) \in Nat /\ Len(servers') \in Versions
  BY <1>0, <1>2, <1>3 DEF Versions
<1>5. shown \in Nat /\ shown <= Len(servers) /\ \A r \in requests : r.from \in Nat /\ r.from <= Len(servers)
  BY <1>0 DEF Polled, Versions
<1>6. shown <= Len(servers') /\ \A r \in requests : r.from <= Len(servers')
  BY <1>3, <1>4, <1>5
<1>7. Polled'
  BY <1>0, <1>3, <1>4, <1>6 DEF Polled
<1>8. QED
  BY <1>0, <1>1, <1>7 DEF WebInv

LEMMA WebInit ==
  ASSUME Init
  PROVE  WebInv
<1>1. PICK l \in Lists : servers = <<l>>
  BY DEF Init
<1>2. PICK a \in Addresses : history = <<a>>
  BY DEF Init
<1>3. "topics" \in Pages /\ MaxVersions \in Nat \ {0} /\ MaxHistory \in Nat \ {0}
  BY WebAssumption
<1>4. a \in Paths
  BY DEF Addresses, Paths
<1>5. history \in Seq(Paths) /\ Len(history) = 1 /\ history[1] = a /\ at = 1
  BY <1>2, <1>4 DEF Init
<1>6. route = ParseRoutePath(a) /\ route \in Screens
  BY <1>4, <1>5, AddressesOpen DEF Init
<1>7. topicLoading \in BOOLEAN /\ topicError \in BOOLEAN
  BY DEF Init
<1>8. AddressShowsRoute /\ BlankOnlyWithoutClusters
  BY <1>5, <1>6 DEF Init, AddressShowsRoute, BlankOnlyWithoutClusters, Home
<1>9. Screened
  BY <1>3, <1>5, <1>6, <1>7, <1>8 DEF Init, Screened
<1>10. servers \in Seq(Lists) /\ Len(servers) = 1 /\ 1 \in Versions
  BY <1>1, <1>3 DEF Versions
<1>11. Polled
  BY <1>10, FS_EmptySet DEF Init, Polled
<1>12. QED
  BY <1>9, <1>11 DEF WebInv

LEMMA WebStep ==
  ASSUME WebInv, [Next]_wvars
  PROVE  WebInv' /\ (shown' = 0 \/ shown' >= shown)
<1>0. shown \in Nat
  BY DEF WebInv, Polled, Versions
<1>1. CASE Navigation
  BY <1>1, NavigationKeeps
<1>2. CASE Answers
  BY <1>2, AnswersKeep
<1>3. CASE SignedIn \/ SignedOut
  BY <1>0, <1>3, SessionKeeps
<1>4. CASE LoadClusters \/ RefreshTopic
  BY <1>0, <1>4, RequestsKeep
<1>5. CASE \E l \in Lists : ServersChange(l)
  BY <1>0, <1>5, ServersChangeKeeps
<1>6. CASE UNCHANGED wvars
  <2>1. UNCHANGED <<servers, authenticated, place, requests, current, clusters, shown,
                    dashboardState, view, load, refreshes>>
    BY <1>6 DEF wvars, dash
  <2>2. Screened'
    BY <2>1, ScreenKept DEF WebInv
  <2>3. Polled'
    BY <2>1 DEF WebInv, Polled
  <2>4. QED
    BY <1>0, <2>1, <2>2, <2>3 DEF WebInv
<1>7. QED
  BY <1>1, <1>2, <1>3, <1>4, <1>5, <1>6 DEF Next

LEMMA WebInvariant == Spec => []WebInv
BY WebInit, WebStep, PTL DEF Spec

(* The variables of App keep their types; in particular the route is the   *)
(* page of a cluster or of a topic, whatever address is opened.            *)
THEOREM WebTypeCorrect == Spec => []TypeOK
<1>1. ASSUME WebInv PROVE TypeOK
  <2>1. route \in Route
    BY <1>1, ScreensAreRoutes DEF WebInv, Screened
  <2>2. QED
    BY <1>1, <2>1 DEF WebInv, Screened, Polled, TypeOK
<1>2. QED
  BY <1>1, WebInvariant, PTL

(* Back, forward, a shared link and every button lead to a screen that the *)
(* address opens again; only before a list of clusters has come may the    *)
(* address be "/" under any page of the menu.                              *)
THEOREM AddressIsTrue == Spec => []AddressShowsRoute
<1>1. WebInv => AddressShowsRoute
  BY DEF WebInv, Screened
<1>2. QED
  BY <1>1, WebInvariant, PTL

(* The page of a topic is a spinner, an error or the topic as soon as the  *)
(* shell has a cluster.                                                    *)
THEOREM TopicPageIsShown == Spec => []BlankOnlyWithoutClusters
<1>1. WebInv => BlankOnlyWithoutClusters
  BY DEF WebInv, Screened
<1>2. QED
  BY <1>1, WebInvariant, PTL

(* RequestSequence: whatever order overlapping polls are answered in, the  *)
(* list on the screen is never replaced by an older one.                   *)
THEOREM DashboardOnlyAdvances == Spec => DashboardNeverGoesBack
<1>1. ASSUME WebInv, [Next]_wvars PROVE [shown' = 0 \/ shown' >= shown]_wvars
  BY <1>1, WebStep
<1>2. QED
  BY <1>1, WebInvariant, PTL DEF Spec, DashboardNeverGoesBack
=============================================================================
