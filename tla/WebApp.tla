------------------------------- MODULE WebApp -------------------------------
(***************************************************************************)
(* App.tsx with what it is made of: the route and the browser's history,   *)
(* the dashboard poll with its RequestSequence, and the topic of the       *)
(* route.  Who is signed in, and why no longer, is the matter of           *)
(* LoginSession; here a session may end at any moment.                     *)
(*                                                                         *)
(* A handler, the render it causes and the effects of that render are one  *)
(* step, because React runs them before the browser delivers the next      *)
(* event; between a request and its answer anything may happen.            *)
(*                                                                         *)
(* The server is a list of clusters that changes.  A topic is searched by  *)
(* its name, and the answer may hold other topics whose names contain it.  *)
(* (A name that starts with Fault_ is a seeded fault: see PROJECT.json.)   *)
(***************************************************************************)
EXTENDS Integers, Sequences, FiniteSets, TLC

CONSTANTS Clusters,      (* ids of clusters                                  *)
          Lists,         (* lists of enabled clusters the server may have    *)
          Topics,        (* names of topics                                  *)
          Matches(_),    (* the topics whose names contain that name         *)
          Pages, Tabs,
          None,
          MaxVersions,   (* bound on changes of the list                     *)
          MaxHistory,    (* bound on the entries of the browser's history    *)
          MaxRequests    (* bound on dashboard requests in flight            *)

ASSUME WebAssumption ==
  /\ Lists \subseteq Seq(Clusters) /\ Lists # {}
  /\ \A t \in Topics : t \in Matches(t) /\ Matches(t) \subseteq Topics
  /\ {"dashboard", "topics"} \subseteq Pages /\ "overview" \in Tabs
  /\ None \notin Clusters \cup Topics \cup Tabs
  /\ {MaxVersions, MaxHistory, MaxRequests} \subseteq Nat \ {0}

VARIABLES
  servers,         (* the lists of clusters the server has had, the last now  *)
  authenticated,   (* "unknown" until /auth/me answers, then "yes" or "no"    *)
  route,           (* AppRoute                                                *)
  history, at,     (* the paths of the browser's history, and where it is     *)
  requests,        (* dashboard requests in flight                            *)
  current,         (* RequestSequence.current                                 *)
  clusters,        (* the list shown                                          *)
  shown,           (* which of the server's lists that is, 0 for none         *)
  dashboardState,  (* DashboardLoadState                                      *)
  selected,        (* selectedTopic, as the cluster and the name              *)
  topicLoading,
  topicError,
  load,            (* the topic request whose answer the effect waits for     *)
  refreshes        (* topic requests of refreshTopic in flight                *)

place   == <<route, history, at>>
dash    == <<requests, current, clusters, shown, dashboardState>>
view    == <<selected, topicLoading, topicError>>
wvars   == <<servers, authenticated, place, dash, view, load, refreshes>>

Versions == 1..MaxVersions
Numbers  == 1..(MaxRequests + 1)
Key      == [cluster : Clusters, topic : Topics]
Route    == [page : Pages, cluster : Clusters \cup {None}, topic : Topics \cup {None},
             tab : Tabs \cup {None}]

TypeOK ==
  /\ servers \in Seq(Lists) /\ Len(servers) \in Versions
  /\ authenticated \in {"unknown", "yes", "no"}
  /\ route \in Route
  /\ at \in 1..Len(history) /\ Len(history) <= MaxHistory
  /\ requests \subseteq [n : Numbers, from : Versions]
  /\ current \in Numbers \cup {0}
  /\ clusters \in Lists \cup {<<>>} /\ shown \in Versions \cup {0}
  /\ dashboardState \in {"idle", "loading", "ready", "error"}
  /\ selected \in Key \cup {None}
  /\ topicLoading \in BOOLEAN /\ topicError \in BOOLEAN
  /\ load \in Key \cup {None}
  /\ refreshes \subseteq Key

-----------------------------------------------------------------------------
(* routes.ts.  A path is the sequence of its segments; an id or a name is  *)
(* encoded and decoded without loss.                                       *)

NoTopic(page, cluster) == [page |-> page, cluster |-> cluster, topic |-> None, tab |-> None]

Fault_ParseRoutePath(path) ==
  IF Len(path) < 2 THEN NoTopic("dashboard", None)
  ELSE NoTopic(IF Len(path) > 2 THEN path[3] ELSE "dashboard", path[2])
ParseRoutePath(path) ==
  LET page == IF Len(path) > 2 THEN path[3] ELSE "dashboard"
  IN IF Len(path) < 2 THEN NoTopic("dashboard", None)
     ELSE IF page # "topics" \/ Len(path) < 4 THEN NoTopic(page, path[2])
     ELSE [page |-> page, cluster |-> path[2], topic |-> path[4],
           tab |-> IF Len(path) > 4 THEN path[5] ELSE "overview"]

BuildRoutePath(r) ==
  IF r.cluster = None THEN <<>>
  ELSE <<"clusters", r.cluster, r.page>> \o
       (IF r.page # "topics" \/ r.topic = None THEN <<>> ELSE <<r.topic, r.tab>>)

(* Addresses somebody may open: short ones, and the path of every page.    *)
Addresses ==
  {<<>>} \cup {<<"clusters", c>> : c \in Clusters}
         \cup {<<"clusters", c, "topics", t>> : c \in Clusters, t \in Topics}
         \cup {<<"clusters", c, p>> : c \in Clusters, p \in Pages}

-----------------------------------------------------------------------------
(* Rendering: what follows from the state.                                 *)

Listed(id, list) == \E i \in DOMAIN list : list[i] = id
ClusterIdOf(r, list) ==
  IF list = <<>> \/ Listed(r.cluster, list) THEN r.cluster ELSE list[1]
ClusterId == ClusterIdOf(route, clusters)

Home     == authenticated = "yes"
TopicKey == [cluster |-> ClusterId, topic |-> route.topic]
Matching == selected = TopicKey
(* main: a spinner, the error, the workspace, or nothing.                  *)
TopicView ==
  CASE topicLoading -> "loading" [] topicError -> "error" [] Matching -> "workspace"
    [] OTHER -> "blank"
Workspace == Home /\ route.topic # None /\ TopicView = "workspace"

-----------------------------------------------------------------------------
(* Effects.  A handler says what it sets, as a change of Now; Rendered adds *)
(* what the two effects of the render do: the address follows the cluster  *)
(* in use, and the topic of the route is loaded.                           *)

Now == [auth |-> authenticated, route |-> route, history |-> history, at |-> at,
        list |-> clusters, sel |-> selected, new |-> FALSE,
        loading |-> topicLoading, error |-> topicError, load |-> load]

KeyOf(n) == [cluster |-> ClusterIdOf(n.route, n.list), topic |-> n.route.topic]

(* What the topic effect depends on; selectedTopic is compared as an       *)
(* object, so setting it to the same topic again (new) is a change too.    *)
Fault_DepsWithoutSelected(n) ==
  <<n.auth, ClusterIdOf(n.route, n.list), Len(n.list), n.route.topic>>
Deps(n) ==
  <<n.auth, ClusterIdOf(n.route, n.list), Len(n.list), n.route.topic, n.sel, n.new>>

Keep(n) == selected' = n.sel /\ topicLoading' = n.loading /\ topicError' = n.error

(* Its cleanup comes first: the answer of the request it made before, if   *)
(* it comes, is not heeded.                                                *)
LoadTopic(n) ==
  \/ /\ n.auth # "yes" \/ n.list = <<>>
     /\ Keep(n) /\ load' = None
  \/ /\ n.auth = "yes" /\ n.list # <<>> /\ n.route.topic = None
     /\ selected' = None /\ topicLoading' = FALSE /\ topicError' = FALSE
     /\ load' = None
  \/ /\ n.auth = "yes" /\ n.list # <<>> /\ n.route.topic # None /\ n.sel = KeyOf(n)
     /\ Keep(n) /\ load' = None
  \/ /\ n.auth = "yes" /\ n.list # <<>> /\ n.route.topic # None /\ n.sel # KeyOf(n)
     /\ selected' = n.sel /\ topicLoading' = TRUE /\ topicError' = FALSE
     /\ load' = KeyOf(n)

Rendered(n) ==
  LET cluster == ClusterIdOf(n.route, n.list)
      to == [n.route EXCEPT !.cluster = cluster]
  IN /\ authenticated' = n.auth /\ clusters' = n.list /\ route' = to /\ at' = n.at
     /\ history' = IF n.list = <<>> \/ to = n.route THEN n.history
                   ELSE [n.history EXCEPT ![n.at] = BuildRoutePath(to)]
     /\ IF Deps(n) = Deps(Now) THEN Keep(n) /\ load' = n.load ELSE LoadTopic(n)

-----------------------------------------------------------------------------
(* navigate                                                                *)

Navigate(n, r) ==
  [n EXCEPT !.route = r, !.at = at + 1,
            !.history = Append(SubSeq(history, 1, at), BuildRoutePath(r))]
Replace(n, r) == [n EXCEPT !.route = r, !.history[at] = BuildRoutePath(r)]

Elsewhere == <<servers, requests, current, shown, dashboardState, refreshes>>

(* The handlers of the pages that only navigate: the menu, the picker, a   *)
(* tab, the way back to the list of topics.                                *)
ChangePage(page) ==
  /\ Home /\ at < MaxHistory
  /\ UNCHANGED Elsewhere
  /\ Rendered(Navigate(Now, NoTopic(page, ClusterId)))

ChangeCluster(id) ==
  /\ Home /\ at < MaxHistory /\ Listed(id, clusters)
  /\ UNCHANGED Elsewhere
  /\ Rendered(Navigate(Now, NoTopic(route.page, id)))

(* A button on the card of a cluster, on the dashboard, which shows the    *)
(* cards it has even when the last poll failed.                            *)
DashboardView ==
  CASE dashboardState = "ready" \/ clusters # <<>> -> "cards"
    [] dashboardState = "error" /\ clusters = <<>> -> "error" [] OTHER -> "loading"

OpenCluster(id, page) ==
  /\ Home /\ at < MaxHistory /\ Listed(id, clusters)
  /\ route.page = "dashboard" /\ route.topic = None /\ DashboardView = "cards"
  /\ UNCHANGED Elsewhere
  /\ Rendered(Navigate(Now, NoTopic(page, id)))

SetTab(tab) ==
  /\ Workspace /\ at < MaxHistory
  /\ UNCHANGED Elsewhere
  /\ Rendered(Navigate(Now, [route EXCEPT !.tab = tab]))

OnBack ==
  /\ Workspace /\ at < MaxHistory
  /\ UNCHANGED Elsewhere
  /\ Rendered(Navigate(Now, NoTopic("topics", ClusterId)))

(* The way back from a topic that could not be loaded.                     *)
RouteErrorBack ==
  /\ Home /\ route.topic # None /\ TopicView = "error"
  /\ UNCHANGED Elsewhere
  /\ Rendered(Replace(Now, NoTopic("topics", ClusterId)))

(* A row of TopicsPage.                                                    *)
OpenTopic(t, tab) ==
  /\ Home /\ route.page = "topics" /\ route.topic = None /\ ClusterId # None
  /\ at < MaxHistory
  /\ UNCHANGED Elsewhere
  /\ Rendered(Navigate([Now EXCEPT !.sel = [cluster |-> ClusterId, topic |-> t], !.new = TRUE],
                       [page |-> "topics", cluster |-> ClusterId, topic |-> t, tab |-> tab]))

(* popstate                                                                *)
BackOrForward(i) ==
  /\ i \in DOMAIN history /\ i # at
  /\ UNCHANGED Elsewhere
  /\ Rendered([Now EXCEPT !.at = i, !.route = ParseRoutePath(history[i])])

-----------------------------------------------------------------------------
(* The dashboard: loadClusters and its RequestSequence.  Only whether two  *)
(* numbers are equal is ever asked, so begin() may take again one that no  *)
(* request in flight bears.                                                *)

Unused == CHOOSE n \in Numbers : (\A r \in requests : r.n # n)

Begin ==
  /\ Cardinality(requests) < MaxRequests
  /\ requests' = requests \cup {[n |-> Unused, from |-> Len(servers)]}
  /\ current' = Unused
  /\ dashboardState' = IF dashboardState = "idle" THEN "loading" ELSE dashboardState

(* The timer, a save on the settings page, the button of the dashboard.    *)
LoadClusters ==
  /\ Home
  /\ Begin
  /\ UNCHANGED <<servers, authenticated, place, clusters, shown, view, load, refreshes>>

Fault_IsCurrentAlways(request) == TRUE
Fault_IsCurrentNever(request) == request.n # current
IsCurrent(request) == request.n = current

(* An answer that arrives: a list the server had since it was asked.       *)
DashboardDone(request, version) ==
  /\ request \in requests /\ version \in request.from..Len(servers)
  /\ requests' = requests \ {request}
  /\ UNCHANGED <<servers, current, refreshes>>
  /\ IF IsCurrent(request)
     THEN /\ Rendered([Now EXCEPT !.list = servers[version]])
          /\ shown' = version /\ dashboardState' = "ready"
     ELSE Rendered(Now) /\ UNCHANGED <<shown, dashboardState>>

DashboardFailed(request) ==
  /\ request \in requests
  /\ requests' = requests \ {request}
  /\ dashboardState' = IF IsCurrent(request) THEN "error" ELSE dashboardState
  /\ UNCHANGED <<servers, authenticated, place, current, clusters, shown, view, load, refreshes>>

-----------------------------------------------------------------------------
(* The topic of the route, and the button that reads it again.             *)

(* The servers' topics whose names contain the one searched; selectExactTopic. *)
SelectExactTopic(items, name) == IF name \in items THEN name ELSE None

TopicFound(items) ==
  LET found == SelectExactTopic(items, load.topic)
  IN /\ load # None /\ items \subseteq Matches(load.topic) /\ found # None
     /\ UNCHANGED Elsewhere
     /\ Rendered([Now EXCEPT !.sel = [cluster |-> load.cluster, topic |-> found],
                             !.new = TRUE, !.loading = FALSE, !.load = None])

(* The request failed, or its answer does not hold the topic.              *)
TopicFailed ==
  /\ load # None
  /\ UNCHANGED Elsewhere
  /\ Rendered([Now EXCEPT !.loading = FALSE, !.error = TRUE, !.load = None])

(* The button is disabled meanwhile; bound: one refresh of a topic at a    *)
(* time, also over the page of that topic being left and opened again.     *)
RefreshTopic ==
  /\ Workspace /\ TopicKey \notin refreshes
  /\ refreshes' = refreshes \cup {TopicKey}
  /\ UNCHANGED <<servers, authenticated, place, dash, view, load>>

RefreshDone(key) ==
  /\ key \in refreshes
  /\ refreshes' = refreshes \ {key}
  /\ UNCHANGED <<servers, requests, current, shown, dashboardState>>
  /\ Rendered([Now EXCEPT !.sel = key, !.new = TRUE])

RefreshFailed(key) ==
  /\ key \in refreshes
  /\ refreshes' = refreshes \ {key}
  /\ UNCHANGED <<servers, authenticated, place, dash, view, load>>

-----------------------------------------------------------------------------
(* The session as App sees it.                                             *)

(* /auth/me when the page starts, or a login.                              *)
SignedIn ==
  /\ ~ Home
  /\ Begin
  /\ UNCHANGED <<servers, shown, refreshes>>
  /\ Rendered([Now EXCEPT !.auth = "yes"])

(* /auth/me refused, the event of a 401, or the answer to a logout.        *)
SignedOut ==
  /\ authenticated # "no"
  /\ UNCHANGED Elsewhere
  /\ Rendered([Now EXCEPT !.auth = "no"])

-----------------------------------------------------------------------------
(* The program from outside: the server's list changes, the page is opened. *)

ServersChange(list) ==
  /\ Len(servers) < MaxVersions /\ list # servers[Len(servers)]
  /\ servers' = Append(servers, list)
  /\ UNCHANGED <<authenticated, place, dash, view, load, refreshes>>

Init ==
  /\ servers \in {<<l>> : l \in Lists}
  /\ authenticated = "unknown"
  /\ at = 1 /\ history \in {<<a>> : a \in Addresses}
  /\ route = ParseRoutePath(history[1])
  /\ requests = {} /\ current = 0 /\ clusters = <<>> /\ shown = 0 /\ dashboardState = "idle"
  /\ selected = None /\ topicLoading = (route.topic # None) /\ topicError = FALSE
  /\ load = None /\ refreshes = {}

Reload ==
  /\ authenticated' = "unknown"
  /\ route' = ParseRoutePath(history[at])
  /\ requests' = {} /\ current' = 0 /\ clusters' = <<>> /\ shown' = 0 /\ dashboardState' = "idle"
  /\ selected' = None /\ topicLoading' = (route'.topic # None) /\ topicError' = FALSE
  /\ load' = None /\ refreshes' = {}
  /\ UNCHANGED <<servers, history, at>>

Navigation ==
  \/ \E page \in Pages : ChangePage(page)
  \/ \E id \in Clusters : ChangeCluster(id)
  \/ \E id \in Clusters, page \in Pages \cap {"topics", "consumers"} : OpenCluster(id, page)
  \/ \E tab \in Tabs : SetTab(tab)
  \/ \E t \in Topics, tab \in Tabs : OpenTopic(t, tab)
  \/ \E i \in DOMAIN history : BackOrForward(i)
  \/ OnBack \/ RouteErrorBack \/ Reload

Answers ==
  \/ \E r \in requests : \E v \in Versions : DashboardDone(r, v)
  \/ \E r \in requests : DashboardFailed(r)
  \/ \E items \in SUBSET Topics : TopicFound(items)
  \/ \E key \in refreshes : RefreshDone(key) \/ RefreshFailed(key)
  \/ TopicFailed

Next ==
  \/ Navigation \/ Answers \/ SignedIn \/ SignedOut
  \/ LoadClusters \/ RefreshTopic
  \/ \E l \in Lists : ServersChange(l)

Spec == Init /\ [][Next]_wvars

(* What a browser and a server do without a user: the timer fires, and of  *)
(* the polls whose answers the next poll has not overtaken, not all fail.  *)
CurrentDone == \E r \in requests : \E v \in Versions : r.n = current /\ DashboardDone(r, v)
FairSpec ==
  /\ Spec
  /\ WF_wvars(LoadClusters)
  /\ SF_wvars(CurrentDone)

-----------------------------------------------------------------------------
(* Properties                                                              *)

(* Polls overlap and their answers come in any order, with failures and    *)
(* logins in between: the list of clusters on the screen is never replaced *)
(* by an older one.                                                        *)
DashboardNeverGoesBack == [][shown' = 0 \/ shown' >= shown]_wvars

(* Back, forward, a shared link and every button lead to a screen that the *)
(* address opens again, also when the cluster in the address no longer     *)
(* exists, which is then the address of one that does.  Until a list of    *)
(* clusters has come an address that names none stays "/" (App.tsx:127,    *)
(* routes.ts:36), whatever page the menu opens over it.                    *)
AddressShowsRoute ==
  /\ clusters # <<>> => Listed(route.cluster, clusters)
  /\ \/ ParseRoutePath(history[at]) = route
     \/ clusters = <<>> /\ route.cluster = None /\ history[at] = <<>>

(* Whatever order loads, refreshes and changes of cluster end in, the page *)
(* of a topic is a spinner, an error or the topic whenever the shell has a *)
(* cluster.  While it has none, because no poll has succeeded yet or all   *)
(* are disabled, the page may be blank (App.tsx:104, 145), for example     *)
(* after a reload on the dashboard and Back.                               *)
BlankOnlyWithoutClusters ==
  Home /\ route.topic # None /\ TopicView = "blank" => clusters = <<>>

(* A change of the clusters reaches the screen of whoever is signed in.    *)
DashboardCatchesUp ==
  \A v \in Versions : v <= Len(servers) ~> (shown >= v \/ ~ Home)

(* Three that do not hold: see WebAppClaims.cfg.  The spinner of a topic   *)
(* page has a request that will end it.                                    *)
LoadingHasRequest ==
  Home /\ clusters # <<>> /\ route.topic # None /\ topicLoading
    => load # None

(* Every screen has an address that opens it.                              *)
EveryScreenHasAddress == ParseRoutePath(history[at]) = route

(* The page of a topic always shows something.                             *)
TopicPageAlwaysFilled == Home /\ route.topic # None => TopicView # "blank"
=============================================================================
