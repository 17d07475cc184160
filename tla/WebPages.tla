------------------------------ MODULE WebPages ------------------------------
(***************************************************************************)
(* The pages of the console and what they share, each in a browser of its  *)
(* own: App shows one page at a time, a page that is left is unmounted, and *)
(* no state is handed from one to another but the cluster, which WebApp    *)
(* keeps and the pages take as given.  scene is what this browser does.    *)
(***************************************************************************)
EXTENDS Naturals, FiniteSets

CONSTANTS Clusters, Groups, Topics, Searches, ReadOnly, None,
          MaxAsked, MaxResets, MaxDialogs, MaxEntries,
          MaxQueries, MaxStreams,
          Texts, Operators, JSONOperators, Typed, MaxConditions, MaxScan, DefaultScan,
          Start, Counts, MaxAdds,
          MaxVersions, MaxLoads, MaxShown, MaxNotices,
          Limit, Window, MaxHandlers, MaxTime, MaxCalls

VARIABLES
  scene,
  c_clusterId, c_listed, c_loading, c_failed, c_asked, c_drawer,
  c_confirming, c_resetting, c_resets,
  t_clusterId, t_search, t_deferred, t_listed, t_loading, t_failed,
  t_asked, t_dialog, t_dialogs, t_submitting, t_creates,
  a_entries, a_listed, a_loading, a_failed, a_asked, a_result,
  m_mounted, m_place, m_topic, m_queries, m_querying, m_streams, m_stream,
  m_live, m_items, m_producer, m_sending,
  filters, address, own,
  w_page, w_exists, w_partitions, w_shown, w_adds, w_asked, w_adding,
  w_told, w_confirming, w_deleting, w_removal,
  s_served, s_cfg, s_loads, s_saving, s_save, s_restoreTarget,
  s_restoring, s_restore, s_problem,
  open, disabled, body, found, focus, previous,
  serial, notices, timers,
  l_time, l_count, l_firstAt, l_handlers, l_submitting, l_authenticated,
  l_cookie, l_leaving, l_calls

ConsumersVars == <<c_clusterId, c_listed, c_loading, c_failed, c_asked,
  c_drawer, c_confirming, c_resetting, c_resets>>
Consumers == INSTANCE ConsumersPage WITH
  clusterId <- c_clusterId, listed <- c_listed, loading <- c_loading, failed
  <- c_failed, asked <- c_asked, drawer <- c_drawer, confirming <-
  c_confirming, resetting <- c_resetting, resets <- c_resets

TopicListVars == <<t_clusterId, t_search, t_deferred, t_listed, t_loading,
  t_failed, t_asked, t_dialog, t_dialogs, t_submitting, t_creates>>
TopicList == INSTANCE TopicsPage WITH
  clusterId <- t_clusterId, search <- t_search, deferred <- t_deferred,
  listed <- t_listed, loading <- t_loading, failed <- t_failed, asked <-
  t_asked, dialog <- t_dialog, dialogs <- t_dialogs, submitting <-
  t_submitting, creates <- t_creates

AuditVars == <<a_entries, a_listed, a_loading, a_failed, a_asked, a_result>>
Audit == INSTANCE AuditPage WITH
  entries <- a_entries, listed <- a_listed, loading <- a_loading, failed <-
  a_failed, asked <- a_asked, result <- a_result

MessagesVars == <<m_mounted, m_place, m_topic, m_queries, m_querying,
  m_streams, m_stream, m_live, m_items, m_producer, m_sending>>
Messages == INSTANCE MessagesPage WITH
  mounted <- m_mounted, place <- m_place, topic <- m_topic, queries <-
  m_queries, querying <- m_querying, streams <- m_streams, stream <-
  m_stream, live <- m_live, items <- m_items, producer <- m_producer, sending
  <- m_sending

FiltersVars == <<filters, address, own>>
Filters == INSTANCE MessageFilters

WorkspaceVars == <<w_page, w_exists, w_partitions, w_shown, w_adds, w_asked,
  w_adding, w_told, w_confirming, w_deleting, w_removal>>
Workspace == INSTANCE TopicWorkspace WITH
  page <- w_page, exists <- w_exists, partitions <- w_partitions, shown <-
  w_shown, adds <- w_adds, asked <- w_asked, adding <- w_adding, told <-
  w_told, confirming <- w_confirming, deleting <- w_deleting, removal <-
  w_removal

SettingsVars == <<s_served, s_cfg, s_loads, s_saving, s_save,
  s_restoreTarget, s_restoring, s_restore, s_problem>>
Settings == INSTANCE SettingsPage WITH
  served <- s_served, cfg <- s_cfg, loads <- s_loads, saving <- s_saving,
  save <- s_save, restoreTarget <- s_restoreTarget, restoring <- s_restoring,
  restore <- s_restore, problem <- s_problem

ModalVars == <<open, disabled, body, found, focus, previous>>
Modal == INSTANCE Overlays

NoticesVars == <<serial, notices, timers>>
Notices == INSTANCE Feedback

LoginVars == <<l_time, l_count, l_firstAt, l_handlers, l_submitting,
  l_authenticated, l_cookie, l_leaving, l_calls>>
Login == INSTANCE LoginSession WITH
  time <- l_time, count <- l_count, firstAt <- l_firstAt, handlers <-
  l_handlers, submitting <- l_submitting, authenticated <- l_authenticated,
  cookie <- l_cookie, leaving <- l_leaving, calls <- l_calls

-----------------------------------------------------------------------------
ASSUME PagesAssumption ==
  /\ Consumers!ConsumersAssumption
  /\ TopicList!TopicsAssumption
  /\ Audit!AuditPageAssumption
  /\ Messages!MessagesAssumption
  /\ Filters!FiltersAssumption
  /\ Workspace!WorkspaceAssumption
  /\ Settings!SettingsAssumption
  /\ Notices!FeedbackAssumption
  /\ Login!LoginAssumption

(* A browser is in one scene for good; the others stand still in some      *)
(* initial state of theirs.                                                *)
First == CHOOSE c \in Clusters : TRUE
Still ==
  /\ scene # "consumers" => c_clusterId = First
  /\ scene # "topics" => t_clusterId = First
  /\ scene # "messages" => m_place = [cluster |-> First, fixed |-> None]
  /\ scene # "login" => l_cookie = "none"

Init ==
  /\ scene \in {"consumers", "topics", "audit", "messages", "filters",
               "topic", "settings", "overlays", "notices",
               "login"}
  /\ Consumers!Init
  /\ TopicList!Init
  /\ Audit!Init
  /\ Messages!Init
  /\ Filters!Init
  /\ Workspace!Init
  /\ Settings!Init
  /\ Modal!Init
  /\ Notices!Init
  /\ Login!Init
  /\ Still

ConsumersStep ==
  /\ scene = "consumers" /\ Consumers!Next
  /\ UNCHANGED <<scene, TopicListVars, AuditVars, MessagesVars,
                 FiltersVars, WorkspaceVars, SettingsVars, ModalVars,
                 NoticesVars, LoginVars>>

TopicListStep ==
  /\ scene = "topics" /\ TopicList!Next
  /\ UNCHANGED <<scene, ConsumersVars, AuditVars, MessagesVars,
                 FiltersVars, WorkspaceVars, SettingsVars, ModalVars,
                 NoticesVars, LoginVars>>

AuditStep ==
  /\ scene = "audit" /\ Audit!Next
  /\ UNCHANGED <<scene, ConsumersVars, TopicListVars, MessagesVars,
                 FiltersVars, WorkspaceVars, SettingsVars, ModalVars,
                 NoticesVars, LoginVars>>

MessagesStep ==
  /\ scene = "messages" /\ Messages!Next
  /\ UNCHANGED <<scene, ConsumersVars, TopicListVars, AuditVars,
                 FiltersVars, WorkspaceVars, SettingsVars, ModalVars,
                 NoticesVars, LoginVars>>

FiltersStep ==
  /\ scene = "filters" /\ Filters!Next
  /\ UNCHANGED <<scene, ConsumersVars, TopicListVars, AuditVars,
                 MessagesVars, WorkspaceVars, SettingsVars, ModalVars,
                 NoticesVars, LoginVars>>

WorkspaceStep ==
  /\ scene = "topic" /\ Workspace!Next
  /\ UNCHANGED <<scene, ConsumersVars, TopicListVars, AuditVars,
                 MessagesVars, FiltersVars, SettingsVars, ModalVars,
                 NoticesVars, LoginVars>>

SettingsStep ==
  /\ scene = "settings" /\ Settings!Next
  /\ UNCHANGED <<scene, ConsumersVars, TopicListVars, AuditVars,
                 MessagesVars, FiltersVars, WorkspaceVars, ModalVars,
                 NoticesVars, LoginVars>>

ModalStep ==
  /\ scene = "overlays" /\ Modal!Next
  /\ UNCHANGED <<scene, ConsumersVars, TopicListVars, AuditVars,
                 MessagesVars, FiltersVars, WorkspaceVars, SettingsVars,
                 NoticesVars, LoginVars>>

NoticesStep ==
  /\ scene = "notices" /\ Notices!Next
  /\ UNCHANGED <<scene, ConsumersVars, TopicListVars, AuditVars,
                 MessagesVars, FiltersVars, WorkspaceVars, SettingsVars,
                 ModalVars, LoginVars>>

LoginStep ==
  /\ scene = "login" /\ Login!Next
  /\ UNCHANGED <<scene, ConsumersVars, TopicListVars, AuditVars,
                 MessagesVars, FiltersVars, WorkspaceVars, SettingsVars,
                 ModalVars, NoticesVars>>

Next ==
  \/ ConsumersStep \/ TopicListStep \/ AuditStep \/ MessagesStep \/ FiltersStep
  \/ WorkspaceStep \/ SettingsStep \/ ModalStep \/ NoticesStep \/ LoginStep

pvars == <<scene, ConsumersVars, TopicListVars, AuditVars, MessagesVars,
           FiltersVars, WorkspaceVars, SettingsVars, ModalVars,
           NoticesVars, LoginVars>>

Spec == Init /\ [][Next]_pvars

(* The timers of the notices, the poll of the dashboard and its answers.   *)
FairSpec ==
  /\ Spec
  /\ \A id \in 1..MaxNotices :
       WF_pvars(NoticesStep /\ Notices!TimerFires(id))
  /\ WF_pvars(LoginStep /\ Login!Call)
  /\ \A c \in Login!Cookies : WF_pvars(LoginStep /\ Login!CallAnswered(c))

-----------------------------------------------------------------------------
(* Each as its module states it.                                           *)
TypeOK ==
  /\ Consumers!TypeOK
  /\ TopicList!TypeOK
  /\ Audit!TypeOK
  /\ Messages!TypeOK
  /\ Filters!TypeOK
  /\ Workspace!TypeOK
  /\ Settings!TypeOK
  /\ Modal!TypeOK
  /\ Notices!TypeOK
  /\ Login!TypeOK

(* What waits for an answer, and is disabled or a spinner until it comes,  *)
(* has a request that is due one: on every page, whatever fails.  Not      *)
(* before App has a cluster: topics and groups then spin and ask nothing   *)
(* (SpinnersAlwaysEnd).                                                    *)
SpinnersEnd ==
  Consumers!SpinnersEnd /\ TopicList!SpinnersEnd /\ Audit!SpinnersEnd /\ Settings!SpinnersEnd

(* A drawer has one reset under way at most.                               *)
OneResetPerDrawer == Consumers!OneResetPerDrawer

(* Every open connection is the one the page shows and can stop.           *)
StreamIsHeld == Messages!StreamIsHeld

(* A link asks the server what the page it was taken from asks, but for a  *)
(* fraction of the scan limit.                                             *)
SharedLinkAsksSame == Filters!SharedLinkAsksSame

(* What the page says of an addition of partitions is what happened to the *)
(* request, whatever is lost.                                              *)
SaysWhatHappened == Workspace!SaysWhatHappened

(* The page behind an overlay that is open does not scroll.                *)
PageBehindIsLocked == Modal!PageBehindIsLocked

(* The last notice is shown, and those pushed away are the oldest.         *)
OldestGoesFirst == Notices!OldestGoesFirst

(* No notice stays for ever.                                               *)
NoticesGo == Notices!NoticesGo

(* No more failed logins are counted than can pass the check at once.      *)
FailuresBounded == Login!FailuresBounded

(* A session that is over does not leave its page on the screen.           *)
EndIsNoticed == Login!EndIsNoticed
-----------------------------------------------------------------------------
(* What the pages do not promise: PagesClaims.cfg has the counterexamples, *)
(* and each is explained in its module.                                    *)

(* A list spins only while a request is under way.                         *)
SpinnersAlwaysEnd == Consumers!SpinnersAlwaysEnd /\ TopicList!SpinnersAlwaysEnd
(* A reset goes to the cluster in whose list the group was chosen.         *)
ResetGoesWhereListed == Consumers!ResetGoesWhereListed
(* Once the lists have answered, the groups are of the cluster.            *)
GroupsAreOfCluster == Consumers!GroupsAreOfCluster
(* Once the lists have answered, the topics are those searched for.        *)
TopicsAreSearched == TopicList!TopicsAreSearched
(* An answer closes no dialog but the one that asked.                      *)
DialogStays == TopicList!DialogStays
(* An entry that is on the screen stays there.                             *)
EntriesStay == Audit!EntriesStay
(* Below "live" are new messages only.                                     *)
LiveShowsNew == Messages!LiveShowsNew
(* A page with a fixed topic lists records of it.                          *)
RecordsOfTopic == Messages!RecordsOfTopic
(* A link asks the same, also after App has navigated under the page.      *)
LinkAlwaysAsksSame == Filters!LinkAlwaysAsksSame
(* A link asks for the fraction too.                                       *)
FractionsAreShared == Filters!FractionsAreShared
(* The partitions said to be new are there.                                *)
AsManyAsSaid == Workspace!AsManyAsSaid
(* An answer leaves the user on the page he has gone to.                   *)
StaysWhereUserWent == Workspace!StaysWhereUserWent
(* What is typed and not sent stays.                                       *)
EditsAreKept == Settings!EditsAreKept
(* What is shown is not replaced by an older configuration.                *)
NeverGoesBack == Settings!NeverGoesBack
(* A save replaces the configuration its page had read.                    *)
OthersAreKept == Settings!OthersAreKept
(* Who is signed in, with a session that is valid, stays so.               *)
LoginLasts == Login!LoginLasts
(* Who has signed out is asked for a password.                             *)
LogoutLasts == Login!LogoutLasts
(* With no overlay open the page scrolls again.                            *)
ScrollIsRestored == Modal!ScrollIsRestored
(* A render of App leaves the focus in the field that is typed in.         *)
FocusIsKept == Modal!FocusIsKept
(* A dialog that is closed gives the focus back to the drawer below.       *)
FocusComesBack == Modal!FocusComesBack
=============================================================================
