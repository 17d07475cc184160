---------------------------- MODULE WebPages_proofs ----------------------------
(***************************************************************************)
(* Theorems about the pages.  A browser is on one page, so every page is   *)
(* alone with its state, and the invariant of each is proved by itself.    *)
(***************************************************************************)
EXTENDS WebPages, InductionLemmas, FiniteSetTheorems, SequenceTheorems, TLAPS

(* A step of the browser is a step of each page or leaves it as it is.     *)
LEMMA ListSteps ==
  ASSUME [Next]_pvars
  PROVE  /\ [Consumers!Next]_ConsumersVars /\ [TopicList!Next]_TopicListVars
         /\ [Audit!Next]_AuditVars /\ [Settings!Next]_SettingsVars
<1>1. CASE UNCHANGED pvars
  BY <1>1, Zenon DEF pvars
<1>2. CASE Next
  BY <1>2, Zenon DEF Next, ConsumersStep, TopicListStep, AuditStep, MessagesStep, FiltersStep,
       WorkspaceStep, SettingsStep, ModalStep, NoticesStep, LoginStep
<1>3. QED
  BY <1>1, <1>2

LEMMA OtherSteps ==
  ASSUME [Next]_pvars
  PROVE  /\ [Messages!Next]_MessagesVars /\ [Workspace!Next]_WorkspaceVars
         /\ [Modal!Next]_ModalVars /\ [Notices!Next]_NoticesVars /\ [Login!Next]_LoginVars
        /\ [Filters!Next]_FiltersVars
<1>1. CASE UNCHANGED pvars
  BY <1>1, Zenon DEF pvars
<1>2. CASE Next
  BY <1>2, Zenon DEF Next, ConsumersStep, TopicListStep, AuditStep, MessagesStep, FiltersStep,
       WorkspaceStep, SettingsStep, ModalStep, NoticesStep, LoginStep
<1>3. QED
  BY <1>1, <1>2

-----------------------------------------------------------------------------
(* The page of messages                                                    *)

(* StreamIsHeld is about the topic of a stream and that of the page; what  *)
(* ties them is the topic of the form.                                     *)
StreamInv ==
  /\ m_mounted \in BOOLEAN /\ m_live \in BOOLEAN
  /\ m_place \in Messages!Place
  /\ m_place.fixed # None => m_topic = m_place.fixed
  /\ \A s \in m_streams : s.n \in Messages!Numbers
  /\ StreamIsHeld

LEMMA NoneIsNoNumber == None \notin Messages!Numbers
  BY PagesAssumption DEF Settings!SettingsAssumption, Messages!Numbers

LEMMA StreamInit == Init => StreamInv
<1> SUFFICES ASSUME Init PROVE StreamInv
  OBVIOUS
<1>1. Messages!Init
  BY DEF Init
<1>2. QED
  BY <1>1 DEF StreamInv, Messages!Init, StreamIsHeld, Messages!StreamIsHeld

LEMMA StopHolds ==
  ASSUME StreamInv, Messages!Stop
  PROVE  m_streams' = {} /\ m_stream' = None /\ m_live' = FALSE
  BY DEF StreamInv, StreamIsHeld, Messages!StreamIsHeld, Messages!Stop

(* Steps that stop the stream: what is left to show is about the form.     *)
LEMMA StoppedHolds ==
  ASSUME m_streams' = {}, m_stream' = None, m_live' = FALSE,
         m_mounted' \in BOOLEAN, m_place' \in Messages!Place,
         m_place'.fixed # None => m_topic' = m_place'.fixed
  PROVE  StreamInv'
  BY DEF StreamInv, StreamIsHeld, Messages!StreamIsHeld

LEMMA StreamStep == StreamInv /\ [Messages!Next]_MessagesVars => StreamInv'
<1> SUFFICES ASSUME StreamInv, [Messages!Next]_MessagesVars PROVE StreamInv'
  OBVIOUS
<1> USE DEF Messages!follow, Messages!form
<1>1. ASSUME NEW p \in Messages!Place, Messages!PlaceChanges(p) PROVE StreamInv'
  <2>1. Messages!Stop
    BY <1>1 DEF Messages!PlaceChanges, Messages!Arrives, Messages!QueryMessages
  <2>2. m_place' = p /\ m_mounted' = m_mounted /\ (p.fixed # None => m_topic' = p.fixed)
    BY <1>1 DEF Messages!PlaceChanges, Messages!Arrives
  <2>3. QED
    BY <2>1, <2>2, StopHolds, StoppedHolds DEF StreamInv
<1>2. ASSUME NEW t \in Topics, Messages!TypeTopic(t) PROVE StreamInv'
  BY <1>2 DEF Messages!TypeTopic, StreamInv, StreamIsHeld, Messages!StreamIsHeld
<1>3. ASSUME NEW q \in m_queries, Messages!QueryDone(q) \/ Messages!QueryFailed(q) PROVE StreamInv'
  BY <1>3 DEF Messages!QueryDone, Messages!QueryFailed, StreamInv, StreamIsHeld,
              Messages!StreamIsHeld
<1>4. ASSUME NEW s \in m_streams, Messages!RecordArrives(s) PROVE StreamInv'
  BY <1>4 DEF Messages!RecordArrives, StreamInv, StreamIsHeld, Messages!StreamIsHeld
<1>5. ASSUME NEW s \in m_streams, Messages!StreamFails(s) PROVE StreamInv'
  BY <1>5, StopHolds, StoppedHolds DEF Messages!StreamFails, StreamInv
<1>6. CASE Messages!SubmitQuery
  BY <1>6, StopHolds, StoppedHolds DEF Messages!SubmitQuery, Messages!QueryMessages, StreamInv
<1>7. CASE Messages!Follow
  <2>1. m_streams = {}
    BY <1>7, NoneIsNoNumber DEF Messages!Follow, StreamInv, StreamIsHeld, Messages!StreamIsHeld
  <2>2. Messages!Unused \in Messages!Numbers
    BY <2>1, PagesAssumption DEF Messages!Unused, Messages!Numbers, Messages!MessagesAssumption
  <2>3. /\ m_streams' = {[n |-> Messages!Unused, cluster |-> m_place.cluster, topic |-> m_topic]}
        /\ m_stream' = Messages!Unused /\ m_live' = TRUE /\ m_mounted
        /\ UNCHANGED <<m_mounted, m_place, m_topic>>
    BY <1>7, <2>1 DEF Messages!Follow
  <2>4. QED
    BY <2>2, <2>3, NoneIsNoNumber DEF StreamInv, StreamIsHeld, Messages!StreamIsHeld
<1>8. CASE Messages!Unfollow
  BY <1>8, StopHolds, StoppedHolds DEF Messages!Unfollow, StreamInv
<1>9. CASE Messages!Unmount
  BY <1>9, StopHolds, StoppedHolds DEF Messages!Unmount, StreamInv
<1>10. CASE Messages!ToggleProducer \/ Messages!Produce \/ Messages!ProduceAnswered
  BY <1>10 DEF Messages!ToggleProducer, Messages!Produce, Messages!ProduceAnswered, StreamInv,
               StreamIsHeld, Messages!StreamIsHeld
<1>11. CASE UNCHANGED MessagesVars
  BY <1>11 DEF MessagesVars, StreamInv, StreamIsHeld, Messages!StreamIsHeld
<1>12. QED
  BY <1>1, <1>2, <1>3, <1>4, <1>5, <1>6, <1>7, <1>8, <1>9, <1>10, <1>11 DEF Messages!Next

(* Whatever is clicked and wherever the page is taken, every EventSource   *)
(* that is open is the one the page shows and can stop, of its cluster and *)
(* its topic.                                                              *)
THEOREM StreamsAreHeld == Spec => []StreamIsHeld
<1>1. StreamInv /\ [Next]_pvars => StreamInv'
  BY OtherSteps, StreamStep
<1>2. StreamInv => StreamIsHeld
  BY DEF StreamInv
<1>3. QED
  BY <1>1, <1>2, StreamInit, PTL DEF Spec

-----------------------------------------------------------------------------
(* The login                                                               *)

LoginInv ==
  /\ l_time \in Nat /\ l_firstAt \in Nat /\ l_count \in Nat
  /\ l_handlers \in 0..MaxHandlers
  /\ FailuresBounded

LEMMA LoginInit == Init => LoginInv
<1> SUFFICES ASSUME Init PROVE LoginInv
  OBVIOUS
<1>1. Login!Init
  BY DEF Init
<1>2. Limit \in Nat \ {0} /\ MaxHandlers \in Nat \ {0}
  BY PagesAssumption DEF Login!LoginAssumption
<1>3. QED
  BY <1>1, <1>2 DEF LoginInv, Login!Init, FailuresBounded, Login!FailuresBounded

LEMMA LoginHolds == LoginInv /\ [Login!Next]_LoginVars => LoginInv'
<1> SUFFICES ASSUME LoginInv, [Login!Next]_LoginVars PROVE LoginInv'
  OBVIOUS
<1> USE DEF LoginInv, FailuresBounded, Login!FailuresBounded, Login!lim, Login!auth
<1>0. Limit \in Nat \ {0} /\ MaxHandlers \in Nat \ {0}
  BY PagesAssumption DEF Login!LoginAssumption
<1>1. ASSUME ~ Login!RateLimited, Login!Checked, UNCHANGED l_time PROVE LoginInv'
  BY <1>0, <1>1 DEF Login!RateLimited, Login!Checked, Login!Expired
<1>2. ASSUME Login!RecordFailure, UNCHANGED l_time PROVE LoginInv'
  BY <1>0, <1>2 DEF Login!RecordFailure
<1>3. ASSUME Login!ClearFailures \/ Login!BadRequest, UNCHANGED l_time PROVE LoginInv'
  BY <1>0, <1>3 DEF Login!ClearFailures, Login!BadRequest
<1>4. ASSUME UNCHANGED <<l_count, l_firstAt, l_handlers>>, l_time' = l_time \/ l_time' = l_time + 1
      PROVE  LoginInv'
  BY <1>4
<1>5. CASE Login!OtherChecked
  BY <1>1, <1>5 DEF Login!OtherChecked
<1>6. CASE Login!OtherAnswered
  BY <1>2, <1>3, <1>6 DEF Login!OtherAnswered
<1>7. CASE Login!LoginChecked
  BY <1>1, <1>4, <1>7 DEF Login!LoginChecked
<1>8. CASE Login!LoginCompared
  BY <1>2, <1>3, <1>8 DEF Login!LoginCompared
<1>9. CASE Login!Submit \/ Login!LoginAnswered \/ Login!Call \/ Login!Logout
           \/ Login!LogoutAnswered \/ Login!LogoutFailed
  BY <1>4, <1>9 DEF Login!Submit, Login!LoginAnswered, Login!Call, Login!Logout,
                    Login!LogoutAnswered, Login!LogoutFailed
<1>10. CASE (\E c \in Login!Cookies : Login!CallAnswered(c))
            \/ (\E late \in 0..MaxCalls : Login!SessionExpires(late))
  BY <1>4, <1>10 DEF Login!CallAnswered, Login!SessionExpires
<1>11. CASE Login!Tick
  BY <1>4, <1>11 DEF Login!Tick
<1>12. CASE UNCHANGED LoginVars
  BY <1>4, <1>12 DEF LoginVars
<1>13. QED
  BY <1>5, <1>6, <1>7, <1>8, <1>9, <1>10, <1>11, <1>12 DEF Login!Next

(* However many logins are handled at once, no more than can pass the      *)
(* check together are counted before further ones are refused.             *)
THEOREM FailuresAreBounded == Spec => []FailuresBounded
<1>1. LoginInv /\ [Next]_pvars => LoginInv'
  BY OtherSteps, LoginHolds
<1>2. LoginInv => FailuresBounded
  BY DEF LoginInv
<1>3. QED
  BY <1>1, <1>2, LoginInit, PTL DEF Spec

-----------------------------------------------------------------------------
(* The lists and their spinners                                            *)

(* What a list that loads waits for; Awaits(ks, as, l) is of any list.     *)
Awaits(keys, requests, waiting) ==
  /\ requests \in [keys -> Nat]
  /\ waiting => \E k \in keys : requests[k] > 0

Busy(keys, requests) ==
  /\ requests \in [keys -> Nat]
  /\ \E k \in keys : requests[k] > 0

LEMMA LoadAwaits ==
  ASSUME NEW keys, NEW requests \in [keys -> Nat], NEW k \in keys, NEW after,
         after = [requests EXCEPT ![k] = @ + 1]
  PROVE  Busy(keys, after)
<1>1. after \in [keys -> Nat] /\ after[k] = requests[k] + 1 /\ requests[k] \in Nat
  OBVIOUS
<1>2. after[k] > 0
  BY <1>1
<1>3. QED
  BY <1>1, <1>2 DEF Busy

LEMMA AnswerAwaits ==
  ASSUME NEW keys, NEW requests \in [keys -> Nat], NEW k \in keys, requests[k] > 0
  PROVE  Awaits(keys, [requests EXCEPT ![k] = @ - 1], FALSE)
  BY DEF Awaits

(* The page of consumer groups: a drawer that waits owns one reset, and    *)
(* one that does not owns none.                                            *)
ResetInv ==
  /\ c_resetting \in BOOLEAN
  /\ c_resets \subseteq Consumers!Reset
  /\ c_resetting <=> \E r \in c_resets : r.owned
  /\ \A r, s \in c_resets : r.owned /\ s.owned => r = s

(* Before there is a cluster nothing has been asked for, listed or opened.  *)
ConsumersInv ==
  /\ Awaits(Clusters, c_asked, c_loading /\ c_clusterId # None)
  /\ c_clusterId \in Consumers!Places
  /\ c_clusterId = None =>
       /\ \A c \in Clusters : c_asked[c] = 0
       /\ c_listed = None /\ c_drawer = None /\ c_resets = {}
  /\ c_drawer \in Consumers!Group \cup {None}
  /\ c_listed \in Clusters \cup {None}
  /\ c_confirming \in BOOLEAN /\ (c_confirming => c_drawer # None)
  /\ ResetInv

LEMMA ConsumersInit == Init => ConsumersInv
<1> SUFFICES ASSUME Init PROVE ConsumersInv
  OBVIOUS
<1>1. Consumers!Init
  BY DEF Init
<1>2. /\ Awaits(Clusters, c_asked, c_loading /\ c_clusterId # None)
      /\ c_clusterId \in Consumers!Places
      /\ c_clusterId = None => \A c \in Clusters : c_asked[c] = 0
  <2>1. None \notin Clusters
    BY PagesAssumption DEF Consumers!ConsumersAssumption
  <2>2. QED
    BY <1>1, <2>1 DEF Consumers!Init, Consumers!Places, Awaits
<1>3. c_resets = {} /\ c_resetting = FALSE /\ c_drawer = None /\ c_listed = None
      /\ c_confirming = FALSE
  BY <1>1 DEF Consumers!Init
<1>4. QED
  BY <1>2, <1>3 DEF ConsumersInv, ResetInv

LEMMA ConsumersLoad ==
  ASSUME c_asked \in [Clusters -> Nat], NEW c \in Clusters, Consumers!Load(c)
  PROVE  /\ Busy(Clusters, c_asked')
         /\ c_listed' = c_listed /\ c_loading' = TRUE
<1>1. c # None
  BY PagesAssumption DEF Consumers!ConsumersAssumption
<1>2. /\ c_asked' = [c_asked EXCEPT ![c] = @ + 1] /\ c_loading' = TRUE
      /\ c_listed' = c_listed
  BY <1>1 DEF Consumers!Load, Consumers!L!Load
<1>3. QED
  BY <1>2, LoadAwaits

LEMMA ConsumersAnswer ==
  ASSUME c_asked \in [Clusters -> Nat], NEW c \in Clusters,
         Consumers!L!Done(c) \/ Consumers!L!Failed(c)
  PROVE  /\ c_asked[c] > 0
         /\ Awaits(Clusters, c_asked', FALSE) /\ c_loading' = FALSE
         /\ c_listed' \in {c_listed, c}
<1>1. /\ c_asked[c] > 0 /\ c_asked' = [c_asked EXCEPT ![c] = @ - 1] /\ c_loading' = FALSE
      /\ c_listed' \in {c_listed, c}
  BY DEF Consumers!L!Done, Consumers!L!Failed, Consumers!L!Answered
<1>2. QED
  BY <1>1, AnswerAwaits

(* Nothing that is in flight belongs to a drawer that is gone.             *)
LEMMA UnmountedOwnsNone ==
  ASSUME ResetInv, NEW inFlight \in SUBSET c_resets, Consumers!Unmounted(inFlight)
  PROVE  ResetInv' /\ c_drawer' = None /\ c_confirming' = FALSE
<1>1. c_resetting' = FALSE /\ c_drawer' = None /\ c_confirming' = FALSE
      /\ c_resets' = {[r EXCEPT !.owned = FALSE] : r \in inFlight}
  BY DEF Consumers!Unmounted
<1>2. \A r \in Consumers!Reset : [r EXCEPT !.owned = FALSE] \in Consumers!Reset
                                 /\ [r EXCEPT !.owned = FALSE].owned = FALSE
  BY DEF Consumers!Reset
<1>3. \A r \in c_resets' : r \in Consumers!Reset /\ r.owned = FALSE
  BY <1>1, <1>2 DEF ResetInv
<1>4. QED
  BY <1>1, <1>3 DEF ResetInv

LEMMA ConfirmOwnsOne ==
  ASSUME ConsumersInv, NEW value \in Groups, Consumers!ConfirmReset(value),
         c_confirming
  PROVE  ResetInv'
<1> DEFINE reset == [group |-> c_drawer, to |-> c_clusterId, owned |-> TRUE]
<1>1. ~ c_resetting /\ c_resetting' = TRUE /\ c_resets' = c_resets \cup {reset}
  BY DEF Consumers!ConfirmReset, Consumers!Enabled
<1>2. reset \in Consumers!Reset /\ reset.owned = TRUE
  <2>1. c_drawer \in Consumers!Group /\ c_clusterId \in Clusters
    BY DEF ConsumersInv, Consumers!Places
  <2>2. QED
    BY <2>1 DEF Consumers!Reset
<1> HIDE DEF reset
<1>3. \A r \in c_resets : ~ r.owned
  BY <1>1 DEF ConsumersInv, ResetInv
<1>4. QED
  BY <1>1, <1>2, <1>3 DEF ConsumersInv, ResetInv

LEMMA FailedOwnsNone ==
  ASSUME ResetInv, NEW r \in c_resets, c_resets' = c_resets \ {r},
         c_resetting' = (c_resetting /\ ~ r.owned)
  PROVE  ResetInv'
<1>1. CASE r.owned
  BY <1>1 DEF ResetInv
<1>2. CASE ~ r.owned
  BY <1>2 DEF ResetInv
<1>3. QED
  BY <1>1, <1>2

LEMMA ConsumersStepInv == ConsumersInv /\ [Consumers!Next]_ConsumersVars => ConsumersInv'
<1> SUFFICES ASSUME ConsumersInv, [Consumers!Next]_ConsumersVars PROVE ConsumersInv'
  OBVIOUS
<1> USE DEF Consumers!list, Consumers!panel
<1>0. /\ Awaits(Clusters, c_asked, c_loading /\ c_clusterId # None)
      /\ c_asked \in [Clusters -> Nat]
      /\ c_clusterId \in Consumers!Places
      /\ c_clusterId = None =>
           /\ \A c \in Clusters : c_asked[c] = 0
           /\ c_listed = None /\ c_drawer = None /\ c_resets = {}
      /\ ResetInv
      /\ c_listed \in Clusters \cup {None} /\ c_drawer \in Consumers!Group \cup {None}
      /\ c_confirming \in BOOLEAN /\ (c_confirming => c_drawer # None)
  BY DEF ConsumersInv, Awaits
<1>a. ASSUME UNCHANGED <<c_resetting, c_resets>> PROVE ResetInv'
  BY <1>0, <1>a DEF ResetInv
<1>b. None \notin Clusters
  BY PagesAssumption DEF Consumers!ConsumersAssumption
(* A list is asked for once there is a cluster.                            *)
<1>c. ASSUME NEW c \in Clusters, Consumers!Load(c), c_clusterId' \in Clusters
      PROVE  /\ Awaits(Clusters, c_asked', c_loading' /\ c_clusterId' # None)
             /\ c_clusterId' \in Consumers!Places /\ c_clusterId' # None
             /\ c_listed' = c_listed
  BY <1>0, <1>b, <1>c, ConsumersLoad DEF Consumers!Places, Awaits, Busy
<1>d. ASSUME UNCHANGED <<c_asked, c_loading, c_clusterId>>
      PROVE  Awaits(Clusters, c_asked, c_loading /\ c_clusterId # None)'
  BY <1>0, <1>d DEF Awaits
<1>1. ASSUME NEW c \in Clusters, Consumers!ClusterChanges(c) PROVE ConsumersInv'
  BY <1>0, <1>a, <1>1, <1>c DEF Consumers!ClusterChanges, ConsumersInv
<1>2. ASSUME NEW c \in Clusters, Consumers!ListAnswered(c) PROVE ConsumersInv'
  <2>1. /\ c_asked[c] > 0 /\ c_listed' \in {c_listed, c}
        /\ Awaits(Clusters, c_asked', FALSE) /\ c_loading' = FALSE
    BY <1>0, <1>2, ConsumersAnswer DEF Consumers!ListAnswered
  <2>2. c_clusterId # None
    BY <1>0, <2>1
  <2>3. QED
    BY <1>0, <1>a, <1>2, <2>1, <2>2 DEF Consumers!ListAnswered, ConsumersInv
<1>3. ASSUME NEW g \in Groups, Consumers!Select(g) PROVE ConsumersInv'
  BY <1>0, <1>a, <1>3 DEF Consumers!Select, Consumers!Group, ConsumersInv
<1>4. ASSUME NEW g \in Groups, Consumers!ConfirmReset(g) PROVE ConsumersInv'
  BY <1>0, <1>4, ConfirmOwnsOne DEF Consumers!ConfirmReset, ConsumersInv
<1>5. ASSUME NEW r \in c_resets, Consumers!ResetDone(r) PROVE ConsumersInv'
  <2>1. r.to \in Clusters /\ c_clusterId \in Clusters
    BY <1>0 DEF ResetInv, Consumers!Reset, Consumers!Places
  <2>2. Consumers!Unmounted(c_resets \ {r}) /\ Consumers!Load(r.to) /\ UNCHANGED c_clusterId
    BY <1>5 DEF Consumers!ResetDone
  <2>3. ResetInv' /\ c_drawer' = None /\ c_confirming' = FALSE
    BY <1>0, <2>2, UnmountedOwnsNone
  <2>4. QED
    BY <1>0, <1>c, <2>1, <2>2, <2>3 DEF ConsumersInv
<1>6. ASSUME NEW r \in c_resets, Consumers!ResetFailed(r) PROVE ConsumersInv'
  BY <1>0, <1>6, FailedOwnsNone DEF Consumers!ResetFailed, ConsumersInv
<1>7. CASE Consumers!Recompute
  <2>1. CASE c_clusterId = None
    BY <1>0, <1>a, <1>7, <2>1 DEF Consumers!Recompute, Consumers!Load, ConsumersInv, Awaits
  <2>2. CASE c_clusterId \in Clusters
    BY <1>0, <1>a, <1>7, <1>c, <2>2 DEF Consumers!Recompute, ConsumersInv
  <2>3. QED
    BY <1>0, <2>1, <2>2 DEF Consumers!Places
<1>8. CASE Consumers!CloseDrawer
  BY <1>0, <1>8, UnmountedOwnsNone DEF Consumers!CloseDrawer, ConsumersInv
<1>9. CASE Consumers!AskReset \/ Consumers!CloseDialog
  <2>1. /\ UNCHANGED <<c_asked, c_loading, c_listed, c_clusterId, c_drawer, c_resetting, c_resets>>
        /\ c_confirming' \in BOOLEAN /\ c_drawer # None
    BY <1>0, <1>9 DEF Consumers!AskReset, Consumers!CloseDialog
  <2>2. QED
    BY <1>0, <1>a, <1>d, <2>1 DEF ConsumersInv
<1>10. CASE UNCHANGED ConsumersVars
  BY <1>0, <1>a, <1>10 DEF ConsumersVars, ConsumersInv
<1>11. QED
  BY <1>1, <1>2, <1>3, <1>4, <1>5, <1>6, <1>7, <1>8, <1>9, <1>10 DEF Consumers!Next

(* The page of topics.                                                     *)
Searched == Clusters \X Searches
TopicListInv ==
  /\ Awaits(Searched, t_asked, t_loading /\ t_clusterId # None)
  /\ t_clusterId \in TopicList!Places /\ t_search \in Searches /\ t_deferred \in Searches
  /\ \A c \in t_creates : c.key \in TopicList!Places \X Searches
  /\ t_clusterId = None => /\ \A k \in Searched : t_asked[k] = 0
                           /\ \A c \in t_creates : c.key[1] = None
  /\ t_submitting \in BOOLEAN
  /\ t_submitting => \E c \in t_creates : c.by = t_dialog

LEMMA NoneIsNoCluster == None \notin Clusters
  BY PagesAssumption DEF TopicList!TopicsAssumption

LEMMA TopicListInit == Init => TopicListInv
<1> SUFFICES ASSUME Init PROVE TopicListInv
  OBVIOUS
<1>1. TopicList!Init /\ "" \in Searches
  BY PagesAssumption DEF Init, TopicList!TopicsAssumption
<1>2. t_clusterId \in TopicList!Places /\ TopicList!Key = <<t_clusterId, "">>
  BY <1>1 DEF TopicList!Init, TopicList!Key
<1>3. t_asked = [k \in Searched |-> IF k = TopicList!Key THEN 1 ELSE 0] /\ t_loading = TRUE
  BY <1>1, Zenon DEF TopicList!Init, Searched
<1>4. CASE t_clusterId = None
  <2>1. \A k \in Searched : k # TopicList!Key
    <3>1. \A k \in Searched : k[1] \in Clusters
      BY DEF Searched
    <3>2. TopicList!Key[1] = None
      BY <1>2, <1>4
    <3>3. QED
      BY <3>1, <3>2, NoneIsNoCluster
  <2>2. t_asked \in [Searched -> Nat] /\ \A k \in Searched : t_asked[k] = 0
    BY <1>3, <2>1
  <2>3. Awaits(Searched, t_asked, t_loading /\ t_clusterId # None)
    BY <1>4, <2>2 DEF Awaits
  <2>4. QED
    BY <1>1, <1>2, <2>2, <2>3 DEF TopicList!Init, TopicListInv
<1>5. CASE t_clusterId \in Clusters
  <2>1. TopicList!Key \in Searched
    BY <1>1, <1>2, <1>5 DEF Searched
  <2>2. Awaits(Searched, t_asked, t_loading /\ t_clusterId # None)
    BY <1>3, <2>1 DEF Awaits
  <2>3. QED
    BY <1>1, <1>2, <1>5, <2>2, NoneIsNoCluster DEF TopicList!Init, TopicListInv
<1>6. QED
  BY <1>2, <1>4, <1>5 DEF TopicList!Places

LEMMA TopicListLoad ==
  ASSUME t_asked \in [Searched -> Nat], NEW k \in Searched, TopicList!Load(k)
  PROVE  Busy(Searched, t_asked') /\ t_loading' = TRUE
<1>1. k[1] # None
  BY NoneIsNoCluster DEF Searched
<1>2. t_asked' = [t_asked EXCEPT ![k] = @ + 1] /\ t_loading' = TRUE
  BY <1>1 DEF TopicList!Load, TopicList!L!Load
<1>3. QED
  BY <1>2, LoadAwaits

LEMMA TopicListAnswer ==
  ASSUME t_asked \in [Searched -> Nat], NEW k \in Searched,
         TopicList!L!Done(k) \/ TopicList!L!Failed(k)
  PROVE  t_asked[k] > 0 /\ Awaits(Searched, t_asked', FALSE) /\ t_loading' = FALSE
<1>1. t_asked[k] > 0 /\ t_asked' = [t_asked EXCEPT ![k] = @ - 1] /\ t_loading' = FALSE
  BY DEF TopicList!L!Done, TopicList!L!Failed, TopicList!L!Answered
<1>2. QED
  BY <1>1, AnswerAwaits

LEMMA TopicListStepInv == TopicListInv /\ [TopicList!Next]_TopicListVars => TopicListInv'
<1> SUFFICES ASSUME TopicListInv, [TopicList!Next]_TopicListVars PROVE TopicListInv'
  OBVIOUS
<1> USE DEF TopicList!list, TopicList!modal
<1>0. /\ Awaits(Searched, t_asked, t_loading /\ t_clusterId # None)
      /\ t_asked \in [Searched -> Nat]
      /\ t_clusterId \in TopicList!Places /\ t_search \in Searches /\ t_deferred \in Searches
      /\ \A c \in t_creates : c.key \in TopicList!Places \X Searches
      /\ t_clusterId = None => /\ \A k \in Searched : t_asked[k] = 0
                               /\ \A c \in t_creates : c.key[1] = None
  BY DEF TopicListInv, Awaits
(* A list is asked for once there is a cluster.                            *)
<1>a. ASSUME NEW k \in Searched, TopicList!Load(k), t_clusterId' \in Clusters
      PROVE  /\ Awaits(Searched, t_asked', t_loading' /\ t_clusterId' # None)
             /\ t_clusterId' \in TopicList!Places /\ t_clusterId' # None
  BY <1>0, <1>a, NoneIsNoCluster, TopicListLoad DEF TopicList!Places, Awaits, Busy
<1>b. ASSUME UNCHANGED <<t_asked, t_loading, t_clusterId>>
      PROVE  Awaits(Searched, t_asked, t_loading /\ t_clusterId # None)'
  BY <1>0, <1>b DEF Awaits
<1>1. ASSUME NEW c \in Clusters, TopicList!ClusterChanges(c) PROVE TopicListInv'
  <2>1. <<c, t_deferred>> \in Searched
    BY <1>0 DEF Searched
  <2>2. TopicList!Load(<<c, t_deferred>>) /\ t_clusterId' = c
    BY <1>1 DEF TopicList!ClusterChanges
  <2>3. /\ Awaits(Searched, t_asked', t_loading' /\ t_clusterId' # None)
        /\ t_clusterId' \in TopicList!Places /\ t_clusterId' # None
    BY <1>a, <2>1, <2>2
  <2>4. QED
    BY <1>0, <1>1, <2>3 DEF TopicList!ClusterChanges, TopicListInv
<1>2. ASSUME NEW text \in Searches, TopicList!Type(text) PROVE TopicListInv'
  BY <1>0, <1>2 DEF TopicList!Type, TopicListInv
<1>3. ASSUME NEW k \in Searched, TopicList!ListAnswered(k) PROVE TopicListInv'
  <2>1. t_asked[k] > 0 /\ Awaits(Searched, t_asked', FALSE) /\ t_loading' = FALSE
    BY <1>0, <1>3, TopicListAnswer DEF TopicList!ListAnswered
  <2>2. t_clusterId # None
    BY <1>0, <2>1
  <2>3. QED
    BY <1>0, <1>3, <2>1, <2>2 DEF TopicList!ListAnswered, TopicListInv
<1>4. ASSUME NEW c \in t_creates, TopicList!CreateDone(c) PROVE TopicListInv'
  <2>1. /\ c.key[1] # None /\ TopicList!Load(c.key) /\ t_clusterId' = t_clusterId
        /\ t_creates' = t_creates \ {c} /\ t_dialog' = None /\ t_submitting' = FALSE
        /\ UNCHANGED <<t_search, t_deferred>>
    BY <1>4 DEF TopicList!CreateDone
  <2>2. t_clusterId \in Clusters
    BY <1>0, <2>1 DEF TopicList!Places
  <2>3. c.key \in Searched
    BY <1>0, <2>1 DEF TopicList!Places, Searched
  <2>4. /\ Awaits(Searched, t_asked', t_loading' /\ t_clusterId' # None)
        /\ t_clusterId' \in TopicList!Places /\ t_clusterId' # None
    BY <1>a, <2>1, <2>2, <2>3
  <2>5. QED
    BY <1>0, <2>1, <2>4 DEF TopicListInv
<1>5. ASSUME NEW c \in t_creates, TopicList!CreateFailed(c) PROVE TopicListInv'
  BY <1>0, <1>5 DEF TopicList!CreateFailed, TopicListInv
<1>6. CASE TopicList!Deferred
  <2>1. /\ TopicList!Load(<<t_clusterId, t_search>>) /\ t_deferred' = t_search
        /\ UNCHANGED <<t_clusterId, t_search, t_dialog, t_submitting, t_creates>>
    BY <1>6 DEF TopicList!Deferred
  <2>2. CASE t_clusterId = None
    <3>1. UNCHANGED <<t_asked, t_loading>>
      BY <2>1, <2>2 DEF TopicList!Load
    <3>2. QED
      BY <1>0, <2>1, <3>1 DEF TopicListInv
  <2>3. CASE t_clusterId \in Clusters
    <3>1. <<t_clusterId, t_search>> \in Searched
      BY <1>0, <2>3 DEF Searched
    <3>2. /\ Awaits(Searched, t_asked', t_loading' /\ t_clusterId' # None)
          /\ t_clusterId' \in TopicList!Places /\ t_clusterId' # None
      BY <1>a, <2>1, <2>3, <3>1
    <3>3. QED
      BY <1>0, <2>1, <3>2 DEF TopicListInv
  <2>4. QED
    BY <1>0, <2>2, <2>3 DEF TopicList!Places
<1>7. CASE TopicList!OpenDialog \/ TopicList!CloseDialog
  <2>1. /\ UNCHANGED <<t_asked, t_loading, t_clusterId, t_search, t_deferred, t_creates>>
        /\ t_submitting' = FALSE
    BY <1>7 DEF TopicList!OpenDialog, TopicList!CloseDialog
  <2>2. QED
    BY <1>0, <1>b, <2>1 DEF TopicListInv
<1>8. CASE TopicList!Create
  <2> DEFINE new == [by |-> t_dialog, key |-> TopicList!Key]
  <2>1. /\ TopicList!Key \in TopicList!Places \X Searches
        /\ TopicList!Key[1] = t_clusterId
    BY <1>0 DEF TopicList!Key
  <2>2. t_creates' = t_creates \cup {new} /\ t_submitting' = TRUE
    BY <1>8 DEF TopicList!Create
  <2>3. /\ new.by = t_dialog /\ new.key \in TopicList!Places \X Searches
        /\ new.key[1] = t_clusterId
    BY <2>1
  <2>4. UNCHANGED <<t_asked, t_loading, t_clusterId, t_search, t_deferred, t_dialog>>
    BY <1>8 DEF TopicList!Create
  <2> HIDE DEF new
  <2>5. QED
    BY <1>0, <2>2, <2>3, <2>4 DEF TopicListInv
<1>9. CASE UNCHANGED TopicListVars
  BY <1>0, <1>9 DEF TopicListVars, TopicListInv
<1>10. QED
  BY <1>1, <1>2, <1>3, <1>4, <1>5, <1>6, <1>7, <1>8, <1>9 DEF TopicList!Next, Searched

(* The page of the audit log.                                              *)
AuditInv ==
  /\ Awaits(Audit!Keys, a_asked, a_loading)
  /\ \E n \in Audit!Keys : DOMAIN a_entries = 1..n

LEMMA AuditInit == Init => AuditInv
<1> SUFFICES ASSUME Init PROVE AuditInv
  OBVIOUS
<1>1. Audit!Init /\ 0 \in Audit!Keys
  BY PagesAssumption DEF Init, Audit!AuditPageAssumption, Audit!Keys
<1>2. Awaits(Audit!Keys, a_asked, a_loading)
  BY <1>1 DEF Audit!Init, Awaits
<1>3. DOMAIN a_entries = 1..0
  BY <1>1 DEF Audit!Init
<1>4. QED
  BY <1>1, <1>2, <1>3 DEF AuditInv

LEMMA AuditStepInv == AuditInv /\ [Audit!Next]_AuditVars => AuditInv'
<1> SUFFICES ASSUME AuditInv, [Audit!Next]_AuditVars PROVE AuditInv'
  OBVIOUS
<1>0. Awaits(Audit!Keys, a_asked, a_loading) /\ a_asked \in [Audit!Keys -> Nat]
      /\ MaxEntries \in Nat
  BY PagesAssumption DEF AuditInv, Awaits, Audit!AuditPageAssumption
<1>1. Audit!Written \in Audit!Keys /\ DOMAIN a_entries = 1..Audit!Written
  BY DEF AuditInv, Audit!Written
<1>2. CASE Audit!Refresh
  <2>1. a_asked' = [a_asked EXCEPT ![Audit!Written] = @ + 1] /\ a_loading' = TRUE
    BY <1>2 DEF Audit!Refresh, Audit!L!Load
  <2>2. Busy(Audit!Keys, a_asked')
    BY <1>0, <1>1, <2>1, LoadAwaits
  <2>3. QED
    BY <1>2, <2>2 DEF Audit!Refresh, AuditInv, Awaits, Busy
<1>3. ASSUME NEW k \in Audit!Keys, Audit!ListAnswered(k) PROVE AuditInv'
  <2>1. a_asked[k] > 0 /\ a_asked' = [a_asked EXCEPT ![k] = @ - 1] /\ a_loading' = FALSE
    BY <1>3 DEF Audit!ListAnswered, Audit!L!Done, Audit!L!Failed, Audit!L!Answered
  <2>2. QED
    BY <1>0, <1>3, <2>1, AnswerAwaits DEF Audit!ListAnswered, AuditInv
<1>4. ASSUME NEW value, Audit!ChooseResult(value) PROVE AuditInv'
  BY <1>4 DEF Audit!ChooseResult, Audit!list, AuditInv
<1>5. ASSUME NEW value, Audit!Write(value) PROVE AuditInv'
  <2>1. Audit!Written + 1 \in Audit!Keys
    BY <1>0, <1>1, <1>5 DEF Audit!Write, Audit!Keys
  <2>2. DOMAIN a_entries' = 1..(Audit!Written + 1)
    BY <1>5 DEF Audit!Write
  <2>3. QED
    BY <1>5, <2>1, <2>2 DEF Audit!Write, Audit!list, AuditInv
<1>6. CASE UNCHANGED AuditVars
  BY <1>6 DEF AuditVars, AuditInv
<1>7. QED
  BY <1>2, <1>3, <1>4, <1>5, <1>6 DEF Audit!Next

(* The page of settings: what is sent is what was read, and the dialog     *)
(* stays while a backup is restored.                                       *)
Read    == [base : Nat, edits : {"none", "sent", "unsaved"}]
Request == [base : Nat, done : BOOLEAN]
Reading ==
  /\ s_served \in Nat
  /\ s_loads \subseteq [n : Nat, answer : Nat \cup {None}]
  /\ s_cfg \in Read \cup {None} /\ s_save \in Request \cup {None}
  /\ s_save # None => s_cfg \in Read
Waiting ==
  /\ s_saving \in BOOLEAN /\ s_restoreTarget \in BOOLEAN /\ s_restoring \in BOOLEAN
  /\ Settings!SpinnersEnd
SettingsInv == Reading /\ Waiting

LEMMA NoneIsNothing == None \notin Nat /\ None \notin Request
  BY PagesAssumption DEF Settings!SettingsAssumption, Request

LEMMA SettingsInit == Init => SettingsInv
<1> SUFFICES ASSUME Init PROVE SettingsInv
  OBVIOUS
<1>1. Settings!Init
  BY DEF Init
<1>2. [n |-> 1, answer |-> None] \in [n : Nat, answer : Nat \cup {None}]
  OBVIOUS
<1>3. Reading
  BY <1>1, <1>2 DEF Settings!Init, Reading
<1>4. Waiting
  BY <1>1 DEF Settings!Init, Waiting, Settings!SpinnersEnd
<1>5. QED
  BY <1>3, <1>4 DEF SettingsInv

(* What each kind of step does to what is read.                            *)
LEMMA LoadReads ==
  ASSUME Reading, Settings!Load, UNCHANGED <<s_served, s_cfg>>, s_save' \in {s_save, None}
  PROVE  Reading'
<1>1. MaxLoads \in Nat
  BY PagesAssumption DEF Settings!SettingsAssumption
<1>2. PICK n \in 1..MaxLoads : s_loads' = s_loads \cup {[n |-> n, answer |-> None]}
  <2> DEFINE free == {n \in 1..MaxLoads : \A l \in s_loads : l.n # n}
  <2>1. free # {} /\ s_loads' = s_loads \cup {[n |-> CHOOSE n \in free : TRUE, answer |-> None]}
    BY DEF Settings!Load
  <2>2. (CHOOSE n \in free : TRUE) \in 1..MaxLoads
    BY <2>1
  <2>3. QED
    BY <2>1, <2>2
<1>3. [n |-> n, answer |-> None] \in [n : Nat, answer : Nat \cup {None}]
  BY <1>1
<1>4. s_loads' \subseteq [n : Nat, answer : Nat \cup {None}]
  BY <1>2, <1>3, Zenon DEF Reading
<1>5. QED
  BY <1>4 DEF Reading

LEMMA EditsReads ==
  ASSUME NEW c \in Read, NEW e \in {"none", "sent", "unsaved"}
  PROVE  [c EXCEPT !.edits = e] \in Read
  BY DEF Read

LEMMA ReadingHolds == Reading /\ [Settings!Next]_SettingsVars => Reading'
<1> SUFFICES ASSUME Reading, [Settings!Next]_SettingsVars PROVE Reading'
  OBVIOUS
<1> USE DEF Settings!saves, Settings!restores
<1>0. /\ s_loads \subseteq [n : Nat, answer : Nat \cup {None}] /\ s_served \in Nat
      /\ s_cfg \in Read \cup {None} /\ s_save \in Request \cup {None}
  BY DEF Reading
<1>a. ASSUME UNCHANGED <<s_served, s_cfg, s_save>>,
             s_loads' \subseteq [n : Nat, answer : Nat \cup {None}] PROVE Reading'
  BY <1>a DEF Reading
<1>1. ASSUME NEW l \in s_loads, Settings!LoadRead(l) PROVE Reading'
  <2>1. [l EXCEPT !.answer = s_served] \in [n : Nat, answer : Nat \cup {None}]
    BY <1>0
  <2>2. QED
    BY <1>0, <1>a, <1>1, <2>1 DEF Settings!LoadRead
<1>2. ASSUME NEW l \in s_loads, Settings!LoadDone(l) PROVE Reading'
  <2>1. l.answer \in Nat
    BY <1>0, <1>2 DEF Settings!LoadDone
  <2>2. s_cfg' \in Read
    BY <1>2, <2>1 DEF Settings!LoadDone, Read
  <2>3. QED
    BY <1>0, <1>2, <2>2 DEF Settings!LoadDone, Reading
<1>3. ASSUME NEW l \in s_loads, Settings!LoadFailed(l) PROVE Reading'
  BY <1>0, <1>3, <1>a DEF Settings!LoadFailed
<1>4. CASE Settings!Edit
  <2>1. s_cfg' \in Read
    BY <1>0, <1>4, EditsReads DEF Settings!Edit
  <2>2. QED
    BY <1>0, <1>4, <2>1 DEF Settings!Edit, Reading
<1>5. CASE Settings!Save
  <2>1. s_cfg \in Read /\ s_cfg.edits \in {"none", "sent", "unsaved"} /\ s_cfg.base \in Nat
    BY <1>0, <1>5 DEF Settings!Save, Read
  <2>2. s_cfg' = [s_cfg EXCEPT !.edits = IF s_cfg.edits = "unsaved" THEN "sent" ELSE s_cfg.edits]
        /\ s_save' = [base |-> s_cfg.base, done |-> FALSE] /\ UNCHANGED <<s_served, s_loads>>
    BY <1>5 DEF Settings!Save
  <2>3. s_cfg' \in Read
    BY <2>1, <2>2, EditsReads
  <2>4. s_save' \in Request
    BY <2>1, <2>2 DEF Request
  <2>5. QED
    BY <1>0, <2>2, <2>3, <2>4 DEF Reading
<1>6. CASE Settings!SaveDone \/ Settings!RestoreDone
  BY <1>6, LoadReads DEF Settings!SaveDone, Settings!RestoreDone
<1>7. CASE Settings!SaveFailed
  <2>1. s_cfg \in Read /\ s_cfg.edits \in {"none", "sent", "unsaved"}
    BY <1>7 DEF Settings!SaveFailed, Reading, Read
  <2>2. s_cfg' = [s_cfg EXCEPT !.edits = IF s_cfg.edits = "sent" THEN "unsaved" ELSE s_cfg.edits]
        /\ s_save' = None /\ UNCHANGED <<s_served, s_loads>>
    BY <1>7 DEF Settings!SaveFailed
  <2>3. s_cfg' \in Read
    BY <2>1, <2>2, EditsReads
  <2>4. QED
    BY <1>0, <2>2, <2>3 DEF Reading
<1>8. CASE Settings!AskRestore \/ Settings!CloseRestore \/ Settings!ConfirmRestore
           \/ Settings!RestoreFailed
  BY <1>8, <1>a, <1>0 DEF Settings!AskRestore, Settings!CloseRestore, Settings!ConfirmRestore,
                          Settings!RestoreFailed
<1>9. CASE Settings!ServerSaves
  <2>1. s_save \in Request /\ s_save' = [s_save EXCEPT !.done = TRUE] /\ s_served' = s_served + 1
        /\ UNCHANGED <<s_cfg, s_loads>> /\ s_cfg \in Read
    BY <1>0, <1>9 DEF Settings!ServerSaves, Settings!NewVersion, Reading
  <2>2. s_save' \in Request
    BY <2>1 DEF Request
  <2>3. QED
    BY <1>0, <2>1, <2>2 DEF Reading
<1>10. CASE Settings!ServerRestores \/ Settings!OthersChange
  BY <1>0, <1>10 DEF Settings!ServerRestores, Settings!OthersChange, Settings!NewVersion, Reading
<1>11. CASE UNCHANGED SettingsVars
  BY <1>0, <1>11, <1>a DEF SettingsVars
<1>12. QED
  BY <1>1, <1>2, <1>3, <1>4, <1>5, <1>6, <1>7, <1>8, <1>9, <1>10, <1>11 DEF Settings!Next

LEMMA SettingsStepInv == SettingsInv /\ [Settings!Next]_SettingsVars => SettingsInv'
<1> SUFFICES ASSUME SettingsInv, [Settings!Next]_SettingsVars PROVE SettingsInv'
  OBVIOUS
<1> USE DEF Settings!saves, Settings!restores, Settings!SpinnersEnd, Waiting
<1>0. Reading' /\ Waiting
  BY ReadingHolds DEF SettingsInv
<1>1. CASE Settings!Save
  <2>1. s_cfg \in Read /\ s_save' = [base |-> s_cfg.base, done |-> FALSE]
    BY <1>1 DEF Settings!Save, SettingsInv, Reading
  <2>2. s_save' \in Request
    BY <2>1 DEF Read, Request
  <2>3. s_save' # None
    BY <2>2, NoneIsNothing
  <2>4. Waiting'
    BY <1>0, <1>1, <2>3 DEF Settings!Save
  <2>5. QED
    BY <1>0, <2>4 DEF SettingsInv
<1>2. CASE Settings!ServerSaves
  <2>1. s_save \in Request /\ s_save' = [s_save EXCEPT !.done = TRUE]
    BY <1>2 DEF Settings!ServerSaves, SettingsInv, Reading
  <2>2. s_save' \in Request
    BY <2>1 DEF Request
  <2>3. s_save' # None
    BY <2>2, NoneIsNothing
  <2>4. Waiting'
    BY <1>0, <1>2, <2>3 DEF Settings!ServerSaves
  <2>5. QED
    BY <1>0, <2>4 DEF SettingsInv
<1>3. ASSUME NEW l \in s_loads, Settings!LoadRead(l) \/ Settings!LoadDone(l) \/ Settings!LoadFailed(l)
      PROVE  SettingsInv'
  BY <1>0, <1>3 DEF Settings!LoadRead, Settings!LoadDone, Settings!LoadFailed, SettingsInv
<1>4. CASE Settings!Edit \/ Settings!OthersChange
  BY <1>0, <1>4 DEF Settings!Edit, Settings!OthersChange, SettingsInv
<1>5. CASE Settings!SaveDone \/ Settings!SaveFailed
  <2>1. s_saving' = FALSE /\ UNCHANGED <<s_restoreTarget, s_restoring, s_restore>>
    BY <1>5 DEF Settings!SaveDone, Settings!SaveFailed
  <2>2. QED
    BY <1>0, <2>1 DEF SettingsInv
<1>6. CASE Settings!AskRestore \/ Settings!CloseRestore \/ Settings!ConfirmRestore
  <2>1. UNCHANGED <<s_saving, s_save>>
    BY <1>6 DEF Settings!AskRestore, Settings!CloseRestore, Settings!ConfirmRestore
  <2>2. s_restoreTarget' \in BOOLEAN /\ s_restoring' \in BOOLEAN
    BY <1>0, <1>6 DEF Settings!AskRestore, Settings!CloseRestore, Settings!ConfirmRestore
  <2>3. s_restoring' => s_restoreTarget' /\ s_restore' # "none"
    BY <1>0, <1>6 DEF Settings!AskRestore, Settings!CloseRestore, Settings!ConfirmRestore
  <2>4. QED
    BY <1>0, <2>1, <2>2, <2>3 DEF SettingsInv
<1>7. CASE Settings!RestoreDone \/ Settings!RestoreFailed \/ Settings!ServerRestores
  <2>1. UNCHANGED <<s_saving, s_save>>
    BY <1>7 DEF Settings!RestoreDone, Settings!RestoreFailed, Settings!ServerRestores
  <2>2. s_restoreTarget' \in BOOLEAN /\ s_restoring' \in BOOLEAN
    BY <1>0, <1>7 DEF Settings!RestoreDone, Settings!RestoreFailed, Settings!ServerRestores
  <2>3. s_restoring' => s_restoreTarget' /\ s_restore' # "none"
    BY <1>0, <1>7 DEF Settings!RestoreDone, Settings!RestoreFailed, Settings!ServerRestores
  <2>4. QED
    BY <1>0, <2>1, <2>2, <2>3 DEF SettingsInv
<1>8. CASE UNCHANGED SettingsVars
  BY <1>0, <1>8 DEF SettingsVars, SettingsInv
<1>9. QED
  BY <1>1, <1>2, <1>3, <1>4, <1>5, <1>6, <1>7, <1>8 DEF Settings!Next

-----------------------------------------------------------------------------
(* What waits for an answer, and is disabled or a spinner until it comes,  *)
(* has a request that is due one: the groups and the reset of a group, the *)
(* topics and the dialog that creates one, the audit log, the settings.    *)
(* The lists of groups and topics do so once App has a cluster to give.    *)
THEOREM SpinnersAreAnswered == Spec => []SpinnersEnd
<1> DEFINE Inv == ConsumersInv /\ TopicListInv /\ AuditInv /\ SettingsInv
<1>1. Init => Inv
  BY ConsumersInit, TopicListInit, AuditInit, SettingsInit
<1>2. Inv /\ [Next]_pvars => Inv'
  BY ListSteps, ConsumersStepInv, TopicListStepInv, AuditStepInv, SettingsStepInv
<1>3. Inv => SpinnersEnd
  <2> SUFFICES ASSUME Inv PROVE SpinnersEnd
    OBVIOUS
  <2>1. Consumers!SpinnersEnd
    BY DEF ConsumersInv, ResetInv, Awaits, Consumers!SpinnersEnd
  <2>2. TopicList!SpinnersEnd
    BY DEF TopicListInv, Awaits, Searched, TopicList!SpinnersEnd
  <2>3. Audit!SpinnersEnd
    BY DEF AuditInv, Awaits, Audit!SpinnersEnd
  <2>4. QED
    BY <2>1, <2>2, <2>3 DEF SettingsInv, Waiting, SpinnersEnd
<1>4. QED
  BY <1>1, <1>2, <1>3, PTL DEF Spec

(* Whatever is clicked while a reset is under way, a drawer sends no       *)
(* second one before the first is answered.                                *)
THEOREM OneResetAtOnce == Spec => []OneResetPerDrawer
<1>1. ConsumersInv /\ [Next]_pvars => ConsumersInv'
  BY ListSteps, ConsumersStepInv
<1>2. ConsumersInv => OneResetPerDrawer
  <2> SUFFICES ASSUME ConsumersInv PROVE OneResetPerDrawer
    OBVIOUS
  <2> DEFINE mine == {r \in c_resets : r.owned}
  <2>1. mine = {} \/ \E r \in mine : mine = {r}
    BY DEF ConsumersInv, ResetInv
  <2>2. Cardinality(mine) = 0 \/ Cardinality(mine) = 1
    <3> HIDE DEF mine
    <3>1. CASE mine = {}
      BY <3>1, FS_EmptySet
    <3>2. CASE \E r \in mine : mine = {r}
      BY <3>2, FS_Singleton
    <3>3. QED
      BY <2>1, <3>1, <3>2
  <2>3. QED
    BY <2>2 DEF OneResetPerDrawer, Consumers!OneResetPerDrawer, Consumers!Cardinality, Cardinality
<1>3. QED
  BY <1>1, <1>2, ConsumersInit, PTL DEF Spec

-----------------------------------------------------------------------------
(* What the page says of the additions of partitions                       *)

Addition == [n : Nat, count : Nat, given : Nat, from : Nat,
             server : Workspace!Server, client : Workspace!Client]

(* Only what the server has done is followed by a refresh.                 *)
Additions ==
  /\ w_partitions \in Nat /\ w_adds \subseteq Addition
  /\ w_asked \in [requests : Nat, sum : Nat, announced : Nat]
  /\ \A a \in w_adds : a.client = "refreshing" => a.server = "done"

LEMMA WorkspaceConstants == Start \in Nat /\ Counts \subseteq Nat
  BY PagesAssumption DEF Workspace!WorkspaceAssumption

LEMMA AdditionsInit == Init => Additions
  BY WorkspaceConstants DEF Init, Workspace!Init, Additions

LEMMA Forgets ==
  ASSUME Additions, UNCHANGED w_partitions, w_adds' \subseteq w_adds,
         w_asked' \in [requests : Nat, sum : Nat, announced : Nat]
  PROVE  Additions'
  BY DEF Additions

LEMMA Replaces ==
  ASSUME Additions, w_partitions' \in Nat, UNCHANGED w_asked,
         NEW a, NEW b \in Addition, b.client = "refreshing" => b.server = "done",
         Workspace!Becomes(a, b)
  PROVE  Additions'
<1>1. w_adds' = (w_adds \ {a}) \cup {b}
  BY DEF Workspace!Becomes
<1>2. QED
  BY <1>1 DEF Additions

LEMMA Staged ==
  ASSUME NEW a \in Addition, NEW s \in Workspace!Server
  PROVE  /\ [a EXCEPT !.server = s] \in Addition
         /\ [a EXCEPT !.server = s].server = s /\ [a EXCEPT !.server = s].client = a.client
  BY DEF Addition

LEMMA StagedAndGiven ==
  ASSUME NEW a \in Addition, NEW s \in Workspace!Server, NEW n \in Nat
  PROVE  /\ [a EXCEPT !.given = n, !.server = s] \in Addition
         /\ [a EXCEPT !.given = n, !.server = s].client = a.client
  BY DEF Addition

LEMMA Gone ==
  ASSUME NEW a \in Addition
  PROVE  [a EXCEPT !.client = "gone"] \in Addition /\ [a EXCEPT !.client = "gone"].client = "gone"
  BY DEF Addition, Workspace!Client

LEMMA Refreshing ==
  ASSUME NEW a \in Addition, NEW n \in Nat
  PROVE  /\ [a EXCEPT !.client = "refreshing", !.from = n] \in Addition
         /\ [a EXCEPT !.client = "refreshing", !.from = n].server = a.server
  BY DEF Addition, Workspace!Client

(* Without the page nobody waits for an answer.                            *)
LEMMA UnmountedForgets ==
  ASSUME Additions, UNCHANGED w_partitions, Workspace!Unmounted
  PROVE  Additions'
<1> DEFINE g(a) == [a EXCEPT !.client = "gone"]
<1>1. w_adds' = {g(a) : a \in {b \in w_adds : b.client = "waiting"}}
                \cup {b \in w_adds : b.client = "gone"}
      /\ w_asked' = w_asked
  BY DEF Workspace!Unmounted
<1>2. \A a \in Addition : g(a) \in Addition /\ g(a).client = "gone"
  BY Gone
<1> HIDE DEF g
<1>3. \A b \in w_adds' : b \in Addition /\ b.client = "gone"
  BY <1>1, <1>2 DEF Additions
<1>4. "gone" # "refreshing"
  OBVIOUS
<1>5. QED
  BY <1>1, <1>3, <1>4 DEF Additions

(* What the page says is decided by what the server has done.              *)
LEMMA SaysSo ==
  ASSUME Workspace!SaysWhatHappened, NEW a, NEW what, NEW heard, Workspace!Say(what, a, heard),
         \/ what \in {"added", "submitted"} /\ a.server = "done"
         \/ what = "failed" /\ (a.server = "refused" \/ heard = FALSE)
  PROVE  Workspace!SaysWhatHappened'
<1>1. CASE a.client = "gone"
  BY <1>1 DEF Workspace!Say, Workspace!SaysWhatHappened
<1>2. CASE a.client # "gone"
  <2>1. w_told' = [said |-> what, did |-> a.server = "done", heard |-> heard]
    BY <1>2 DEF Workspace!Say
  <2>2. w_told'.said = what /\ w_told'.did = (a.server = "done") /\ w_told'.heard = heard
    BY <2>1, Zenon
  <2>3. a.server = "refused" => a.server # "done"
    OBVIOUS
  <2>4. what = "failed" => what \notin {"added", "submitted"}
    OBVIOUS
  <2>5. w_told'.said \in {"added", "submitted"} => w_told'.did
    BY <2>2, <2>4, Zenon
  <2>6. w_told'.said = "failed" /\ w_told'.heard => ~ w_told'.did
    <3>1. w_told'.said = "failed" => a.server = "refused" \/ heard = FALSE
      BY <2>2, <2>4
    <3>2. QED
      BY <2>2, <2>3, <3>1, Zenon
  <2>7. QED
    BY <2>5, <2>6 DEF Workspace!SaysWhatHappened
<1>3. QED
  BY <1>1, <1>2

LEMMA AdditionsStep ==
  ASSUME Additions, Workspace!SaysWhatHappened, [Workspace!Next]_WorkspaceVars
  PROVE  Additions' /\ Workspace!SaysWhatHappened'
<1> USE DEF Workspace!parts, Workspace!gone
<1>0. /\ w_partitions \in Nat /\ w_adds \subseteq Addition
      /\ w_asked \in [requests : Nat, sum : Nat, announced : Nat]
      /\ \A a \in w_adds : a.client = "refreshing" => a.server = "done"
  BY DEF Additions
<1>a. ASSUME UNCHANGED w_told PROVE Workspace!SaysWhatHappened'
  BY <1>a DEF Workspace!SaysWhatHappened
<1>b. ASSUME UNCHANGED <<w_partitions, w_adds, w_asked, w_told>>
      PROVE  Additions' /\ Workspace!SaysWhatHappened'
  BY <1>0, <1>a, <1>b, Forgets
<1>c. \A a \in w_adds : /\ a \in Addition /\ a.n \in Nat /\ a.count \in Nat /\ a.given \in Nat
                        /\ a.server \in Workspace!Server
  BY <1>0 DEF Addition
<1>d. /\ {"counting", "creating", "done", "refused"} \subseteq Workspace!Server
      /\ {"refreshing", "gone"} \subseteq Workspace!Client
  BY DEF Workspace!Server, Workspace!Client
(* A listing finds the topic or does not.                                  *)
<1>e. ASSUME NEW a \in w_adds, NEW given \in Nat, NEW stage \in Workspace!Server,
             a.client # "refreshing", Workspace!Finds(a, given, stage)
      PROVE  Additions' /\ Workspace!SaysWhatHappened'
  <2>1. UNCHANGED <<w_partitions, w_asked, w_told>>
    BY <1>e DEF Workspace!Finds
  <2>2. \/ Workspace!Becomes(a, [a EXCEPT !.given = given, !.server = stage])
        \/ Workspace!Becomes(a, [a EXCEPT !.server = "refused"])
    BY <1>e DEF Workspace!Finds
  <2>3. /\ [a EXCEPT !.given = given, !.server = stage] \in Addition
        /\ [a EXCEPT !.given = given, !.server = stage].client # "refreshing"
    BY <1>c, <1>e, StagedAndGiven
  <2>4. [a EXCEPT !.server = "refused"] \in Addition
        /\ [a EXCEPT !.server = "refused"].client # "refreshing"
    BY <1>c, <1>d, <1>e, Staged
  <2>5. Additions'
    BY <1>0, <2>1, <2>2, <2>3, <2>4, Replaces
  <2>6. QED
    BY <1>a, <2>1, <2>5
<1>1. ASSUME NEW a \in w_adds, Workspace!ListTopics(a)
      PROVE  Additions' /\ Workspace!SaysWhatHappened'
  <2>1. a.server = "listing" /\ Workspace!Finds(a, w_partitions + a.count, "counting")
    BY <1>1 DEF Workspace!ListTopics, Workspace!TargetPartitionCount
  <2>2. w_partitions + a.count \in Nat /\ a.client # "refreshing"
    BY <1>0, <1>c, <2>1
  <2>3. QED
    BY <1>d, <1>e, <2>1, <2>2
<1>2. ASSUME NEW a \in w_adds, Workspace!KadmLists(a)
      PROVE  Additions' /\ Workspace!SaysWhatHappened'
  <2>1. a.server = "counting" /\ Workspace!Finds(a, w_partitions + a.given, "creating")
    BY <1>2 DEF Workspace!KadmLists
  <2>2. w_partitions + a.given \in Nat /\ a.client # "refreshing"
    BY <1>0, <1>c, <2>1
  <2>3. QED
    BY <1>d, <1>e, <2>1, <2>2
<1>3. ASSUME NEW a \in w_adds, Workspace!KafkaCreates(a)
      PROVE  Additions' /\ Workspace!SaysWhatHappened'
  <2>1. a.server = "creating" /\ UNCHANGED <<w_asked, w_told>>
    BY <1>3 DEF Workspace!KafkaCreates
  <2>2. a.client # "refreshing"
    BY <1>0, <2>1
  <2>3. w_partitions' \in Nat
    BY <1>0, <1>3, <1>c DEF Workspace!KafkaCreates
  <2>4. PICK s \in {"done", "refused"} : Workspace!Becomes(a, [a EXCEPT !.server = s])
    BY <1>3 DEF Workspace!KafkaCreates
  <2>5. [a EXCEPT !.server = s] \in Addition /\ [a EXCEPT !.server = s].client # "refreshing"
    BY <1>c, <1>d, <2>2, Staged
  <2>6. Additions'
    BY <2>1, <2>3, <2>4, <2>5, Replaces
  <2>7. QED
    BY <1>a, <2>1, <2>6
<1>4. ASSUME NEW a \in w_adds, Workspace!AddDone(a)
      PROVE  Additions' /\ Workspace!SaysWhatHappened'
  <2> DEFINE b == [a EXCEPT !.client = "refreshing", !.from = w_partitions]
  <2>1. /\ a.server = "done" /\ Workspace!Becomes(a, b)
        /\ UNCHANGED <<w_partitions, w_asked, w_told>>
    BY <1>4 DEF Workspace!AddDone
  <2>2. b \in Addition /\ b.server = a.server
    BY <1>0, <1>c, Refreshing
  <2> HIDE DEF b
  <2>3. Additions'
    BY <1>0, <2>1, <2>2, Replaces
  <2>4. QED
    BY <1>a, <2>1, <2>3
<1>5. ASSUME NEW a \in w_adds, Workspace!AddFailed(a)
      PROVE  Additions' /\ Workspace!SaysWhatHappened'
  <2>1. a.server = "refused" /\ Workspace!Say("failed", a, TRUE)
        /\ UNCHANGED <<w_partitions, w_asked>> /\ w_adds' \subseteq w_adds
    BY <1>5 DEF Workspace!AddFailed, Workspace!Failure
  <2>2. QED
    BY <1>0, <2>1, SaysSo, Forgets
<1>6. ASSUME NEW a \in w_adds, Workspace!AddLost(a)
      PROVE  Additions' /\ Workspace!SaysWhatHappened'
  <2> DEFINE b == [a EXCEPT !.client = "gone"]
  <2>1. /\ Workspace!Becomes(a, b) /\ UNCHANGED <<w_partitions, w_asked>>
        /\ Workspace!Say("failed", a, FALSE)
    BY <1>6 DEF Workspace!AddLost, Workspace!Failure
  <2>2. b \in Addition /\ b.client = "gone"
    BY <1>c, Gone
  <2> HIDE DEF b
  <2>3. Additions'
    BY <1>0, <2>1, <2>2, Replaces
  <2>4. QED
    BY <2>1, <2>3, SaysSo
<1>7. ASSUME NEW a \in w_adds, NEW count, Workspace!Refreshed(a, count)
      PROVE  Additions' /\ Workspace!SaysWhatHappened'
  <2>1. a.server = "done" /\ Workspace!Say("added", a, TRUE) /\ w_adds' \subseteq w_adds
        /\ w_partitions' = w_partitions /\ w_asked' = [w_asked EXCEPT !.announced = @ + a.count]
    BY <1>0, <1>7 DEF Workspace!Refreshed
  <2>2. w_asked' \in [requests : Nat, sum : Nat, announced : Nat]
    BY <1>0, <1>c, <2>1
  <2>3. QED
    BY <2>1, <2>2, SaysSo, Forgets
<1>8. ASSUME NEW a \in w_adds, Workspace!RefreshFailed(a)
      PROVE  Additions' /\ Workspace!SaysWhatHappened'
  <2>1. a.server = "done" /\ Workspace!Say("submitted", a, TRUE)
        /\ UNCHANGED <<w_partitions, w_asked>> /\ w_adds' \subseteq w_adds
    BY <1>0, <1>8 DEF Workspace!RefreshFailed, Workspace!Failure
  <2>2. QED
    BY <1>0, <2>1, SaysSo, Forgets
<1>9. ASSUME NEW a \in w_adds, Workspace!Forgotten(a)
      PROVE  Additions' /\ Workspace!SaysWhatHappened'
  <2>1. UNCHANGED <<w_partitions, w_asked, w_told>> /\ w_adds' \subseteq w_adds
    BY <1>9 DEF Workspace!Forgotten
  <2>2. QED
    BY <1>0, <1>a, <2>1, Forgets
<1>10. ASSUME NEW count \in Counts, Workspace!Add(count)
       PROVE  Additions' /\ Workspace!SaysWhatHappened'
  <2> DEFINE new == [n |-> w_asked.requests + 1, count |-> count, given |-> 0, from |-> 0,
                     server |-> "listing", client |-> "waiting"]
  <2>1. /\ w_asked' = [w_asked EXCEPT !.requests = @ + 1, !.sum = @ + count]
        /\ w_adds' = w_adds \cup {new} /\ UNCHANGED <<w_partitions, w_told>>
    BY <1>10 DEF Workspace!Add
  <2>2. count \in Nat
    BY WorkspaceConstants
  <2>3. w_asked' \in [requests : Nat, sum : Nat, announced : Nat]
    <3>1. w_asked.requests + 1 \in Nat /\ w_asked.sum + count \in Nat
      BY <1>0, <2>2
    <3>2. w_asked' = [w_asked EXCEPT !.requests = w_asked.requests + 1, !.sum = w_asked.sum + count]
      BY <2>1
    <3>3. QED
      BY <1>0, <3>1, <3>2
  <2>4. new \in Addition /\ new.client # "refreshing"
    BY <1>0, <2>2 DEF Addition, Workspace!Server, Workspace!Client
  <2> HIDE DEF new
  <2>5. Additions'
    BY <1>0, <2>1, <2>3, <2>4 DEF Additions
  <2>6. QED
    BY <1>a, <2>1, <2>5
<1>11. CASE Workspace!RemoveDone \/ Workspace!Leave
  <2>1. Workspace!Unmounted /\ UNCHANGED <<w_partitions, w_told>>
    BY <1>11 DEF Workspace!RemoveDone, Workspace!Leave, Workspace!Unmounted
  <2>2. QED
    BY <1>a, <2>1, UnmountedForgets
<1>12. CASE Workspace!ToggleForm \/ Workspace!AskRemove \/ Workspace!CloseRemove
            \/ Workspace!Remove \/ Workspace!KafkaRemoves \/ Workspace!RemoveFailed
  BY <1>12, <1>b DEF Workspace!ToggleForm, Workspace!AskRemove, Workspace!CloseRemove,
       Workspace!Remove, Workspace!KafkaRemoves, Workspace!RemoveFailed
<1>13. CASE UNCHANGED WorkspaceVars
  BY <1>13, <1>b DEF WorkspaceVars
<1>14. QED
  BY <1>1, <1>2, <1>3, <1>4, <1>5, <1>6, <1>7, <1>8, <1>9, <1>10, <1>11, <1>12, <1>13
     DEF Workspace!Next

(* What the page says of an addition is what the server did with the       *)
(* request, however requests overlap, are refused or lose their answers.   *)
THEOREM AdditionsAreTold == Spec => []SaysWhatHappened
<1> DEFINE Inv == Additions /\ Workspace!SaysWhatHappened
<1>1. Init => Inv
  <2> SUFFICES ASSUME Init PROVE Workspace!SaysWhatHappened
    BY AdditionsInit
  <2>1. w_told = [said |-> "nothing", did |-> FALSE, heard |-> TRUE]
    BY DEF Init, Workspace!Init
  <2>2. QED
    BY <2>1 DEF Workspace!SaysWhatHappened
<1>2. Inv /\ [Next]_pvars => Inv'
  BY OtherSteps, AdditionsStep
<1>3. Inv => SaysWhatHappened
  BY DEF SaysWhatHappened
<1>4. QED
  BY <1>1, <1>2, <1>3, PTL DEF Spec

-----------------------------------------------------------------------------
(* The overlays                                                            *)

(* What a fold over one or two overlays does.                              *)
LEMMA MaxOne == Modal!Max({1}) = 1
  BY DEF Modal!Max

LEMMA MaxOfTwo == Modal!Max({2}) = 2 /\ Modal!Max({1, 2}) = 2
  BY DEF Modal!Max

LEMMA CleanupsOne ==
  ASSUME NEW s, NEW o
  PROVE  Modal!Cleanups(s, <<o>>) = Modal!Cleanup(s, o)
<1> DEFINE q == <<o>>
           D == DOMAIN q
           Value(f, t) == IF t = {} THEN s
                          ELSE Modal!Cleanup(f[t \ {Modal!Max(t)}], q[Modal!Max(t)])
           Is(f) == f = [t \in SUBSET D |-> Value(f, t)]
           g == [t \in SUBSET {1} |-> IF t = {} THEN s ELSE Modal!Cleanup(s, o)]
           iter == CHOOSE f : Is(f)
<1>1. D = {1} /\ q[1] = o
  OBVIOUS
<1>2. Modal!Cleanups(s, q) = iter[D]
  BY Zenon DEF Modal!Cleanups, Modal!FoldLeft, Modal!MapThenFoldSet
<1> HIDE DEF q, D
<1>3. {1} \ {Modal!Max({1})} = {} /\ q[Modal!Max({1})] = o
  BY <1>1, MaxOne
<1>4. Is(g)
  <2>1. \A t \in SUBSET {1} : t = {} \/ t = {1}
    OBVIOUS
  <2>2. g[{}] = s /\ g[{1}] = Modal!Cleanup(s, o)
    OBVIOUS
  <2>3. Value(g, {}) = s /\ Value(g, {1}) = Modal!Cleanup(s, o)
    BY <1>3, <2>2
  <2> HIDE DEF Value
  <2>4. \A t \in SUBSET {1} : g[t] = Value(g, t)
    BY <2>1, <2>2, <2>3
  <2>5. QED
    BY <1>1, <2>4
<1>5. Is(iter)
  BY <1>4
<1>6. iter[{1}] = Modal!Cleanup(s, o)
  <2> HIDE DEF iter
  <2>1. iter[{}] = s
    BY <1>5
  <2>2. {1} \in SUBSET D /\ {1} # {}
    BY <1>1
  <2>3. QED
    BY <1>3, <1>5, <2>1, <2>2
<1>7. QED
  BY <1>1, <1>2, <1>6 DEF q

LEMMA CleanupsTwo ==
  ASSUME NEW s, NEW o, NEW p
  PROVE  Modal!Cleanups(s, <<o, p>>) = Modal!Cleanup(Modal!Cleanup(s, o), p)
<1> DEFINE q == <<o, p>>
           D == DOMAIN q
           Value(f, t) == IF t = {} THEN s
                          ELSE Modal!Cleanup(f[t \ {Modal!Max(t)}], q[Modal!Max(t)])
           Is(f) == f = [t \in SUBSET D |-> Value(f, t)]
           g == [t \in SUBSET {1, 2} |->
                   IF t = {} THEN s
                   ELSE IF t = {1} THEN Modal!Cleanup(s, o)
                   ELSE IF t = {2} THEN Modal!Cleanup(s, p)
                   ELSE Modal!Cleanup(Modal!Cleanup(s, o), p)]
           iter == CHOOSE f : Is(f)
<1>1. D = {1, 2} /\ q[1] = o /\ q[2] = p
  OBVIOUS
<1>2. Modal!Cleanups(s, q) = iter[D]
  BY Zenon DEF Modal!Cleanups, Modal!FoldLeft, Modal!MapThenFoldSet
<1> HIDE DEF q, D
<1>3. /\ {1} \ {Modal!Max({1})} = {} /\ q[Modal!Max({1})] = o
      /\ {2} \ {Modal!Max({2})} = {} /\ q[Modal!Max({2})] = p
      /\ {1, 2} \ {Modal!Max({1, 2})} = {1} /\ q[Modal!Max({1, 2})] = p
  BY <1>1, MaxOne, MaxOfTwo
<1>a. {} # {1} /\ {} # {2} /\ {1} # {2} /\ {1, 2} # {}
  OBVIOUS
<1>b. {1, 2} # {1} /\ {1, 2} # {2}
  <2>1. 2 \in {1, 2} /\ 2 \notin {1} /\ 1 \in {1, 2} /\ 1 \notin {2}
    OBVIOUS
  <2>2. QED
    BY <2>1, Zenon
<1>c. {} \in SUBSET {1, 2} /\ {1} \in SUBSET {1, 2} /\ {2} \in SUBSET {1, 2}
      /\ {1, 2} \in SUBSET {1, 2}
  OBVIOUS
<1>4. \A t \in SUBSET {1, 2} : t = {} \/ t = {1} \/ t = {2} \/ t = {1, 2}
  OBVIOUS
<1>5. Is(g)
  <2>1. /\ g[{}] = s /\ g[{1}] = Modal!Cleanup(s, o) /\ g[{2}] = Modal!Cleanup(s, p)
        /\ g[{1, 2}] = Modal!Cleanup(Modal!Cleanup(s, o), p)
    BY <1>a, <1>b, <1>c
  <2>2. /\ Value(g, {}) = s /\ Value(g, {1}) = Modal!Cleanup(s, o)
        /\ Value(g, {2}) = Modal!Cleanup(s, p)
        /\ Value(g, {1, 2}) = Modal!Cleanup(Modal!Cleanup(s, o), p)
    <3> HIDE DEF g
    <3>1. QED
      BY <1>3, <1>a, <1>b, <2>1
  <2> HIDE DEF Value
  <2>3. \A t \in SUBSET {1, 2} : g[t] = Value(g, t)
    <3> HIDE DEF g
    <3>1. QED
      BY <1>4, <2>1, <2>2
  <2>4. QED
    BY <1>1, <2>3
<1>6. Is(iter)
  BY <1>5
<1>7. iter[{1, 2}] = Modal!Cleanup(Modal!Cleanup(s, o), p)
  <2>1. \A t \in SUBSET {1, 2} : iter[t] = Value(iter, t)
    BY <1>1, <1>6
  <2> HIDE DEF iter
  <2>2. iter[{}] = s
    BY <1>c, <2>1
  <2>3. iter[{1}] = Modal!Cleanup(s, o)
    <3>1. Value(iter, {1}) = Modal!Cleanup(s, o)
      BY <1>3, <1>a, <2>2
    <3>2. QED
      BY <1>c, <2>1, <3>1
  <2>4. Value(iter, {1, 2}) = Modal!Cleanup(Modal!Cleanup(s, o), p)
    BY <1>3, <1>a, <2>3
  <2>5. QED
    BY <1>c, <2>1, <2>4
<1>8. QED
  BY <1>1, <1>2, <1>7 DEF q

LEMMA EffectsOne ==
  ASSUME NEW s, NEW o
  PROVE  Modal!Effects(s, <<o>>) = Modal!Effect(s, o)
<1> DEFINE q == <<o>>
           D == DOMAIN q
           Value(f, t) == IF t = {} THEN s
                          ELSE Modal!Effect(f[t \ {Modal!Max(t)}], q[Modal!Max(t)])
           Is(f) == f = [t \in SUBSET D |-> Value(f, t)]
           g == [t \in SUBSET {1} |-> IF t = {} THEN s ELSE Modal!Effect(s, o)]
           iter == CHOOSE f : Is(f)
<1>1. D = {1} /\ q[1] = o
  OBVIOUS
<1>2. Modal!Effects(s, q) = iter[D]
  BY Zenon DEF Modal!Effects, Modal!FoldLeft, Modal!MapThenFoldSet
<1> HIDE DEF q, D
<1>3. {1} \ {Modal!Max({1})} = {} /\ q[Modal!Max({1})] = o
  BY <1>1, MaxOne
<1>4. Is(g)
  <2>1. \A t \in SUBSET {1} : t = {} \/ t = {1}
    OBVIOUS
  <2>2. g[{}] = s /\ g[{1}] = Modal!Effect(s, o)
    OBVIOUS
  <2>3. Value(g, {}) = s /\ Value(g, {1}) = Modal!Effect(s, o)
    BY <1>3, <2>2
  <2> HIDE DEF Value
  <2>4. \A t \in SUBSET {1} : g[t] = Value(g, t)
    BY <2>1, <2>2, <2>3
  <2>5. QED
    BY <1>1, <2>4
<1>5. Is(iter)
  BY <1>4
<1>6. iter[{1}] = Modal!Effect(s, o)
  <2> HIDE DEF iter
  <2>1. iter[{}] = s
    BY <1>5
  <2>2. {1} \in SUBSET D /\ {1} # {}
    BY <1>1
  <2>3. QED
    BY <1>3, <1>5, <2>1, <2>2
<1>7. QED
  BY <1>1, <1>2, <1>6 DEF q

LEMMA EffectsTwo ==
  ASSUME NEW s, NEW o, NEW p
  PROVE  Modal!Effects(s, <<o, p>>) = Modal!Effect(Modal!Effect(s, o), p)
<1> DEFINE q == <<o, p>>
           D == DOMAIN q
           Value(f, t) == IF t = {} THEN s
                          ELSE Modal!Effect(f[t \ {Modal!Max(t)}], q[Modal!Max(t)])
           Is(f) == f = [t \in SUBSET D |-> Value(f, t)]
           g == [t \in SUBSET {1, 2} |->
                   IF t = {} THEN s
                   ELSE IF t = {1} THEN Modal!Effect(s, o)
                   ELSE IF t = {2} THEN Modal!Effect(s, p)
                   ELSE Modal!Effect(Modal!Effect(s, o), p)]
           iter == CHOOSE f : Is(f)
<1>1. D = {1, 2} /\ q[1] = o /\ q[2] = p
  OBVIOUS
<1>2. Modal!Effects(s, q) = iter[D]
  BY Zenon DEF Modal!Effects, Modal!FoldLeft, Modal!MapThenFoldSet
<1> HIDE DEF q, D
<1>3. /\ {1} \ {Modal!Max({1})} = {} /\ q[Modal!Max({1})] = o
      /\ {2} \ {Modal!Max({2})} = {} /\ q[Modal!Max({2})] = p
      /\ {1, 2} \ {Modal!Max({1, 2})} = {1} /\ q[Modal!Max({1, 2})] = p
  BY <1>1, MaxOne, MaxOfTwo
<1>a. {} # {1} /\ {} # {2} /\ {1} # {2} /\ {1, 2} # {}
  OBVIOUS
<1>b. {1, 2} # {1} /\ {1, 2} # {2}
  <2>1. 2 \in {1, 2} /\ 2 \notin {1} /\ 1 \in {1, 2} /\ 1 \notin {2}
    OBVIOUS
  <2>2. QED
    BY <2>1, Zenon
<1>c. {} \in SUBSET {1, 2} /\ {1} \in SUBSET {1, 2} /\ {2} \in SUBSET {1, 2}
      /\ {1, 2} \in SUBSET {1, 2}
  OBVIOUS
<1>4. \A t \in SUBSET {1, 2} : t = {} \/ t = {1} \/ t = {2} \/ t = {1, 2}
  OBVIOUS
<1>5. Is(g)
  <2>1. /\ g[{}] = s /\ g[{1}] = Modal!Effect(s, o) /\ g[{2}] = Modal!Effect(s, p)
        /\ g[{1, 2}] = Modal!Effect(Modal!Effect(s, o), p)
    BY <1>a, <1>b, <1>c
  <2>2. /\ Value(g, {}) = s /\ Value(g, {1}) = Modal!Effect(s, o)
        /\ Value(g, {2}) = Modal!Effect(s, p)
        /\ Value(g, {1, 2}) = Modal!Effect(Modal!Effect(s, o), p)
    <3> HIDE DEF g
    <3>1. QED
      BY <1>3, <1>a, <1>b, <2>1
  <2> HIDE DEF Value
  <2>3. \A t \in SUBSET {1, 2} : g[t] = Value(g, t)
    <3> HIDE DEF g
    <3>1. QED
      BY <1>4, <2>1, <2>2
  <2>4. QED
    BY <1>1, <2>3
<1>6. Is(iter)
  BY <1>5
<1>7. iter[{1, 2}] = Modal!Effect(Modal!Effect(s, o), p)
  <2>1. \A t \in SUBSET {1, 2} : iter[t] = Value(iter, t)
    BY <1>1, <1>6
  <2> HIDE DEF iter
  <2>2. iter[{}] = s
    BY <1>c, <2>1
  <2>3. iter[{1}] = Modal!Effect(s, o)
    <3>1. Value(iter, {1}) = Modal!Effect(s, o)
      BY <1>3, <1>a, <2>2
    <3>2. QED
      BY <1>c, <2>1, <3>1
  <2>4. Value(iter, {1, 2}) = Modal!Effect(Modal!Effect(s, o), p)
    BY <1>3, <1>a, <2>3
  <2>5. QED
    BY <1>c, <2>1, <2>4
<1>8. QED
  BY <1>1, <1>2, <1>7 DEF q

Opens   == {<<>>, <<"drawer">>, <<"dialog">>, <<"drawer", "dialog">>}
Styles  == {"", "hidden"}
Screens == [open : Opens, body : Styles, found : [Modal!Overlay -> Styles],
            focus : Modal!Places, previous : [Modal!Overlay -> Modal!Places]]

(* A dialog over a drawer has found the page locked.                       *)
LockInv ==
  /\ Modal!Screen \in Screens
  /\ open # <<>> => body = "hidden"
  /\ open = <<"drawer", "dialog">> => found["dialog"] = "hidden"

LEMMA CleanupFields ==
  ASSUME NEW s \in Screens, NEW o \in Modal!Overlay
  PROVE  /\ Modal!Cleanup(s, o) \in Screens
         /\ Modal!Cleanup(s, o).open = s.open /\ Modal!Cleanup(s, o).body = s.found[o]
         /\ Modal!Cleanup(s, o).found = s.found
<1> DEFINE f == IF Modal!Present(s, s.previous[o]) THEN s.previous[o] ELSE s.focus
<1>1. Modal!Cleanup(s, o) = [s EXCEPT !.body = s.found[o], !.focus = f]
  BY DEF Modal!Cleanup
<1>2. f \in Modal!Places /\ s.found[o] \in Styles
  BY DEF Screens
<1> HIDE DEF f
<1>3. QED
  BY <1>1, <1>2 DEF Screens

LEMMA EffectFields ==
  ASSUME NEW s \in Screens, NEW o \in Modal!Overlay
  PROVE  /\ Modal!Effect(s, o) \in Screens
         /\ Modal!Effect(s, o).open = s.open /\ Modal!Effect(s, o).body = "hidden"
         /\ Modal!Effect(s, o).found = [s.found EXCEPT ![o] = s.body]
<1>1. <<o, "first">> \in Modal!Places
  BY DEF Modal!Places
<1>2. Modal!Effect(s, o) = [s EXCEPT !.found = [s.found EXCEPT ![o] = s.body],
        !.previous = [s.previous EXCEPT ![o] = s.focus], !.body = "hidden",
        !.focus = <<o, "first">>]
  BY DEF Modal!Effect, Screens
<1>3. [s.found EXCEPT ![o] = s.body] \in [Modal!Overlay -> Styles]
      /\ [s.previous EXCEPT ![o] = s.focus] \in [Modal!Overlay -> Modal!Places]
      /\ "hidden" \in Styles
  BY DEF Screens, Styles
<1> DEFINE nf == [s.found EXCEPT ![o] = s.body]
           np == [s.previous EXCEPT ![o] = s.focus]
           pl == <<o, "first">>
<1> HIDE DEF nf, np, pl
<1>4. Modal!Effect(s, o) = [s EXCEPT !.found = nf, !.previous = np, !.body = "hidden", !.focus = pl]
  BY <1>2, Zenon DEF nf, np, pl
<1>5. nf \in [Modal!Overlay -> Styles] /\ np \in [Modal!Overlay -> Modal!Places]
      /\ "hidden" \in Styles /\ pl \in Modal!Places
  BY <1>1, <1>3, Zenon DEF nf, np, pl
<1>6. Modal!Effect(s, o) \in Screens /\ Modal!Effect(s, o).open = s.open
      /\ Modal!Effect(s, o).body = "hidden" /\ Modal!Effect(s, o).found = nf
  BY <1>4, <1>5 DEF Screens
<1>7. QED
  BY <1>6 DEF nf

LEMMA RemovedFields ==
  ASSUME NEW s \in Screens, NEW rest \in Opens
  PROVE  /\ Modal!Removed(s, rest) \in Screens
         /\ Modal!Removed(s, rest).open = rest /\ Modal!Removed(s, rest).body = s.body
         /\ Modal!Removed(s, rest).found = s.found
<1> DEFINE left == [s EXCEPT !.open = rest]
<1>1. left \in Screens /\ left.open = rest /\ left.body = s.body /\ left.found = s.found
  BY DEF Screens
<1>2. Modal!Page \in Modal!Places
  BY DEF Modal!Places
<1>3. Modal!Removed(s, rest) = left \/ Modal!Removed(s, rest) = [left EXCEPT !.focus = Modal!Page]
  BY DEF Modal!Removed
<1> HIDE DEF left
<1>4. QED
  BY <1>1, <1>2, <1>3 DEF Screens

(* The cleanups of all that is open leave the overlays as they are.        *)
LEMMA CleanupsFields ==
  ASSUME NEW s \in Screens, NEW overlays \in Opens, overlays # <<>>
  PROVE  Modal!Cleanups(s, overlays) \in Screens /\ Modal!Cleanups(s, overlays).open = s.open
<1>1. "drawer" \in Modal!Overlay /\ "dialog" \in Modal!Overlay
  BY DEF Modal!Overlay
<1> DEFINE first == Modal!Cleanup(s, "drawer")
<1>2. first \in Screens /\ first.open = s.open
  BY <1>1, CleanupFields
<1>3. CASE overlays = <<"drawer">>
  BY <1>2, <1>3, CleanupsOne
<1>4. CASE overlays = <<"dialog">>
  <2>1. Modal!Cleanups(s, overlays) = Modal!Cleanup(s, "dialog")
    BY <1>4, CleanupsOne
  <2>2. QED
    BY <1>1, <2>1, CleanupFields
<1>5. CASE overlays = <<"drawer", "dialog">>
  <2>1. Modal!Cleanups(s, overlays) = Modal!Cleanup(first, "dialog")
    BY <1>5, CleanupsTwo
  <2> HIDE DEF first
  <2>2. Modal!Cleanup(first, "dialog") \in Screens /\ Modal!Cleanup(first, "dialog").open = first.open
    BY <1>1, <1>2, CleanupFields
  <2>3. QED
    BY <1>2, <2>1, <2>2
<1>6. QED
  BY <1>3, <1>4, <1>5 DEF Opens

LEMMA ScreenFields ==
  /\ Modal!Screen.open = open /\ Modal!Screen.body = body /\ Modal!Screen.found = found
  /\ Modal!Screen.focus = focus /\ Modal!Screen.previous = previous
  BY DEF Modal!Screen

(* What is shown is one of the screens.                                    *)
LEMMA ShownIsScreen ==
  ASSUME NEW s \in Screens, Modal!Show(s)
  PROVE  /\ Modal!Screen' \in Screens /\ open' = s.open /\ body' = s.body /\ found' = s.found
<1>1. /\ open' = s.open /\ body' = s.body /\ found' = s.found
      /\ focus' = s.focus /\ previous' = s.previous
  BY DEF Modal!Show
<1>2. Modal!Screen' = [open |-> open', body |-> body', found |-> found', focus |-> focus',
                       previous |-> previous']
  BY DEF Modal!Screen
<1>3. Modal!Screen' \in Screens
  BY <1>1, <1>2 DEF Screens
<1>4. QED
  BY <1>1, <1>3

LEMMA AppendPair == ASSUME NEW a, NEW b PROVE Append(<<a>>, b) = <<a, b>>
<1> DEFINE S    == {a, b}
           one  == <<a>>
           both == <<a, b>>
           app  == Append(one, b)
<1>1. /\ one \in Seq(S) /\ Len(one) = 1 /\ one[1] = a /\ b \in S
      /\ both \in Seq(S) /\ Len(both) = 2 /\ both[1] = a /\ both[2] = b
  OBVIOUS
<1> HIDE DEF S, one, both
<1>1a. one \in Seq(S) /\ b \in S
  BY <1>1
<1>2. app \in Seq(S)
  BY <1>1a
<1>3. Len(app) = Len(one) + 1
  BY <1>1a
<1>4. (\A i \in 1..Len(one) : app[i] = one[i]) /\ app[Len(one) + 1] = b
  BY <1>1a, <1>2, <1>3, AppendProperties
<1> HIDE DEF app
<1>5. Len(app) = Len(both) /\ \A i \in 1..Len(app) : app[i] = both[i]
  BY <1>1, <1>3, <1>4
<1>6. app = both
  BY <1>1, <1>2, <1>5, SeqEqual
<1>7. QED
  BY <1>6 DEF app, one, both

LEMMA Sequences2 ==
  /\ Modal!Front(<<"dialog">>) = <<>> /\ Modal!Front(<<"drawer", "dialog">>) = <<"drawer">>
  /\ Append(<<>>, "dialog") = <<"dialog">> /\ Append(<<"drawer">>, "dialog") = <<"drawer", "dialog">>
<1> DEFINE both == <<"drawer", "dialog">>
           one == <<"drawer">>
           S == {"drawer", "dialog"}
<1>1. both \in Seq(S) /\ one \in Seq(S) /\ Len(both) = 2 /\ Len(one) = 1
      /\ both[1] = "drawer" /\ both[2] = "dialog" /\ one[1] = "drawer" /\ "dialog" \in S
  OBVIOUS
<1>2. Modal!Front(<<"dialog">>) = <<>> /\ Append(<<>>, "dialog") = <<"dialog">>
  BY DEF Modal!Front
<1> HIDE DEF both, one
<1>3. Modal!Front(both) = one
  <2>1. Modal!Front(both) = SubSeq(both, 1, 1)
    BY <1>1 DEF Modal!Front
  <2>2. SubSeq(both, 1, 1) \in Seq(S) /\ Len(SubSeq(both, 1, 1)) = 1
        /\ SubSeq(both, 1, 1)[1] = both[1]
    BY <1>1, SubSeqProperties
  <2>3. QED
    BY <1>1, <2>1, <2>2, SeqEqual
<1>4. Append(one, "dialog") = both
  BY AppendPair DEF one, both
<1>5. QED
  BY <1>2, <1>3, <1>4 DEF both, one

LEMMA LockInit == Init => LockInv
<1> SUFFICES ASSUME Init PROVE LockInv
  OBVIOUS
<1>1. Modal!Init
  BY DEF Init
<1>2. open = <<>> /\ body = "" /\ found = [o \in Modal!Overlay |-> ""]
      /\ focus = Modal!Page /\ previous = [o \in Modal!Overlay |-> Modal!Page]
  BY <1>1 DEF Modal!Init
<1>3. Modal!Page \in Modal!Places /\ "" \in Styles
  BY DEF Modal!Places, Styles
<1>4. open \in Opens /\ body \in Styles /\ found \in [Modal!Overlay -> Styles]
      /\ focus \in Modal!Places /\ previous \in [Modal!Overlay -> Modal!Places]
  BY <1>2, <1>3 DEF Opens
<1>5. Modal!Screen \in Screens
  BY <1>4 DEF Modal!Screen, Screens
<1>6. <<>> # <<"drawer", "dialog">>
  OBVIOUS
<1>7. QED
  BY <1>2, <1>5, <1>6 DEF LockInv

(* An effect leaves the page locked; over a drawer, a dialog found it so.  *)
LEMMA EffectLocks ==
  ASSUME NEW s \in Screens, NEW o \in Modal!Overlay, Modal!Show(Modal!Effect(s, o)),
         s.open = <<"drawer", "dialog">> => o = "dialog" /\ s.body = "hidden"
  PROVE  LockInv'
<1>1. /\ Modal!Effect(s, o) \in Screens
      /\ Modal!Effect(s, o).open = s.open /\ Modal!Effect(s, o).body = "hidden"
      /\ Modal!Effect(s, o).found = [s.found EXCEPT ![o] = s.body]
  BY EffectFields
<1>2. /\ Modal!Screen' \in Screens /\ open' = s.open /\ body' = "hidden"
      /\ found' = [s.found EXCEPT ![o] = s.body]
  BY <1>1, ShownIsScreen
<1>3. s.found \in [Modal!Overlay -> Styles] /\ "dialog" \in Modal!Overlay
  BY DEF Screens, Modal!Overlay
<1>4. o = "dialog" => found'["dialog"] = s.body
  BY <1>2, <1>3
<1>5. QED
  BY <1>2, <1>4 DEF LockInv

LEMMA LockStep == LockInv /\ [Modal!Next]_ModalVars => LockInv'
<1> SUFFICES ASSUME LockInv, [Modal!Next]_ModalVars PROVE LockInv'
  OBVIOUS
<1> DEFINE dr == <<"drawer">>
           di == <<"dialog">>
           both == <<"drawer", "dialog">>
<1>0. /\ <<>> # dr /\ <<>> # di /\ <<>> # both /\ dr # both /\ di # both /\ dr # di
      /\ Opens = {<<>>, dr, di, both}
      /\ Modal!Front(di) = <<>> /\ Modal!Front(both) = dr
      /\ Append(<<>>, "dialog") = di /\ Append(dr, "dialog") = both
  BY Sequences2 DEF Opens
<1>a. ~ Modal!Contains(<<>>, "dialog") /\ ~ Modal!Contains(dr, "dialog")
  BY DEF Modal!Contains
<1>b. /\ Modal!Screen \in Screens /\ open \in Opens /\ body \in Styles
      /\ found \in [Modal!Overlay -> Styles]
      /\ "drawer" \in Modal!Overlay /\ "dialog" \in Modal!Overlay
      /\ Modal!Screen.open = open /\ Modal!Screen.body = body /\ Modal!Screen.found = found
  <2>1. Modal!Screen \in Screens
    BY DEF LockInv
  <2>2. QED
    BY <2>1, ScreenFields DEF Screens, Modal!Overlay
<1> DEFINE Locked == (open # <<>> => body = "hidden") /\ (open = both => found["dialog"] = "hidden")
<1>c. Locked
  BY DEF LockInv
<1>d. \A s \in Screens, o \in Modal!Overlay :
        /\ Modal!Cleanup(s, o) \in Screens /\ Modal!Cleanup(s, o).open = s.open
        /\ Modal!Cleanup(s, o).body = s.found[o] /\ Modal!Cleanup(s, o).found = s.found
        /\ Modal!Effect(s, o) \in Screens /\ Modal!Effect(s, o).open = s.open
        /\ Modal!Effect(s, o).body = "hidden"
  BY CleanupFields, EffectFields
<1>e. /\ \A s : Modal!Cleanups(s, dr) = Modal!Cleanup(s, "drawer")
      /\ \A s : Modal!Cleanups(s, di) = Modal!Cleanup(s, "dialog")
      /\ \A s : Modal!Cleanups(s, both) = Modal!Cleanup(Modal!Cleanup(s, "drawer"), "dialog")
  BY CleanupsOne, CleanupsTwo
<1>f. /\ \A s : Modal!Effects(s, dr) = Modal!Effect(s, "drawer")
      /\ \A s : Modal!Effects(s, di) = Modal!Effect(s, "dialog")
      /\ \A s : Modal!Effects(s, both) = Modal!Effect(Modal!Effect(s, "drawer"), "dialog")
  BY EffectsOne, EffectsTwo
<1> HIDE DEF dr, di, both
<1>1. ASSUME NEW field \in BOOLEAN, Modal!OpenDialog(field) PROVE LockInv'
  <2> DEFINE mounted == [Modal!Screen EXCEPT !.open = Append(open, "dialog")]
             shown == IF field THEN [mounted EXCEPT !.focus = <<"dialog", "field">>] ELSE mounted
  <2>1. (open = <<>> \/ open = dr) /\ Modal!Show(Modal!Effect(shown, "dialog"))
    BY <1>1 DEF Modal!OpenDialog, dr
  <2>2. Append(open, "dialog") \in Opens
        /\ (Append(open, "dialog") = both => open = dr)
    BY <1>0, <2>1
  <2>3. mounted \in Screens /\ mounted.open = Append(open, "dialog") /\ mounted.body = body
    BY <1>b, <2>2 DEF Screens
  <2>4. <<"dialog", "field">> \in Modal!Places
    BY DEF Modal!Places, Modal!Overlay
  <2>5. shown \in Screens /\ shown.open = mounted.open /\ shown.body = mounted.body
    <3> HIDE DEF mounted
    <3>1. QED
      BY <2>3, <2>4 DEF Screens
  <2>6. shown.open = both => shown.body = "hidden"
    BY <1>0, <1>c, <2>2, <2>3, <2>5
  <2> HIDE DEF shown, mounted
  <2>7. QED
    BY <1>b, <2>1, <2>5, <2>6, EffectLocks DEF both
<1>2. CASE Modal!OpenDrawer
  <2> DEFINE shown == [Modal!Screen EXCEPT !.open = <<"drawer">>]
  <2>1. Modal!Show(Modal!Effect(shown, "drawer"))
    BY <1>2 DEF Modal!OpenDrawer
  <2>2. shown \in Screens /\ shown.open = dr
    BY <1>0, <1>b DEF Screens, dr
  <2> HIDE DEF shown
  <2>3. QED
    BY <1>0, <1>b, <2>1, <2>2, EffectLocks DEF both
<1>3. CASE Modal!CloseDialog
  <2> DEFINE left == Modal!Removed(Modal!Screen, Modal!Front(open))
  <2>1. Modal!Contains(open, "dialog") /\ Modal!Show(Modal!Cleanup(left, "dialog"))
    BY <1>3 DEF Modal!CloseDialog
  <2>2. open = di \/ open = both
    BY <1>0, <1>a, <1>b, <2>1
  <2>3. Modal!Front(open) \in Opens /\ Modal!Front(open) # both
        /\ (Modal!Front(open) # <<>> => open = both)
    BY <1>0, <2>2
  <2>4. left \in Screens /\ left.open = Modal!Front(open) /\ left.found = found
    BY <1>b, <2>3, RemovedFields
  <2> HIDE DEF left
  <2>5. Modal!Screen' \in Screens /\ open' = Modal!Front(open) /\ body' = found["dialog"]
    <3> DEFINE clean == Modal!Cleanup(left, "dialog")
    <3>1. clean \in Screens /\ clean.open = left.open /\ clean.body = left.found["dialog"]
      BY <1>b, <2>4, CleanupFields
    <3>2. Modal!Show(clean)
      BY <2>1
    <3> HIDE DEF clean
    <3>3. QED
      BY <2>4, <3>1, <3>2, ShownIsScreen
  <2>6. QED
    BY <1>c, <2>3, <2>5 DEF LockInv, both
<1>4. CASE Modal!CloseDrawer
  <2> DEFINE left == Modal!Removed(Modal!Screen, <<>>)
  <2>1. Modal!Contains(open, "drawer") /\ Modal!Show(Modal!Cleanups(left, open))
    BY <1>4 DEF Modal!CloseDrawer
  <2>2. open # <<>>
    BY <2>1 DEF Modal!Contains
  <2>3. left \in Screens /\ left.open = <<>>
    BY <1>0, <1>b, RemovedFields
  <2> HIDE DEF left
  <2>4. Modal!Cleanups(left, open) \in Screens /\ Modal!Cleanups(left, open).open = <<>>
    BY <1>b, <2>2, <2>3, CleanupsFields
  <2>5. Modal!Screen' \in Screens /\ open' = <<>>
    BY <2>1, <2>4, ShownIsScreen
  <2>6. QED
    BY <1>0, <2>5 DEF LockInv, both
<1>5. CASE Modal!Pending
  <2> DEFINE clean == Modal!Cleanup(Modal!Screen, "dialog")
  <2>1. Modal!Contains(open, "dialog") /\ Modal!Show(Modal!Effect(clean, "dialog"))
    BY <1>5, <1>e, <1>f DEF Modal!Pending, di
  <2>2. clean \in Screens /\ clean.open = open /\ clean.body = found["dialog"]
    BY <1>b, <1>d
  <2> HIDE DEF clean
  <2>3. QED
    BY <1>b, <1>c, <2>1, <2>2, EffectLocks DEF both
<1>6. CASE Modal!AppRenders
  <2>1. open # <<>> /\ Modal!Show(Modal!Effects(Modal!Cleanups(Modal!Screen, open), open))
    BY <1>6 DEF Modal!AppRenders
  <2> DEFINE clean == Modal!Cleanups(Modal!Screen, open)
  <2>2. clean \in Screens /\ clean.open = open
    BY <1>b, <2>1, CleanupsFields
  <2> HIDE DEF clean
  <2>3. CASE open = dr
    <3>1. Modal!Show(Modal!Effect(clean, "drawer")) /\ clean.open # both
      BY <1>0, <1>f, <2>1, <2>2, <2>3 DEF clean
    <3>2. QED
      BY <1>b, <2>2, <3>1, EffectLocks DEF both
  <2>4. CASE open = di
    <3>1. Modal!Show(Modal!Effect(clean, "dialog")) /\ clean.open # both
      BY <1>0, <1>f, <2>1, <2>2, <2>4 DEF clean
    <3>2. QED
      BY <1>b, <2>2, <3>1, EffectLocks DEF both
  <2>5. CASE open = both
    <3> DEFINE first == Modal!Effect(clean, "drawer")
    <3>1. Modal!Show(Modal!Effect(first, "dialog"))
      BY <1>f, <2>1, <2>5 DEF clean
    <3>2. first \in Screens /\ first.body = "hidden"
      BY <1>b, <1>d, <2>2
    <3> HIDE DEF first
    <3>3. QED
      BY <1>b, <3>1, <3>2, EffectLocks
  <2>6. QED
    BY <1>0, <1>b, <2>1, <2>3, <2>4, <2>5
<1>7. ASSUME NEW o \in Modal!Overlay, Modal!TypeInField(o) PROVE LockInv'
  <2>1. UNCHANGED <<open, body, found, previous>> /\ focus' = <<o, "field">>
    BY <1>7 DEF Modal!TypeInField
  <2>2. <<o, "field">> \in Modal!Places
    BY DEF Modal!Places
  <2>3. Modal!Screen' = [Modal!Screen EXCEPT !.focus = <<o, "field">>]
    BY <2>1 DEF Modal!Screen
  <2>4. Modal!Screen' \in Screens
    BY <1>b, <2>2, <2>3 DEF Screens
  <2>5. QED
    BY <1>c, <2>1, <2>4 DEF LockInv, both
<1>8. CASE UNCHANGED ModalVars
  BY <1>8 DEF ModalVars, LockInv, Modal!Screen
<1>9. QED
  BY <1>1, <1>2, <1>3, <1>4, <1>5, <1>6, <1>7, <1>8 DEF Modal!Next

(* However often the effects run again, and whichever overlay goes first,  *)
(* the page behind an overlay that is open does not scroll.                *)
THEOREM PageIsLocked == Spec => []PageBehindIsLocked
<1>1. LockInv /\ [Next]_pvars => LockInv'
  BY OtherSteps, LockStep
<1>2. LockInv => PageBehindIsLocked
  BY DEF LockInv, PageBehindIsLocked, Modal!PageBehindIsLocked
<1>3. QED
  BY <1>1, <1>2, LockInit, PTL DEF Spec

-----------------------------------------------------------------------------
(* The filters of the page of messages                                     *)

Steps(list, set, f) ==
  /\ f[0] = <<>>
  /\ \A i \in 1..Len(list) :
       f[i] = IF list[i] \in set THEN Append(f[i - 1], list[i]) ELSE f[i - 1]

LEMMA KeptSteps ==
  ASSUME NEW X, NEW list \in Seq(X), NEW set
  PROVE  \E f : Steps(list, set, f) /\ Filters!Kept(list, set) = f[Len(list)]
<1> DEFINE Body(h) == [i \in 0..Len(list) |-> IF i = 0 THEN <<>>
                         ELSE IF list[i] \in set THEN Append(h[i - 1], list[i]) ELSE h[i - 1]]
           upTo == CHOOSE h : h = Body(h)
           g == [i \in Nat |-> [q \in Seq(X) |->
                   IF i \in 1..Len(list) /\ list[i] \in set THEN Append(q, list[i]) ELSE q]]
<1>1. Len(list) \in Nat /\ \A i \in 1..Len(list) : list[i] \in X
  OBVIOUS
<1>2. g \in [Nat -> [Seq(X) -> Seq(X)]]
  <2> SUFFICES ASSUME NEW i \in Nat, NEW q \in Seq(X)
               PROVE  (IF i \in 1..Len(list) /\ list[i] \in set THEN Append(q, list[i]) ELSE q)
                        \in Seq(X)
    OBVIOUS
  <2>1. i \in 1..Len(list) => Append(q, list[i]) \in Seq(X)
    BY <1>1
  <2>2. QED
    BY <2>1
<1>3. <<>> \in Seq(X)
  OBVIOUS
<1>4. PICK f : Iteration(f, Seq(X), <<>>, g, Len(list))
  <2> HIDE DEF g
  <2>1. QED
    BY <1>1, <1>2, <1>3, IterationExists
<1>5. /\ f \in [0..Len(list) -> Seq(X)]
      /\ \A i \in 0..Len(list) : f[i] = IF i = 0 THEN <<>> ELSE g[i][f[i - 1]]
  <2> HIDE DEF g
  <2>1. QED
    BY <1>4 DEF Iteration
<1>6. \A i \in 0..Len(list) : f[i] = Body(f)[i]
  <2> SUFFICES ASSUME NEW i \in 0..Len(list), i # 0
               PROVE  g[i][f[i - 1]] = IF list[i] \in set THEN Append(f[i - 1], list[i]) ELSE f[i - 1]
    BY <1>5
  <2>1. i \in Nat /\ i \in 1..Len(list) /\ i - 1 \in 0..Len(list)
    BY <1>1
  <2>2. f[i - 1] \in Seq(X)
    BY <1>5, <2>1
  <2>3. QED
    BY <2>1, <2>2
<1>7. f = Body(f)
  <2>1. f = [i \in 0..Len(list) |-> f[i]] /\ Body(f) = [i \in 0..Len(list) |-> Body(f)[i]]
    BY <1>5
  <2> HIDE DEF Body, g
  <2>2. QED
    BY <1>6, <2>1
<1> HIDE DEF g
<1>8. upTo = Body(upTo)
  <2> HIDE DEF Body
  <2>1. QED
    BY <1>7
<1>9. Filters!Kept(list, set) = upTo[Len(list)]
  BY Zenon DEF Filters!Kept
<1> HIDE DEF upTo
<1>10. upTo[0] = <<>>
  BY <1>1, <1>8
<1>11. \A i \in 1..Len(list) :
         upTo[i] = IF list[i] \in set THEN Append(upTo[i - 1], list[i]) ELSE upTo[i - 1]
  <2> SUFFICES ASSUME NEW i \in 1..Len(list)
               PROVE  upTo[i] = IF list[i] \in set THEN Append(upTo[i - 1], list[i]) ELSE upTo[i - 1]
    OBVIOUS
  <2>1. i \in 0..Len(list) /\ i # 0
    BY <1>1
  <2>2. Body(upTo)[i] = IF list[i] \in set THEN Append(upTo[i - 1], list[i]) ELSE upTo[i - 1]
    BY <2>1
  <2> HIDE DEF Body
  <2>3. QED
    BY <1>8, <2>2
<1>12. QED
  BY <1>9, <1>10, <1>11 DEF Steps

(* What is kept is in the set, no more than there was, and, if all are in  *)
(* the set, all.                                                           *)
LEMMA KeptFacts ==
  ASSUME NEW X, NEW list \in Seq(X), NEW set
  PROVE  /\ Filters!Kept(list, set) \in Seq(X \cap set)
         /\ Len(Filters!Kept(list, set)) <= Len(list)
         /\ (\A i \in 1..Len(list) : list[i] \in set) => Filters!Kept(list, set) = list
<1>1. PICK f : Steps(list, set, f) /\ Filters!Kept(list, set) = f[Len(list)]
  BY KeptSteps
<1> DEFINE n == Len(list)
           All == \A i \in 1..n : list[i] \in set
           Same(k) == Len(f[k]) = k /\ \A i \in 1..k : f[k][i] = list[i]
           Good(k) == f[k] \in Seq(X \cap set) /\ Len(f[k]) <= k /\ (All => Same(k))
           K == {k \in Nat : k <= n => Good(k)}
<1>2. n \in Nat /\ \A i \in 1..n : list[i] \in X
  OBVIOUS
<1>3. 0 \in K
  <2>1. f[0] = <<>>
    BY <1>1 DEF Steps
  <2>2. <<>> \in Seq(X \cap set) /\ Len(<<>>) = 0 /\ \A i \in 1..0 : <<>>[i] = list[i]
    OBVIOUS
  <2>3. Good(0)
    <3> HIDE DEF n, All
    <3>1. QED
      BY <2>1, <2>2
  <2>4. QED
    BY <2>3
<1>4. ASSUME NEW k \in K PROVE k + 1 \in K
  <2>1. k \in Nat /\ k + 1 \in Nat /\ (k + 1) - 1 = k
    OBVIOUS
  <2> SUFFICES ASSUME k + 1 <= n PROVE Good(k + 1)
    BY <2>1
  <2>2. Good(k) /\ k + 1 \in 1..n
    BY <1>2, <2>1
  <2>3. f[k + 1] = IF list[k + 1] \in set THEN Append(f[k], list[k + 1]) ELSE f[k]
    <3> HIDE DEF n
    <3>1. \A i \in 1..n : f[i] = IF list[i] \in set THEN Append(f[i - 1], list[i]) ELSE f[i - 1]
      BY <1>1 DEF Steps, n
    <3>2. QED
      BY <2>1, <2>2, <3>1
  <2>4. CASE list[k + 1] \notin set
    <3>1. f[k + 1] = f[k] /\ ~ All
      BY <2>2, <2>3, <2>4
    <3> HIDE DEF n, All, Same
    <3>2. Len(f[k]) \in Nat
      BY <2>2
    <3>3. Len(f[k]) <= k + 1
      BY <2>1, <2>2, <3>2
    <3>4. QED
      BY <2>2, <3>1, <3>3
  <2>5. CASE list[k + 1] \in set
    <3> DEFINE q == f[k]
               e == list[k + 1]
               r == Append(q, e)
    <3>1. q \in Seq(X \cap set) /\ e \in X \cap set /\ f[k + 1] = r
      BY <1>2, <2>2, <2>3, <2>5
    <3> HIDE DEF q, e
    <3>2. r \in Seq(X \cap set)
      BY <3>1
    <3>3. Len(r) = Len(q) + 1 /\ Len(q) \in Nat
      BY <3>1
    <3>4. (\A i \in 1..Len(q) : r[i] = q[i]) /\ r[Len(q) + 1] = e
      BY <3>1, <3>2, <3>3, AppendProperties
    <3> HIDE DEF r
    <3>5. Len(q) <= k /\ (All => Len(q) = k /\ \A i \in 1..k : q[i] = list[i])
      BY <2>2 DEF q
    <3>6. Len(r) <= k + 1
      BY <2>1, <3>3, <3>5
    <3>7. ASSUME All PROVE Len(r) = k + 1 /\ \A i \in 1..(k + 1) : r[i] = list[i]
      <4>1. Len(q) = k /\ \A i \in 1..k : q[i] = list[i]
        BY <3>5, <3>7
      <4>2. \A i \in 1..(k + 1) : i \in 1..k \/ i = k + 1
        BY <2>1
      <4>3. QED
        BY <3>3, <3>4, <4>1, <4>2 DEF e
    <3>8. Good(k + 1)
      <4> HIDE DEF All, n
      <4>1. QED
        BY <3>1, <3>2, <3>6, <3>7
    <3>9. QED
      BY <3>8
  <2>6. QED
    BY <2>4, <2>5
<1>5. K = Nat
  <2> HIDE DEF K
  <2>1. K \in SUBSET Nat
    BY DEF K
  <2>2. QED
    BY <1>3, <1>4, <2>1, SetInduction
<1>6. Good(n)
  <2> HIDE DEF Good
  <2>1. n \in K /\ n <= n
    BY <1>2, <1>5
  <2>2. QED
    BY <2>1
<1>7. ASSUME All PROVE f[n] = list
  <2>1. f[n] \in Seq(X \cap set) /\ Len(f[n]) = n /\ \A i \in 1..n : f[n][i] = list[i]
    BY <1>6, <1>7
  <2> DEFINE q == f[n]
  <2>2. q \in Seq(X) /\ Len(q) = Len(list) /\ \A i \in 1..Len(q) : q[i] = list[i]
    <3>1. q \in Seq(X)
      BY <2>1
    <3>2. QED
      BY <2>1, <3>1
  <2> HIDE DEF q
  <2>3. q = list
    BY <2>2, SeqEqual
  <2>4. QED
    BY <2>3 DEF q
<1>8. QED
  BY <1>1, <1>6, <1>7

Conditions == Filters!Condition
Named == {c \in Conditions : Filters!Trim(c.path) # ""}
Clean == {c \in Conditions : c.path = "x"}

LEMMA FiltersConstants ==
  /\ {"", "x"} \subseteq Texts /\ Texts \subseteq {"", " ", "x", " x "}
  /\ "contains" \in Operators /\ "eq" \in JSONOperators
  /\ Typed \subseteq Int /\ MaxConditions \in Nat \ {0}
  /\ DefaultScan \in 1..MaxScan
  /\ None \notin Texts /\ None \notin Int /\ None \notin Seq(Conditions)
  BY PagesAssumption DEF Filters!FiltersAssumption, Conditions

LEMMA ScanConstants ==
  /\ MaxScan \in Nat /\ DefaultScan \in 1..MaxScan /\ MaxConditions \in Nat
  /\ Typed \subseteq Int /\ None \notin Int
  BY PagesAssumption DEF Filters!FiltersAssumption

(* What goes into the address: trimmed paths, none of them empty.          *)
LEMMA Serialized ==
  ASSUME NEW list \in Seq(Conditions)
  PROVE  /\ Filters!SerializableJSONFilters(list) \in Seq(Clean)
         /\ Len(Filters!SerializableJSONFilters(list)) <= Len(list)
<1> DEFINE named == Filters!Kept(list, Named)
           trimmed == [i \in DOMAIN named |-> [named[i] EXCEPT !.path = Filters!Trim(@)]]
<1>1. Filters!SerializableJSONFilters(list) = trimmed
  BY Zenon DEF Filters!SerializableJSONFilters, Named, Conditions
<1>2. named \in Seq(Conditions \cap Named) /\ Len(named) <= Len(list)
  BY KeptFacts
<1> HIDE DEF named
<1>3. DOMAIN named = 1..Len(named) /\ Len(named) \in Nat
      /\ \A i \in 1..Len(named) : named[i] \in Named
  BY <1>2
<1>4. ASSUME NEW c \in Named PROVE [c EXCEPT !.path = Filters!Trim(@)] \in Clean
  <2>1. c \in [path : Texts, operator : JSONOperators, value : Texts]
    BY DEF Named, Conditions, Filters!Condition
  <2>2. Filters!Trim(c.path) = "x" /\ "x" \in Texts
    BY FiltersConstants DEF Named, Filters!Trim
  <2>3. [c EXCEPT !.path = Filters!Trim(@)] = [c EXCEPT !.path = "x"]
    BY <2>1, <2>2
  <2>4. QED
    BY <2>1, <2>2, <2>3 DEF Clean, Conditions, Filters!Condition
<1>5. \A i \in 1..Len(named) : [named[i] EXCEPT !.path = Filters!Trim(@)] \in Clean
  BY <1>3, <1>4
<1>6. trimmed \in [1..Len(named) -> Clean]
  BY <1>3, <1>5
<1> HIDE DEF trimmed
<1>7. trimmed \in Seq(Clean) /\ Len(trimmed) = Len(named)
  BY <1>3, <1>6
<1>8. QED
  BY <1>1, <1>2, <1>7

(* It is read as it was written, and written as it was read.               *)
LEMMA SerializedAgain ==
  ASSUME NEW list \in Seq(Clean)
  PROVE  /\ Filters!SerializableJSONFilters(list) = list
         /\ Filters!Kept(list, Conditions) = list
         /\ list \in Seq(Conditions)
<1> DEFINE named == Filters!Kept(list, Named)
<1>1. Filters!SerializableJSONFilters(list) =
        [i \in DOMAIN named |-> [named[i] EXCEPT !.path = Filters!Trim(@)]]
  BY Zenon DEF Filters!SerializableJSONFilters, Named, Conditions
<1>2. Clean \subseteq Conditions /\ Clean \subseteq Named
  BY DEF Clean, Named, Filters!Trim
<1>3. \A i \in 1..Len(list) : list[i] \in Clean
  OBVIOUS
<1>4. (\A i \in 1..Len(list) : list[i] \in Named) /\ \A i \in 1..Len(list) : list[i] \in Conditions
  BY <1>2, <1>3
<1>5. named = list /\ Filters!Kept(list, Conditions) = list
  BY <1>4, KeptFacts
<1>6. ASSUME NEW c \in Clean PROVE [c EXCEPT !.path = Filters!Trim(@)] = c
  <2>1. c \in [path : Texts, operator : JSONOperators, value : Texts] /\ c.path = "x"
    BY DEF Clean, Conditions, Filters!Condition
  <2>2. Filters!Trim(c.path) = "x"
    BY <2>1 DEF Filters!Trim
  <2>3. QED
    BY <2>1, <2>2
<1> HIDE DEF named
<1>7. DOMAIN named = 1..Len(list) /\ \A i \in 1..Len(list) : named[i] = list[i]
  BY <1>5
<1>8. [i \in DOMAIN named |-> [named[i] EXCEPT !.path = Filters!Trim(@)]] =
        [i \in 1..Len(list) |-> list[i]]
  BY <1>3, <1>6, <1>7
<1>9. [i \in 1..Len(list) |-> list[i]] = list
  OBVIOUS
<1>10. list \in Seq(Conditions)
  BY <1>2
<1>11. QED
  BY <1>1, <1>5, <1>8, <1>9, <1>10

FilterSet ==
  [keyFilter : Texts, keyOperator : Operators,
   valueFilter : Texts, valueOperator : Operators,
   scanLimit : 2..(2 * MaxScan), jsonFilters : {s \in Seq(Conditions) : Len(s) <= MaxConditions}]

(* What may stand in an address.                                           *)
LinkOK(a) ==
  /\ a.keyFilter \in Texts \cup {None} /\ a.valueFilter \in Texts \cup {None}
  /\ a.scanLimit \in Int \cup {None}
  /\ a.jsonFilters = None \/ \E X : a.jsonFilters \in Seq(X)

LEMMA ClampedIsLegal == \A n \in Int : Filters!Clamped(n) \in 2..(2 * MaxScan)
  BY ScanConstants DEF Filters!Clamped

LEMMA FloorIsInt == \A n \in Int : Filters!Floor(n) \in Int
  BY DEF Filters!Floor

(* A legal number is read as it is, but for its fraction.                  *)
LEMMA LegalIsKept ==
  ASSUME NEW n \in 2..(2 * MaxScan)
  PROVE  n \in Int /\ Filters!Clamped(Filters!Floor(n)) = Filters!Floor(n) /\ ~ (n <= 0)
<1>1. n \in Int /\ 2 <= n /\ n <= 2 * MaxScan /\ MaxScan \in Nat
  BY ScanConstants
<1>2. PICK half \in Int : half = n \div 2 /\ 2 * half <= n /\ n <= 2 * half + 1
  BY <1>1
<1>3. Filters!Floor(n) = 2 * half /\ 1 <= half /\ half <= MaxScan
  BY <1>1, <1>2 DEF Filters!Floor
<1>4. ~ (2 * half < 2) /\ ~ (2 * half > 2 * MaxScan)
  BY <1>1, <1>2, <1>3
<1>5. QED
  BY <1>1, <1>3, <1>4 DEF Filters!Clamped

(* Whatever the address, the page makes legal filters of it.               *)
LEMMA ParsedIsLegal ==
  ASSUME NEW a, LinkOK(a)
  PROVE  Filters!ParseMessageFilters(a) \in FilterSet
<1> DEFINE json == IF a.jsonFilters = None THEN <<>> ELSE a.jsonFilters
           m == IF Len(json) < MaxConditions THEN Len(json) ELSE MaxConditions
           first == SubSeq(json, 1, m)
           kf == IF a.keyFilter = None THEN "" ELSE a.keyFilter
           ko == IF a.keyOperator \in Operators THEN a.keyOperator ELSE "contains"
           vf == IF a.valueFilter = None THEN "" ELSE a.valueFilter
           vo == IF a.valueOperator \in Operators THEN a.valueOperator ELSE "contains"
           sl == IF a.scanLimit = None \/ a.scanLimit <= 0 THEN 2 * DefaultScan
                 ELSE Filters!Clamped(Filters!Floor(a.scanLimit))
           jf == Filters!Kept(first, Conditions)
<1>1. Filters!ParseMessageFilters(a) =
        [keyFilter |-> kf, keyOperator |-> ko, valueFilter |-> vf, valueOperator |-> vo,
         scanLimit |-> sl, jsonFilters |-> jf]
  BY Zenon DEF Filters!ParseMessageFilters, Conditions
<1>2. kf \in Texts /\ vf \in Texts /\ ko \in Operators /\ vo \in Operators
  BY FiltersConstants DEF LinkOK
<1>3. sl \in 2..(2 * MaxScan)
  <2>1. 2 * DefaultScan \in 2..(2 * MaxScan)
    BY ScanConstants
  <2>2. a.scanLimit \in Int => Filters!Clamped(Filters!Floor(a.scanLimit)) \in 2..(2 * MaxScan)
    BY ClampedIsLegal, FloorIsInt
  <2>3. QED
    BY <2>1, <2>2 DEF LinkOK
<1>4. jf \in Seq(Conditions) /\ Len(jf) <= MaxConditions
  <2>1. PICK X : json \in Seq(X)
    BY DEF LinkOK
  <2> HIDE DEF json
  <2>2. m \in 0..Len(json) /\ m <= MaxConditions /\ Len(json) \in Nat
    BY <2>1, ScanConstants
  <2> HIDE DEF m
  <2>3. first \in Seq(X) /\ Len(first) = m
    <3>1. \A i \in 1..m : i \in 1..Len(json) /\ json[i] \in X
      BY <2>1, <2>2
    <3>2. QED
      BY <2>1, <2>2, <3>1, SubSeqProperties
  <2> HIDE DEF first
  <2>4. jf \in Seq(X \cap Conditions) /\ Len(jf) <= Len(first)
    BY <2>3, KeptFacts
  <2> HIDE DEF jf
  <2>5. jf \in Seq(Conditions) /\ Len(jf) \in Nat
    BY <2>4
  <2>6. QED
    BY <2>2, <2>3, <2>4, <2>5, ScanConstants
<1> HIDE DEF kf, ko, vf, vo, sl, jf
<1>5. QED
  BY <1>1, <1>2, <1>3, <1>4 DEF FilterSet

LEMMA RoundTrip ==
  ASSUME NEW f \in FilterSet
  PROVE  Filters!FilterQueryParams(Filters!ParseMessageFilters(Filters!FilterQueryParams(f)))
           = Filters!Whole(Filters!FilterQueryParams(f))
<1> DEFINE json == Filters!SerializableJSONFilters(f.jsonFilters)
           key == Filters!Trim(f.keyFilter)
           value == Filters!Trim(f.valueFilter)
           a == Filters!FilterQueryParams(f)
           none == key = "" /\ value = "" /\ json = <<>>
<1>1. /\ f.keyFilter \in Texts /\ f.valueFilter \in Texts /\ f.scanLimit \in 2..(2 * MaxScan)
      /\ f.keyOperator \in Operators /\ f.valueOperator \in Operators
      /\ f.jsonFilters \in Seq(Conditions) /\ Len(f.jsonFilters) <= MaxConditions
  BY DEF FilterSet
<1>2. json \in Seq(Clean) /\ Len(json) <= Len(f.jsonFilters)
  BY <1>1, Serialized
<1>3. key \in {"", "x"} /\ value \in {"", "x"}
  BY DEF Filters!Trim
<1>4. /\ a.keyFilter = (IF key = "" THEN None ELSE key)
      /\ a.keyOperator = (IF key = "" THEN None ELSE f.keyOperator)
      /\ a.valueFilter = (IF value = "" THEN None ELSE value)
      /\ a.valueOperator = (IF value = "" THEN None ELSE f.valueOperator)
      /\ a.jsonFilters = (IF json = <<>> THEN None ELSE json)
      /\ a.scanLimit = (IF none THEN None ELSE f.scanLimit)
  BY DEF Filters!FilterQueryParams
<1>5. a = [keyFilter |-> IF key = "" THEN None ELSE key,
           keyOperator |-> IF key = "" THEN None ELSE f.keyOperator,
           valueFilter |-> IF value = "" THEN None ELSE value,
           valueOperator |-> IF value = "" THEN None ELSE f.valueOperator,
           jsonFilters |-> IF json = <<>> THEN None ELSE json,
           scanLimit |-> IF none THEN None ELSE f.scanLimit]
  BY Zenon DEF Filters!FilterQueryParams
<1> DEFINE b == Filters!ParseMessageFilters(a)
           read == IF a.jsonFilters = None THEN <<>> ELSE a.jsonFilters
           first == SubSeq(read, 1, IF Len(read) < MaxConditions THEN Len(read) ELSE MaxConditions)
<1>6. b = [keyFilter |-> IF a.keyFilter = None THEN "" ELSE a.keyFilter,
           keyOperator |-> IF a.keyOperator \in Operators THEN a.keyOperator ELSE "contains",
           valueFilter |-> IF a.valueFilter = None THEN "" ELSE a.valueFilter,
           valueOperator |-> IF a.valueOperator \in Operators THEN a.valueOperator ELSE "contains",
           scanLimit |-> IF a.scanLimit = None \/ a.scanLimit <= 0 THEN 2 * DefaultScan
                         ELSE Filters!Clamped(Filters!Floor(a.scanLimit)),
           jsonFilters |-> Filters!Kept(first, Conditions)]
  BY Zenon DEF Filters!ParseMessageFilters, Conditions
<1> HIDE DEF a, json, key, value
<1>7. read = json
  <2>1. json # None
    BY <1>2, SerializedAgain, FiltersConstants
  <2>2. QED
    BY <1>4, <2>1
<1>8. first = json
  <2>1. Len(json) \in Nat /\ Len(json) <= MaxConditions /\ MaxConditions \in Nat
    BY <1>1, <1>2, ScanConstants
  <2> HIDE DEF read
  <2>2. first = SubSeq(json, 1, Len(json))
    <3>1. (IF Len(read) < MaxConditions THEN Len(read) ELSE MaxConditions) = Len(json)
      BY <1>7, <2>1
    <3>2. QED
      BY <1>7, <3>1
  <2>3. SubSeq(json, 1, Len(json)) = json
    BY <1>2, SubSeqFull
  <2>4. QED
    BY <2>2, <2>3
<1>9. Filters!Kept(first, Conditions) = json
  BY <1>2, <1>8, SerializedAgain
<1> HIDE DEF read, first, b
<1>b. /\ b.keyFilter = (IF a.keyFilter = None THEN "" ELSE a.keyFilter)
      /\ b.valueFilter = (IF a.valueFilter = None THEN "" ELSE a.valueFilter)
      /\ b.keyOperator = (IF a.keyOperator \in Operators THEN a.keyOperator ELSE "contains")
      /\ b.valueOperator = (IF a.valueOperator \in Operators THEN a.valueOperator ELSE "contains")
      /\ b.scanLimit = (IF a.scanLimit = None \/ a.scanLimit <= 0 THEN 2 * DefaultScan
                        ELSE Filters!Clamped(Filters!Floor(a.scanLimit)))
      /\ b.jsonFilters = Filters!Kept(first, Conditions)
  BY <1>6
<1>c. "x" # None
  BY FiltersConstants
<1> DEFINE bJson == Filters!SerializableJSONFilters(b.jsonFilters)
           bKey == Filters!Trim(b.keyFilter)
           bValue == Filters!Trim(b.valueFilter)
<1>10. bJson = json
  BY <1>2, <1>b, <1>9, SerializedAgain
<1>11. bKey = key /\ bValue = value
  BY <1>3, <1>4, <1>b, <1>c DEF Filters!Trim
<1>12. /\ key # "" => b.keyOperator = f.keyOperator
       /\ value # "" => b.valueOperator = f.valueOperator
  BY <1>1, <1>3, <1>4, <1>b, <1>c
<1>13. ~ none => b.scanLimit = Filters!Floor(f.scanLimit)
  <2> HIDE DEF none
  <2>1. /\ f.scanLimit # None /\ ~ (f.scanLimit <= 0)
        /\ Filters!Clamped(Filters!Floor(f.scanLimit)) = Filters!Floor(f.scanLimit)
    BY <1>1, LegalIsKept, ScanConstants
  <2>2. QED
    BY <1>4, <1>b, <2>1
<1>14. Filters!FilterQueryParams(b) =
         [keyFilter |-> IF bKey = "" THEN None ELSE bKey,
          keyOperator |-> IF bKey = "" THEN None ELSE b.keyOperator,
          valueFilter |-> IF bValue = "" THEN None ELSE bValue,
          valueOperator |-> IF bValue = "" THEN None ELSE b.valueOperator,
          jsonFilters |-> IF bJson = <<>> THEN None ELSE bJson,
          scanLimit |-> IF bKey = "" /\ bValue = "" /\ bJson = <<>> THEN None ELSE b.scanLimit]
  BY Zenon DEF Filters!FilterQueryParams
<1> HIDE DEF bJson, bKey, bValue
<1>15. Filters!Whole(a) =
         [a EXCEPT !.scanLimit = IF none THEN None ELSE Filters!Floor(f.scanLimit)]
  <2>1. f.scanLimit # None
    BY <1>1, ScanConstants
  <2> HIDE DEF none
  <2>2. CASE none
    <3>1. a.scanLimit = None
      BY <1>4, <2>2
    <3>2. QED
      BY <2>2, <3>1 DEF Filters!Whole
  <2>3. CASE ~ none
    <3>1. a.scanLimit = f.scanLimit /\ a.scanLimit # None
      BY <1>4, <2>1, <2>3
    <3>2. QED
      BY <2>3, <3>1 DEF Filters!Whole
  <2>4. QED
    BY <2>2, <2>3
<1>16. Filters!FilterQueryParams(b) = Filters!Whole(a)
  BY <1>5, <1>10, <1>11, <1>12, <1>13, <1>14, <1>15
<1>17. QED
  BY <1>16 DEF a, b

LEMMA RemovedAt ==
  ASSUME NEW X, NEW s \in Seq(X), NEW i \in 1..Len(s)
  PROVE  LET left == SubSeq(s, 1, i - 1) \o SubSeq(s, i + 1, Len(s))
         IN  /\ left \in Seq(X) /\ Len(left) = Len(s) - 1
             /\ \A j \in 1..(Len(s) - 1) : left[j] = IF j < i THEN s[j] ELSE s[j + 1]
<1> DEFINE before == SubSeq(s, 1, i - 1)
           after == SubSeq(s, i + 1, Len(s))
           both == before \o after
<1>1. Len(s) \in Nat /\ i \in Nat /\ 1 <= i /\ i <= Len(s) /\ \A j \in 1..Len(s) : s[j] \in X
  OBVIOUS
<1>2. before \in Seq(X) /\ Len(before) = i - 1 /\ \A j \in 1..(i - 1) : before[j] = s[j]
  <2>1. \A j \in 1..(i - 1) : j \in 1..Len(s)
    BY <1>1
  <2>2. QED
    BY <1>1, <2>1, SubSeqProperties
<1>3. after \in Seq(X) /\ Len(after) = Len(s) - i
      /\ \A j \in 1..(Len(s) - i) : after[j] = s[i + j]
  <2>1. \A j \in (i + 1)..Len(s) : j \in 1..Len(s)
    BY <1>1
  <2>2. QED
    BY <1>1, <2>1, SubSeqProperties
<1>4. both = SubSeq(s, 1, i - 1) \o SubSeq(s, i + 1, Len(s))
  OBVIOUS
<1> HIDE DEF before, after
<1>5. /\ both \in Seq(X) /\ Len(both) = Len(before) + Len(after)
      /\ \A j \in 1..(Len(before) + Len(after)) :
           both[j] = IF j <= Len(before) THEN before[j] ELSE after[j - Len(before)]
  <2>1. before \in Seq(X) /\ after \in Seq(X)
    BY <1>2, <1>3
  <2>2. both \in Seq(X)
    BY <2>1
  <2>3. Len(both) = Len(before) + Len(after)
    BY <2>1
  <2>4. QED
    BY <2>1, <2>2, <2>3, ConcatProperties, Zenon
<1> HIDE DEF both
<1>6. ASSUME NEW j \in 1..(Len(s) - 1) PROVE both[j] = IF j < i THEN s[j] ELSE s[j + 1]
  <2>0. j \in Nat /\ j \in 1..(Len(before) + Len(after))
    BY <1>1, <1>2, <1>3
  <2>1. CASE j < i
    <3>1. j \in 1..(i - 1) /\ j <= Len(before)
      BY <1>1, <1>2, <2>0, <2>1
    <3>2. both[j] = before[j]
      BY <1>5, <2>0, <3>1
    <3>3. QED
      BY <1>2, <2>1, <3>1, <3>2
  <2>2. CASE ~ (j < i)
    <3> DEFINE k == j - Len(before)
    <3>1. ~ (j <= Len(before)) /\ k \in 1..(Len(s) - i) /\ i + k = j + 1
      BY <1>1, <1>2, <1>3, <2>0, <2>2
    <3>2. both[j] = after[k]
      BY <1>5, <2>0, <3>1
    <3> HIDE DEF k
    <3>3. QED
      BY <1>3, <2>2, <3>1, <3>2
  <2>3. QED
    BY <2>1, <2>2
<1>7. /\ both \in Seq(X) /\ Len(both) = Len(s) - 1
      /\ \A j \in 1..(Len(s) - 1) : both[j] = IF j < i THEN s[j] ELSE s[j + 1]
  BY <1>1, <1>2, <1>3, <1>5, <1>6
<1>8. QED
  BY <1>4, <1>7, Zenon

LEMMA ParamsAreLink ==
  ASSUME NEW f \in FilterSet
  PROVE  LinkOK(Filters!FilterQueryParams(f))
<1> DEFINE json == Filters!SerializableJSONFilters(f.jsonFilters)
           key == Filters!Trim(f.keyFilter)
           value == Filters!Trim(f.valueFilter)
           a == Filters!FilterQueryParams(f)
<1>1. /\ a.keyFilter = (IF key = "" THEN None ELSE key)
      /\ a.valueFilter = (IF value = "" THEN None ELSE value)
      /\ a.jsonFilters = (IF json = <<>> THEN None ELSE json)
      /\ a.scanLimit = (IF key = "" /\ value = "" /\ json = <<>> THEN None ELSE f.scanLimit)
  BY DEF Filters!FilterQueryParams
<1>2. json \in Seq(Clean)
  BY Serialized DEF FilterSet
<1>3. key \in Texts /\ value \in Texts
  BY FiltersConstants DEF Filters!Trim
<1>4. f.scanLimit \in Int
  BY ScanConstants DEF FilterSet
<1> HIDE DEF a, json, key, value
<1>5. a.jsonFilters = None \/ a.jsonFilters \in Seq(Clean)
  BY <1>1, <1>2
<1>6. LinkOK(a)
  BY <1>1, <1>3, <1>4, <1>5 DEF LinkOK
<1>7. QED
  BY <1>6 DEF a

LEMMA DefaultIsLegal == Filters!DefaultFilters \in FilterSet
<1>1. <<>> \in Seq(Conditions) /\ Len(<<>>) = 0 /\ 0 <= MaxConditions
  BY ScanConstants
<1>2. "" \in Texts /\ "contains" \in Operators
  BY FiltersConstants
<1>3. 2 * DefaultScan \in 2..(2 * MaxScan)
  BY ScanConstants
<1>4. QED
  BY <1>1, <1>2, <1>3 DEF FilterSet, Filters!DefaultFilters

(* The panel holds legal filters, and the address, if the page wrote it,   *)
(* those it holds.                                                         *)
FilterInv ==
  /\ filters \in FilterSet /\ LinkOK(address)
  /\ own => address = Filters!FilterQueryParams(filters)

LEMMA FilterInit == Init => FilterInv
<1> SUFFICES ASSUME Init PROVE FilterInv
  OBVIOUS
<1>1. Filters!Init
  BY DEF Init
<1>2. filters = Filters!DefaultFilters
      /\ address = Filters!FilterQueryParams(Filters!DefaultFilters)
  BY <1>1 DEF Filters!Init, Filters!NoParams
<1>3. QED
  BY <1>2, DefaultIsLegal, ParamsAreLink DEF FilterInv

LEMMA SetHolds ==
  ASSUME NEW f \in FilterSet, Filters!SetFilters(f)
  PROVE  FilterInv'
  BY ParamsAreLink DEF FilterInv, Filters!SetFilters

LEMMA StrangeIsLink ==
  /\ \A a \in Filters!Strange : LinkOK(a)
  /\ LinkOK(Filters!NoParams) /\ LinkOK([Filters!NoParams EXCEPT !.keyFilter = "x"])
<1> DEFINE d == Filters!NoParams
           many == [i \in 1..(MaxConditions + 1) |-> [path |-> "x", operator |-> "eq", value |-> ""]]
           bad == <<[path |-> "x", operator |-> "bad", value |-> ""]>>
<1>1. LinkOK(d)
  BY DefaultIsLegal, ParamsAreLink DEF Filters!NoParams
<1>2. \E k, ko, v, vo, j, s : d = [keyFilter |-> k, keyOperator |-> ko, valueFilter |-> v,
        valueOperator |-> vo, jsonFilters |-> j, scanLimit |-> s]
  BY Zenon DEF Filters!NoParams, Filters!FilterQueryParams
<1>3. Filters!Strange =
        {[d EXCEPT !.keyFilter = "x", !.keyOperator = "regex"],
         [d EXCEPT !.scanLimit = 2 * (MaxScan + 1)], [d EXCEPT !.scanLimit = 2 * MaxScan + 1],
         [d EXCEPT !.scanLimit = 0], [d EXCEPT !.scanLimit = 1],
         [d EXCEPT !.jsonFilters = many], [d EXCEPT !.jsonFilters = bad]}
  BY Zenon DEF Filters!Strange
<1>4. \E X : many \in Seq(X)
  <2>1. many \in Seq({[path |-> "x", operator |-> "eq", value |-> ""]})
    BY ScanConstants
  <2>2. QED
    BY <2>1
<1>5. \E X : bad \in Seq(X)
  <2>1. bad \in Seq({[path |-> "x", operator |-> "bad", value |-> ""]})
    OBVIOUS
  <2>2. QED
    BY <2>1
<1>6. "x" \in Texts /\ 2 * (MaxScan + 1) \in Int /\ 2 * MaxScan + 1 \in Int
  <2>1. "x" \in Texts
    BY FiltersConstants
  <2>2. 2 * (MaxScan + 1) \in Int /\ 2 * MaxScan + 1 \in Int
    BY ScanConstants
  <2>3. QED
    BY <2>1, <2>2
<1> HIDE DEF d, many, bad
<1>7. PICK k, ko, v, vo, j, s : d = [keyFilter |-> k, keyOperator |-> ko, valueFilter |-> v,
        valueOperator |-> vo, jsonFilters |-> j, scanLimit |-> s]
  BY <1>2
<1>8. LinkOK([d EXCEPT !.keyFilter = "x", !.keyOperator = "regex"])
      /\ LinkOK([d EXCEPT !.keyFilter = "x"])
  BY <1>1, <1>6, <1>7 DEF LinkOK
<1>9. \A n \in Int : LinkOK([d EXCEPT !.scanLimit = n])
  BY <1>1, <1>7 DEF LinkOK
<1>10. LinkOK([d EXCEPT !.jsonFilters = many]) /\ LinkOK([d EXCEPT !.jsonFilters = bad])
  BY <1>1, <1>4, <1>5, <1>7 DEF LinkOK
<1>11. \A a \in Filters!Strange : LinkOK(a)
  <2>1. \A n \in {2 * (MaxScan + 1), 2 * MaxScan + 1, 0, 1} : LinkOK([d EXCEPT !.scanLimit = n])
    BY <1>6, <1>9
  <2>2. QED
    BY <1>3, <1>8, <1>10, <2>1
<1>12. QED
  BY <1>1, <1>8, <1>11 DEF d

LEMMA FilterStep == FilterInv /\ [Filters!Next]_FiltersVars => FilterInv'
<1> SUFFICES ASSUME FilterInv, [Filters!Next]_FiltersVars PROVE FilterInv'
  OBVIOUS
<1> DEFINE list == filters.jsonFilters
<1>0. filters \in FilterSet /\ LinkOK(address)
      /\ list \in Seq(Conditions) /\ Len(list) <= MaxConditions
  BY DEF FilterInv, FilterSet
<1>a. ASSUME NEW q \in Seq(Conditions), Len(q) <= MaxConditions
      PROVE  [filters EXCEPT !.jsonFilters = q] \in FilterSet
  BY <1>0, <1>a DEF FilterSet
<1>1. ASSUME NEW t \in Texts, NEW o \in Operators, Filters!EditText(t, o) PROVE FilterInv'
  <2>1. PICK f : Filters!SetFilters(f) /\
          (f = [filters EXCEPT !.keyFilter = t, !.keyOperator = o]
           \/ f = [filters EXCEPT !.valueFilter = t, !.valueOperator = o])
    BY <1>1 DEF Filters!EditText
  <2>2. f \in FilterSet
    BY <1>0, <2>1 DEF FilterSet
  <2>3. QED
    BY <2>1, <2>2, SetHolds
<1>2. ASSUME NEW n \in Typed, Filters!EditScanLimit(n) PROVE FilterInv'
  <2>1. Filters!Clamped(n) \in 2..(2 * MaxScan)
    BY ScanConstants, ClampedIsLegal
  <2>2. [filters EXCEPT !.scanLimit = Filters!Clamped(n)] \in FilterSet
    BY <1>0, <2>1 DEF FilterSet
  <2>3. QED
    BY <1>2, <2>2, SetHolds DEF Filters!EditScanLimit
<1>3. ASSUME NEW i \in 1..MaxConditions, NEW c \in Filters!Condition, Filters!UpdateJSON(i, c)
      PROVE  FilterInv'
  <2>1. i \in DOMAIN list /\ Filters!SetFilters([filters EXCEPT !.jsonFilters[i] = c])
    BY <1>3 DEF Filters!UpdateJSON
  <2>2. [filters EXCEPT !.jsonFilters[i] = c] = [filters EXCEPT !.jsonFilters = [list EXCEPT ![i] = c]]
    BY <1>0 DEF FilterSet
  <2>3. [list EXCEPT ![i] = c] \in Seq(Conditions) /\ Len([list EXCEPT ![i] = c]) = Len(list)
    BY <1>0, <2>1, ExceptSeq DEF Conditions
  <2>4. QED
    BY <1>0, <1>a, <2>1, <2>2, <2>3, SetHolds
<1>4. ASSUME NEW i \in 1..MaxConditions, Filters!RemoveJSON(i) PROVE FilterInv'
  <2>1. i \in DOMAIN list
        /\ Filters!SetFilters([filters EXCEPT !.jsonFilters = Filters!RemoveAt(@, i)])
    BY <1>4 DEF Filters!RemoveJSON
  <2>2. [filters EXCEPT !.jsonFilters = Filters!RemoveAt(@, i)]
          = [filters EXCEPT !.jsonFilters = Filters!RemoveAt(list, i)]
    BY <1>0 DEF FilterSet
  <2>3. Filters!RemoveAt(list, i) \in Seq(Conditions)
        /\ Len(Filters!RemoveAt(list, i)) = Len(list) - 1
    <3> HIDE DEF list
    <3>1. i \in 1..Len(list)
      BY <1>0, <2>1
    <3>2. QED
      BY <1>0, <3>1, RemovedAt DEF Filters!RemoveAt
  <2>4. Len(list) - 1 <= MaxConditions
    BY <1>0, ScanConstants
  <2>5. QED
    BY <1>a, <2>1, <2>2, <2>3, <2>4, SetHolds
<1>5. ASSUME NEW link \in Filters!Strange \cup {address}, Filters!Open(link) PROVE FilterInv'
  <2>1. LinkOK(link)
    BY <1>0, StrangeIsLink
  <2>2. QED
    BY <1>5, <2>1, ParsedIsLegal, SetHolds DEF Filters!Open
<1>6. ASSUME NEW params \in {Filters!NoParams, [Filters!NoParams EXCEPT !.keyFilter = "x"]},
             Filters!NavigatedTo(params)
      PROVE  FilterInv'
  <2>1. LinkOK(params)
    BY StrangeIsLink
  <2>2. filters' = filters /\ address' = params /\ own' = FALSE
    BY <1>6 DEF Filters!NavigatedTo
  <2>3. QED
    BY <1>0, <2>1, <2>2 DEF FilterInv
<1>7. CASE Filters!AddJSON
  <2> DEFINE e == [path |-> "", operator |-> "eq", value |-> ""]
             q == Append(list, e)
  <2>1. Len(list) < MaxConditions
        /\ Filters!SetFilters([filters EXCEPT !.jsonFilters = Append(@, e)])
    BY <1>7 DEF Filters!AddJSON
  <2>2. [filters EXCEPT !.jsonFilters = Append(@, e)] = [filters EXCEPT !.jsonFilters = q]
    BY <1>0 DEF FilterSet
  <2>3. e \in Conditions
    BY FiltersConstants DEF Conditions, Filters!Condition
  <2> HIDE DEF e
  <2>4. q \in Seq(Conditions)
    BY <1>0, <2>3
  <2>5. Len(q) = Len(list) + 1 /\ Len(list) \in Nat
    BY <1>0, <2>3
  <2>6. Len(q) <= MaxConditions
    BY <2>1, <2>5, ScanConstants
  <2> HIDE DEF q
  <2>7. QED
    BY <1>a, <2>1, <2>2, <2>4, <2>6, SetHolds
<1>8. CASE Filters!Clear
  BY <1>8, DefaultIsLegal, SetHolds DEF Filters!Clear
<1>9. CASE UNCHANGED FiltersVars
  <2>1. filters' = filters /\ address' = address /\ own' = own
    BY <1>9 DEF FiltersVars
  <2>2. QED
    BY <2>1 DEF FilterInv
<1>10. QED
  BY <1>1, <1>2, <1>3, <1>4, <1>5, <1>6, <1>7, <1>8, <1>9 DEF Filters!Next

(* Whoever opens the link of the page, after any edits and whatever link   *)
(* they began with, asks the server what the page asks, but for the        *)
(* fraction of a scan limit: the panel takes one, the link is read without. *)
THEOREM LinksAskTheSame == Spec => []SharedLinkAsksSame
<1>1. FilterInv /\ [Next]_pvars => FilterInv'
  BY OtherSteps, FilterStep
<1>2. FilterInv => SharedLinkAsksSame
  BY RoundTrip DEF FilterInv, SharedLinkAsksSame, Filters!SharedLinkAsksSame
<1>3. QED
  BY <1>1, <1>2, FilterInit, PTL DEF Spec
-----------------------------------------------------------------------------
(* The notices                                                             *)

Rising(items) == \A i, j \in 1..Len(items) : i < j => items[i] < items[j]

(* The notices on the screen are in the order they came in.                *)
NoticeInv ==
  /\ serial \in Nat /\ notices \in Seq(1..serial)
  /\ Rising(notices)

LEMMA NoticesInit == Init => NoticeInv
<1> SUFFICES ASSUME Init PROVE NoticeInv
  OBVIOUS
<1>1. serial = 0 /\ notices = <<>>
  BY DEF Init, Notices!Init
<1>2. QED
  BY <1>1 DEF NoticeInv, Rising

LEMMA ShownIds ==
  ASSUME NEW X, NEW items \in Seq(X)
  PROVE  \A id : id \in Notices!ToSet(items) <=> \E i \in 1..Len(items) : items[i] = id
  BY DEF Notices!ToSet

LEMMA NotifyKeeps ==
  ASSUME NoticeInv, Notices!Notify
  PROVE  /\ NoticeInv' /\ serial' \in Notices!ToSet(notices')
         /\ \A gone \in Notices!ToSet(notices) \ Notices!ToSet(notices') :
              \A kept \in Notices!ToSet(notices') : gone < kept
<1> DEFINE n == serial + 1
           all == Append(notices, n)
           X == 1..n
           m == Len(notices)
<1>1. /\ serial' = n /\ notices' = IF Len(all) <= MaxShown THEN all ELSE Tail(all)
  BY DEF Notices!Notify, Notices!Show, Notices!AddFeedback
<1>2. serial \in Nat /\ n \in X /\ notices \in Seq(X) /\ m \in Nat
      /\ \A i \in 1..m : notices[i] \in 1..serial
  BY DEF NoticeInv
<1>3. \A i, j \in 1..m : i < j => notices[i] < notices[j]
  BY DEF NoticeInv, Rising
<1>4. all \in Seq(X) /\ Len(all) = m + 1
  <2> HIDE DEF n, X
  <2>1. all \in Seq(X)
    BY <1>2
  <2>2. Len(all) = m + 1
    BY <1>2
  <2>3. QED
    BY <2>1, <2>2
<1>5. (\A i \in 1..m : all[i] = notices[i]) /\ all[m + 1] = n
  <2> HIDE DEF n, X
  <2>1. QED
    BY <1>2, AppendProperties
<1> HIDE DEF all
<1>6. \A i, j \in 1..(m + 1) : i < j => all[i] < all[j]
  <2> SUFFICES ASSUME NEW i \in 1..(m + 1), NEW j \in 1..(m + 1), i < j PROVE all[i] < all[j]
    OBVIOUS
  <2>1. i \in 1..m
    BY <1>2
  <2>2. CASE j = m + 1
    BY <1>2, <1>5, <2>1, <2>2
  <2>3. CASE j # m + 1
    <3>1. j \in 1..m
      BY <1>2, <2>3
    <3>2. QED
      BY <1>3, <1>5, <2>1, <3>1
  <2>4. QED
    BY <2>2, <2>3
<1>7. CASE Len(all) <= MaxShown
  <2>1. notices' = all
    BY <1>1, <1>7
  <2>2. NoticeInv'
    BY <1>1, <1>2, <1>4, <1>6, <2>1 DEF NoticeInv, Rising
  <2>3. \A id \in Notices!ToSet(notices) : id \in Notices!ToSet(notices')
    <3> SUFFICES ASSUME NEW i \in 1..m PROVE notices[i] \in Notices!ToSet(all)
      BY <1>2, <2>1, ShownIds
    <3>1. i \in 1..Len(all) /\ all[i] = notices[i]
      BY <1>2, <1>4, <1>5
    <3>2. QED
      BY <1>4, <3>1, ShownIds
  <2>4. n \in Notices!ToSet(all)
    <3>1. m + 1 \in 1..Len(all) /\ all[m + 1] = n
      BY <1>2, <1>4, <1>5
    <3> HIDE DEF n, X
    <3>2. QED
      BY <1>4, <3>1, ShownIds
  <2>5. QED
    BY <1>1, <2>1, <2>2, <2>3, <2>4
<1>8. CASE ~ (Len(all) <= MaxShown)
  <2> DEFINE rest == Tail(all)
  <2>1. notices' = rest /\ m >= 1
    <3>1. MaxShown \in Nat \ {0}
      BY PagesAssumption DEF Notices!FeedbackAssumption
    <3>2. QED
      BY <1>1, <1>2, <1>4, <1>8, <3>1
  <2>2. rest \in Seq(X) /\ Len(rest) = m /\ \A i \in 1..m : rest[i] = all[i + 1]
    <3> HIDE DEF X, n
    <3>0. all # <<>>
      BY <1>2, <1>4, <2>1
    <3>1. rest \in Seq(X) /\ Len(rest) = m
      BY <1>2, <1>4, <3>0
    <3>2. QED
      BY <1>2, <1>4, <3>0, <3>1
  <2> HIDE DEF rest
  <2>3. \A i \in 1..m : i + 1 \in 1..(m + 1)
    BY <1>2
  <2>4. \A i, j \in 1..m : i < j => rest[i] < rest[j]
    <3> SUFFICES ASSUME NEW i \in 1..m, NEW j \in 1..m, i < j PROVE rest[i] < rest[j]
      OBVIOUS
    <3>1. i + 1 \in 1..(m + 1) /\ j + 1 \in 1..(m + 1) /\ i + 1 < j + 1
      BY <1>2
    <3>2. QED
      BY <1>6, <2>2, <3>1
  <2>5. NoticeInv'
    <3>1. Rising(rest)
      BY <2>2, <2>4 DEF Rising
    <3>2. serial' \in Nat /\ notices' \in Seq(1..serial')
      <4>1. serial' \in Nat
        BY <1>1, <1>2
      <4>2. X = 1..serial'
        BY <1>1
      <4> HIDE DEF X
      <4>3. QED
        BY <2>1, <2>2, <4>1, <4>2
    <3>3. QED
      BY <2>1, <3>1, <3>2 DEF NoticeInv, Rising
  <2>6. n \in Notices!ToSet(rest)
    <3>1. m \in 1..Len(rest) /\ rest[m] = n
      BY <1>2, <1>5, <2>1, <2>2
    <3> HIDE DEF n, X
    <3>2. QED
      BY <2>2, <3>1, ShownIds
  <2>7. ASSUME NEW gone \in Notices!ToSet(notices) \ Notices!ToSet(rest),
               NEW kept \in Notices!ToSet(rest)
        PROVE  gone < kept
    <3>1. PICK i \in 1..m : notices[i] = gone
      BY <1>2, ShownIds
    <3>2. PICK j \in 1..m : rest[j] = kept
      BY <2>2, ShownIds
    <3>3. i = 1
      <4> SUFFICES ASSUME i # 1 PROVE FALSE
        OBVIOUS
      <4>1. i - 1 \in 1..m /\ (i - 1) + 1 = i
        BY <1>2
      <4>2. rest[i - 1] = gone
        BY <1>5, <2>2, <3>1, <4>1
      <4>3. i - 1 \in 1..Len(rest)
        BY <2>2, <4>1
      <4>4. QED
        BY <2>2, <4>2, <4>3, ShownIds
    <3>4. all[1] = gone /\ all[j + 1] = kept
      BY <1>5, <2>2, <3>1, <3>2, <3>3
    <3>5. 1 \in 1..(m + 1) /\ j + 1 \in 1..(m + 1) /\ 1 < j + 1
      BY <1>2, <2>1
    <3>6. QED
      BY <1>6, <3>4, <3>5
  <2>8. QED
    BY <1>1, <2>1, <2>5, <2>6, <2>7
<1>9. QED
  BY <1>7, <1>8

LEMMA DismissKeeps ==
  ASSUME NoticeInv, NEW id, Notices!Dismiss(id)
  PROVE  NoticeInv' /\ serial' = serial
<1> DEFINE i == CHOOSE k \in DOMAIN notices : notices[k] = id
           left == Notices!RemoveAt(notices, i)
<1>1. serial' = serial /\ notices' = left /\ id \in Notices!ToSet(notices)
  BY DEF Notices!Dismiss, Notices!Show, Notices!DismissFeedback
<1>2. serial \in Nat /\ notices \in Seq(1..serial)
  BY DEF NoticeInv
<1>3. i \in 1..Len(notices)
  BY <1>1, <1>2, ShownIds
<1> HIDE DEF i
<1>4. /\ left \in Seq(1..serial) /\ Len(left) = Len(notices) - 1
      /\ \A j \in 1..(Len(notices) - 1) : left[j] = IF j < i THEN notices[j] ELSE notices[j + 1]
  BY <1>2, <1>3, RemovedAt DEF Notices!RemoveAt
<1>5. Len(notices) \in Nat
  BY <1>2
<1> HIDE DEF left
<1>6. ASSUME NEW j \in 1..Len(left), NEW k \in 1..Len(left), j < k PROVE left[j] < left[k]
  <2>1. /\ j \in 1..(Len(notices) - 1) /\ k \in 1..(Len(notices) - 1)
        /\ j \in 1..Len(notices) /\ k \in 1..Len(notices)
        /\ j + 1 \in 1..Len(notices) /\ k + 1 \in 1..Len(notices) /\ j + 1 < k + 1 /\ j < k + 1
    BY <1>4, <1>5, <1>6
  <2>2. \A x, y \in 1..Len(notices) : x < y => notices[x] < notices[y]
    BY DEF NoticeInv, Rising
  <2>3. k < i => j < i
    BY <1>3, <1>5, <1>6, <2>1
  <2>4. QED
    BY <1>4, <1>6, <2>1, <2>2, <2>3
<1>7. QED
  BY <1>1, <1>2, <1>4, <1>6 DEF NoticeInv, Rising

(* However many notices come at once, the last is on the screen until it   *)
(* is dismissed, and one that is pushed away is older than all that stay.  *)
THEOREM OldestIsPushedAway == Spec => OldestGoesFirst
<1> DEFINE Pushed == serial' > serial =>
             /\ serial' \in Notices!ToSet(notices')
             /\ \A gone \in Notices!ToSet(notices) \ Notices!ToSet(notices') :
                  \A kept \in Notices!ToSet(notices') : gone < kept
<1>1. ASSUME NoticeInv, [Next]_pvars PROVE NoticeInv' /\ [Pushed]_NoticesVars
  <2>1. [Notices!Next]_NoticesVars
    BY <1>1, OtherSteps
  <2>2. CASE Notices!Notify
    BY <1>1, <2>2, NotifyKeeps
  <2>3. ASSUME NEW id, Notices!Dismiss(id) PROVE NoticeInv' /\ [Pushed]_NoticesVars
    <3>1. NoticeInv' /\ serial' = serial /\ serial \in Nat
      BY <1>1, <2>3, DismissKeeps DEF NoticeInv
    <3>2. QED
      BY <3>1
  <2>4. CASE UNCHANGED NoticesVars
    BY <1>1, <2>4 DEF NoticesVars, NoticeInv
  <2>5. QED
    BY <2>1, <2>2, <2>3, <2>4 DEF Notices!Next, Notices!TimerFires
<1>2. NoticeInv /\ [Next]_pvars => NoticeInv' /\ [Pushed]_Notices!nvars
  BY <1>1 DEF NoticesVars, Notices!nvars
<1>3. QED
  BY <1>2, NoticesInit, PTL DEF Spec, OldestGoesFirst, Notices!OldestGoesFirst
=============================================================================
