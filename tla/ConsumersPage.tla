---------------------------- MODULE ConsumersPage ----------------------------
(***************************************************************************)
(* ConsumersPage.tsx: the consumer groups of a cluster, the drawer of one  *)
(* group, and the reset of its offsets.  App changes the cluster under the *)
(* page (Back, Forward, a cluster that is configured no more) without      *)
(* mounting it again, so the drawer and its dialog stay open.  While App   *)
(* has no list of clusters, and the address names none, it gives '' (here  *)
(* None): the page spins without asking until a cluster comes.             *)
(***************************************************************************)
EXTENDS Naturals, FiniteSets

CONSTANTS Clusters, Groups, ReadOnly, None,
          MaxAsked,    (* bound on equal list requests in flight             *)
          MaxResets    (* bound on resets in flight                          *)

(* Assumed where the module is instantiated.                               *)
ConsumersAssumption ==
  /\ ReadOnly \subseteq Clusters /\ None \notin Clusters
  /\ MaxAsked \in Nat \ {0} /\ MaxResets \in Nat \ {0}

VARIABLES
  clusterId,                          (* given by App                        *)
  listed, loading, failed, asked,     (* the list: see Listing               *)
  drawer,                             (* selected: its name, and whose list  *)
                                      (* it was taken from                   *)
  confirming,                         (* resetRequest is set                 *)
  resetting,
  resets                              (* resets in flight                    *)

L == INSTANCE Listing WITH Keys <- Clusters, Nothing <- None

Places == Clusters \cup {None}
list  == <<listed, loading, failed, asked>>
panel == <<drawer, confirming, resetting>>
cvars == <<clusterId, list, panel, resets>>

Group == [of : Clusters, name : Groups]
(* to is where the request goes; owned, that the drawer which sent it is   *)
(* still mounted.  Requests that nothing tells apart any more are one.     *)
Reset == [group : Group, to : Clusters, owned : BOOLEAN]

TypeOK ==
  /\ clusterId \in Places
  /\ L!TypeOK
  /\ drawer \in Group \cup {None}
  /\ confirming \in BOOLEAN /\ resetting \in BOOLEAN
  /\ resets \subseteq Reset /\ Cardinality(resets) <= MaxResets

Init ==
  /\ clusterId \in Places
  /\ listed = None /\ loading = TRUE /\ failed = FALSE
  /\ asked = [c \in Clusters |-> IF c = clusterId THEN 1 ELSE 0]
  /\ drawer = None /\ confirming = FALSE /\ resetting = FALSE
  /\ resets = {}

-----------------------------------------------------------------------------
(* load: without a cluster it returns before it has done anything.         *)
Load(c) ==
  \/ c = None /\ UNCHANGED list
  \/ c # None /\ L!Load(c)

(* App may hand on a first cluster or another one, but takes none away     *)
(* while the page stays.                                                   *)
ClusterChanges(c) ==
  /\ c # clusterId /\ clusterId' = c
  /\ Load(c)
  /\ UNCHANGED <<panel, resets>>

Recompute ==
  /\ drawer = None
  /\ Load(clusterId)
  /\ UNCHANGED <<clusterId, panel, resets>>

ListAnswered(c) ==
  /\ L!Done(c) \/ L!Failed(c)
  /\ UNCHANGED <<clusterId, panel, resets>>

Select(name) ==
  /\ drawer = None /\ ~ loading /\ listed # None
  /\ drawer' = [of |-> listed, name |-> name]
  /\ UNCHANGED <<clusterId, list, confirming, resetting, resets>>

(* The drawer unmounts, with its dialog; its requests go on.               *)
Unmounted(inFlight) ==
  /\ drawer' = None /\ confirming' = FALSE /\ resetting' = FALSE
  /\ resets' = {[r EXCEPT !.owned = FALSE] : r \in inFlight}

(* Escape closes the drawer whatever the dialog above it is waiting for.   *)
CloseDrawer ==
  /\ drawer # None
  /\ Unmounted(resets)
  /\ UNCHANGED <<clusterId, list>>

AskReset ==
  /\ drawer # None /\ ~ confirming /\ ~ resetting /\ clusterId \notin ReadOnly
  /\ confirming' = TRUE
  /\ UNCHANGED <<clusterId, list, drawer, resetting, resets>>

CloseDialog ==
  /\ confirming /\ ~ resetting
  /\ confirming' = FALSE
  /\ UNCHANGED <<clusterId, list, drawer, resetting, resets>>

ConfirmationMatches(value, expected) == value = expected
Fault_EnabledWhilePending(value) == ConfirmationMatches(value, drawer.name)
Enabled(value) == ConfirmationMatches(value, drawer.name) /\ ~ resetting

ConfirmReset(value) ==
  LET reset == [group |-> drawer, to |-> clusterId, owned |-> TRUE]
  IN /\ confirming /\ Enabled(value)
     /\ Cardinality(resets) < MaxResets
     /\ resetting' = TRUE
     /\ resets' = resets \cup {reset}
     /\ UNCHANGED <<clusterId, list, drawer, confirming>>

(* saved() closes the drawer that is open now, whichever it is, and reads  *)
(* the groups of the cluster the reset was sent to.                        *)
ResetDone(r) ==
  /\ r \in resets /\ r.to \notin ReadOnly
  /\ Unmounted(resets \ {r})
  /\ Load(r.to)
  /\ UNCHANGED clusterId

ResetFailed(r) ==
  /\ r \in resets
  /\ resets' = resets \ {r}
  /\ resetting' = (resetting /\ ~ r.owned)
  /\ UNCHANGED <<clusterId, list, drawer, confirming>>

Next ==
  \/ \E c \in Clusters : ClusterChanges(c) \/ ListAnswered(c)
  \/ \E g \in Groups : Select(g) \/ ConfirmReset(g)
  \/ \E r \in resets : ResetDone(r) \/ ResetFailed(r)
  \/ Recompute \/ CloseDrawer \/ AskReset \/ CloseDialog

Spec == Init /\ [][Next]_cvars

-----------------------------------------------------------------------------
(* Whatever is clicked while a reset is under way, a drawer sends no second *)
(* one before the first is answered.                                       *)
OneResetPerDrawer == Cardinality({r \in resets : r.owned}) <= 1

(* What waits for an answer has a request that will be answered; but the   *)
(* list spins with none before there is a cluster to ask about.            *)
SpinnersEnd ==
  /\ loading /\ clusterId # None => \E c \in Clusters : asked[c] > 0
  /\ resetting => \E r \in resets : r.owned

(* Counterexamples: see PagesClaims.cfg.                                   *)

(* The list spins only while a request is under way.                       *)
SpinnersAlwaysEnd == loading => \E c \in Clusters : asked[c] > 0

(* A reset goes to the cluster in whose list the group was chosen.         *)
ResetGoesWhereListed == \A r \in resets : r.to = r.group.of
(* Once every list request is answered, the groups are of the cluster.     *)
GroupsAreOfCluster ==
  (\A c \in Clusters : asked[c] = 0) /\ ~ failed => listed = clusterId
=============================================================================
