----------------------------- MODULE TopicsPage -----------------------------
(***************************************************************************)
(* TopicsPage.tsx: the topics of a cluster that match a search, and the    *)
(* dialog that creates one.  App changes the cluster under the page, and   *)
(* Escape closes the dialog also while it waits for an answer.  While App  *)
(* has no list of clusters, and the address names none, it gives '' (here  *)
(* None): the page spins without asking until a cluster comes.             *)
(***************************************************************************)
EXTENDS Naturals, FiniteSets

CONSTANTS Clusters, Searches, None,
          MaxAsked,     (* bound on equal list requests in flight            *)
          MaxDialogs    (* bound on the dialogs opened                       *)

(* Assumed where the module is instantiated.                               *)
TopicsAssumption ==
  /\ "" \in Searches /\ None \notin Clusters \cup (Clusters \X Searches)
  /\ MaxAsked \in Nat \ {0} /\ MaxDialogs \in Nat

VARIABLES
  clusterId,                        (* given by App                          *)
  search,                           (* what is typed                         *)
  deferred,                         (* and the render of it that is done     *)
  listed, loading, failed, asked,   (* the list: see Listing                 *)
  dialog,                           (* the number of the dialog that is open *)
  dialogs,                          (* how many have been                    *)
  submitting,                       (* of the dialog that is open            *)
  creates                           (* requests to create in flight          *)

L == INSTANCE Listing WITH Keys <- Clusters \X Searches, Nothing <- None

Places == Clusters \cup {None}
list  == <<listed, loading, failed, asked>>
modal == <<dialog, dialogs, submitting>>
pvars == <<clusterId, search, deferred, list, modal, creates>>

Key == <<clusterId, deferred>>

TypeOK ==
  /\ clusterId \in Places /\ search \in Searches /\ deferred \in Searches
  /\ L!TypeOK
  /\ dialogs \in 0..MaxDialogs /\ dialog \in (1..MaxDialogs) \cup {None}
  /\ submitting \in BOOLEAN
  /\ creates \subseteq [by : 1..MaxDialogs, key : Places \X Searches]

Init ==
  /\ clusterId \in Places /\ search = "" /\ deferred = ""
  /\ listed = None /\ loading = TRUE /\ failed = FALSE
  /\ asked = [k \in Clusters \X Searches |-> IF k = Key THEN 1 ELSE 0]
  /\ dialog = None /\ dialogs = 0 /\ submitting = FALSE /\ creates = {}

-----------------------------------------------------------------------------
(* load: without a cluster it returns before it has done anything.         *)
Load(k) ==
  \/ k[1] = None /\ UNCHANGED list
  \/ k[1] # None /\ L!Load(k)

(* App may hand on a first cluster or another one, but takes none away     *)
(* while the page stays.                                                   *)
ClusterChanges(c) ==
  /\ c # clusterId /\ clusterId' = c
  /\ Load(<<c, deferred>>)
  /\ UNCHANGED <<search, deferred, modal, creates>>

Type(text) ==
  /\ dialog = None /\ search' = text
  /\ UNCHANGED <<clusterId, deferred, list, modal, creates>>

(* useDeferredValue: the text as it is when there is time to render it.    *)
Deferred ==
  /\ deferred # search /\ deferred' = search
  /\ Load(<<clusterId, search>>)
  /\ UNCHANGED <<clusterId, search, modal, creates>>

ListAnswered(k) ==
  /\ L!Done(k) \/ L!Failed(k)
  /\ UNCHANGED <<clusterId, search, deferred, modal, creates>>

OpenDialog ==
  /\ dialog = None /\ dialogs < MaxDialogs
  /\ dialogs' = dialogs + 1 /\ dialog' = dialogs + 1 /\ submitting' = FALSE
  /\ UNCHANGED <<clusterId, search, deferred, list, creates>>

(* Cancel is disabled while the dialog waits; Escape and the scrim are not. *)
CloseDialog ==
  /\ dialog # None /\ dialog' = None /\ submitting' = FALSE
  /\ UNCHANGED <<clusterId, search, deferred, list, dialogs, creates>>

Fault_Create ==
  /\ dialog # None /\ submitting' = TRUE
  /\ creates' = creates \cup {[by |-> dialog, key |-> Key]}
  /\ UNCHANGED <<clusterId, search, deferred, list, dialog, dialogs>>
Create ==
  /\ dialog # None /\ ~ submitting /\ submitting' = TRUE
  /\ creates' = creates \cup {[by |-> dialog, key |-> Key]}
  /\ UNCHANGED <<clusterId, search, deferred, list, dialog, dialogs>>

(* saved() closes the dialog that is open now, whichever it is, and its    *)
(* load is that of the render in which the request was sent.  A request    *)
(* without a cluster has a path the server does not know: it fails.        *)
CreateDone(c) ==
  /\ c \in creates /\ creates' = creates \ {c} /\ c.key[1] # None
  /\ dialog' = None /\ submitting' = FALSE
  /\ Load(c.key)
  /\ UNCHANGED <<clusterId, search, deferred, dialogs>>

CreateFailed(c) ==
  /\ c \in creates /\ creates' = creates \ {c}
  /\ submitting' = (submitting /\ c.by # dialog)
  /\ UNCHANGED <<clusterId, search, deferred, list, dialog, dialogs>>

Next ==
  \/ \E c \in Clusters : ClusterChanges(c)
  \/ \E text \in Searches : Type(text)
  \/ \E k \in Clusters \X Searches : ListAnswered(k)
  \/ \E c \in creates : CreateDone(c) \/ CreateFailed(c)
  \/ Deferred \/ OpenDialog \/ CloseDialog \/ Create

Spec == Init /\ [][Next]_pvars

-----------------------------------------------------------------------------
(* The spinner of the list has a request whose answer will end it as soon  *)
(* as there is a cluster to ask about, and the dialog that says it is      *)
(* creating has one of its own.                                            *)
SpinnersEnd ==
  /\ loading /\ clusterId # None => \E k \in Clusters \X Searches : asked[k] > 0
  /\ submitting => \E c \in creates : c.by = dialog

(* Counterexamples: see PagesClaims.cfg.                                   *)

(* The list spins only while a request is under way.                       *)
SpinnersAlwaysEnd == loading => \E k \in Clusters \X Searches : asked[k] > 0

(* Once every list request is answered, the topics are those searched for. *)
TopicsAreSearched ==
  clusterId # None /\ (\A k \in Clusters \X Searches : asked[k] = 0) /\ ~ failed
    => listed = Key
(* A dialog goes when its user closes it or its own request succeeds.      *)
DialogStays ==
  [][\A c \in creates : CreateDone(c) => dialog \in {None, c.by}]_pvars
=============================================================================
