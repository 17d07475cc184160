--------------------------- MODULE TopicWorkspace ---------------------------
(***************************************************************************)
(* TopicWorkspace.tsx with the topic service behind it: partitions are     *)
(* added, the topic is removed.  The buttons of the form are not disabled  *)
(* while an answer is due, and any request or answer may be lost.  The     *)
(* cluster takes writes; nobody but this page changes the topic.           *)
(*                                                                         *)
(* The client of Kafka is external.  CreatePartitions(ctx, add, topics...) *)
(* of kadm lists the topics once more, asks Kafka for so many partitions   *)
(* above what it finds, and Kafka refuses a total that is no more than what *)
(* there is.  The service gives it the total it has computed itself.       *)
(***************************************************************************)
EXTENDS Naturals, FiniteSets

CONSTANTS Start,         (* partitions of the topic at first                 *)
          Counts,        (* increments somebody asks for                     *)
          MaxAdds        (* bound on requests to add                         *)

(* Assumed where the module is instantiated.                               *)
WorkspaceAssumption ==
  /\ Start \in Nat \ {0} /\ Counts \subseteq Nat \ {0} /\ MaxAdds \in Nat

VARIABLES
  page,          (* "topic", "topics" (the list), or "elsewhere"             *)
  exists, partitions,                       (* the topic in Kafka            *)
  shown,         (* topic.PartitionCount on the screen                       *)
  adds,          (* requests to add, until client and server are done        *)
  asked,         (* how many requests there have been, and for how many      *)
  adding,        (* the form is open                                         *)
  told,          (* what the last answer made the page say                   *)
  confirming, deleting,
  removal        (* the request to remove: "none", "sent", "done"            *)

parts == <<shown, adds, asked, adding, told>>
gone  == <<confirming, deleting, removal>>
tvars == <<page, exists, partitions, parts, gone>>

Server == {"listing", "counting", "creating", "done", "refused"}
Client == {"waiting", "refreshing", "gone"}
Requests == [n : 1..MaxAdds, count : Counts, given : Nat, from : Nat,
             server : Server, client : Client]

TypeOK ==
  /\ page \in {"topic", "topics", "elsewhere"} /\ exists \in BOOLEAN
  /\ partitions \in Nat /\ shown \in Nat /\ adds \subseteq Requests
  /\ asked \in [requests : 0..MaxAdds, sum : Nat, announced : Nat]
  /\ told \in [said : {"nothing", "added", "submitted", "failed"},
               did : BOOLEAN, heard : BOOLEAN]
  /\ {adding, confirming, deleting} \subseteq BOOLEAN
  /\ removal \in {"none", "sent", "done"}

Init ==
  /\ page = "topic" /\ exists = TRUE /\ partitions = Start /\ shown = Start
  /\ adds = {} /\ asked = [requests |-> 0, sum |-> 0, announced |-> 0] /\ adding = FALSE
  /\ told = [said |-> "nothing", did |-> FALSE, heard |-> TRUE]
  /\ confirming = FALSE /\ deleting = FALSE /\ removal = "none"

-----------------------------------------------------------------------------
(* The server: AddPartitions lists the topic, and gives the total to kadm. *)
TargetPartitionCount(current, increment) == current + increment

Becomes(old, new) == adds' = (adds \ {old}) \cup {new}

Finds(a, given, stage) ==
  /\ Becomes(a, IF exists THEN [a EXCEPT !.given = given, !.server = stage]
                ELSE [a EXCEPT !.server = "refused"])
  /\ UNCHANGED <<page, exists, partitions, shown, asked, adding, told, gone>>

ListTopics(a) ==
  /\ a \in adds /\ a.server = "listing"
  /\ Finds(a, TargetPartitionCount(partitions, a.count), "counting")

KadmLists(a) ==
  /\ a \in adds /\ a.server = "counting"
  /\ Finds(a, partitions + a.given, "creating")

KafkaCreates(a) ==
  LET taken == exists /\ a.given > partitions
  IN /\ a \in adds /\ a.server = "creating"
     /\ partitions' = IF taken THEN a.given ELSE partitions
     /\ Becomes(a, [a EXCEPT !.server = IF taken THEN "done" ELSE "refused"])
     /\ UNCHANGED <<page, exists, shown, asked, adding, told, gone>>

-----------------------------------------------------------------------------
(* The panel of partitions                                                 *)

ToggleForm ==
  /\ page = "topic" /\ adding' = ~ adding
  /\ UNCHANGED <<page, exists, partitions, shown, adds, asked, told, gone>>

Add(count) ==
  /\ page = "topic" /\ adding /\ asked.requests < MaxAdds
  /\ asked' = [asked EXCEPT !.requests = @ + 1, !.sum = @ + count]
  /\ adds' = adds \cup {[n |-> asked.requests + 1, count |-> count, given |-> 0, from |-> 0,
                         server |-> "listing", client |-> "waiting"]}
  /\ UNCHANGED <<page, exists, partitions, shown, adding, told, gone>>

Say(what, a, heard) ==
  told' = IF a.client = "gone" THEN told
          ELSE [said |-> what, did |-> a.server = "done", heard |-> heard]

(* expanded: the page goes on to read the topic again.                     *)
AddDone(a) ==
  /\ a \in adds /\ a.server = "done" /\ a.client = "waiting"
  /\ Becomes(a, [a EXCEPT !.client = "refreshing", !.from = partitions])
  /\ UNCHANGED <<page, exists, partitions, shown, asked, adding, told, gone>>

(* expanded is what the code knows of the request that failed.             *)
Fault_Failure(expanded) == "failed"
Failure(expanded) == IF expanded THEN "submitted" ELSE "failed"

AddFailed(a) ==
  /\ a \in adds /\ a.server = "refused" /\ a.client = "waiting"
  /\ adds' = adds \ {a}
  /\ Say(Failure(FALSE), a, TRUE)
  /\ UNCHANGED <<page, exists, partitions, shown, asked, adding, gone>>

(* The request or its answer is lost: the server may still do it.          *)
AddLost(a) ==
  /\ a \in adds /\ a.client = "waiting"
  /\ Becomes(a, [a EXCEPT !.client = "gone"])
  /\ Say(Failure(FALSE), a, FALSE)
  /\ UNCHANGED <<page, exists, partitions, shown, asked, adding, gone>>

Refreshed(a, count) ==
  /\ a \in adds /\ a.client = "refreshing" /\ exists /\ count \in a.from..partitions
  /\ adds' = adds \ {a}
  /\ shown' = count /\ adding' = FALSE
  /\ asked' = [asked EXCEPT !.announced = @ + a.count]
  /\ Say("added", a, TRUE)
  /\ UNCHANGED <<page, exists, partitions, gone>>

RefreshFailed(a) ==
  /\ a \in adds /\ a.client = "refreshing"
  /\ adds' = adds \ {a}
  /\ Say(Failure(TRUE), a, TRUE)
  /\ UNCHANGED <<page, exists, partitions, shown, asked, adding, gone>>

Forgotten(a) ==
  /\ a \in adds /\ a.client = "gone" /\ a.server \in {"done", "refused"}
  /\ adds' = adds \ {a}
  /\ UNCHANGED <<page, exists, partitions, shown, asked, adding, told, gone>>

-----------------------------------------------------------------------------
(* Removing the topic, and leaving the page meanwhile                      *)

AskRemove ==
  /\ page = "topic" /\ ~ confirming /\ confirming' = TRUE
  /\ UNCHANGED <<page, exists, partitions, parts, deleting, removal>>

CloseRemove ==
  /\ confirming /\ ~ deleting /\ confirming' = FALSE
  /\ UNCHANGED <<page, exists, partitions, parts, deleting, removal>>

Remove ==
  /\ confirming /\ ~ deleting /\ removal = "none"
  /\ deleting' = TRUE /\ removal' = "sent"
  /\ UNCHANGED <<page, exists, partitions, parts, confirming>>

KafkaRemoves ==
  /\ removal = "sent" /\ exists
  /\ removal' = "done" /\ exists' = FALSE
  /\ UNCHANGED <<page, partitions, parts, confirming, deleting>>

Unmounted ==
  /\ adds' = {[a EXCEPT !.client = "gone"] : a \in {b \in adds : b.client = "waiting"}}
             \cup {b \in adds : b.client = "gone"}
  /\ adding' = FALSE /\ confirming' = FALSE /\ deleting' = FALSE
  /\ UNCHANGED <<shown, asked, told>>

(* onBack navigates from wherever the user is by now.                      *)
RemoveDone ==
  /\ removal = "done" /\ removal' = "none"
  /\ page' = "topics"
  /\ Unmounted
  /\ UNCHANGED <<exists, partitions>>

RemoveFailed ==
  /\ removal # "none" /\ removal' = "none" /\ deleting' = FALSE
  /\ UNCHANGED <<page, exists, partitions, parts, confirming>>

Leave ==
  /\ page = "topic" /\ page' = "elsewhere"
  /\ Unmounted
  /\ UNCHANGED <<exists, partitions, removal>>

Next ==
  \/ \E a \in adds : ListTopics(a) \/ KadmLists(a) \/ KafkaCreates(a)
  \/ \E a \in adds : AddDone(a) \/ AddFailed(a) \/ AddLost(a) \/ RefreshFailed(a) \/ Forgotten(a)
  \/ \E a \in adds : \E count \in Start..partitions : Refreshed(a, count)
  \/ \E count \in Counts : Add(count)
  \/ ToggleForm \/ AskRemove \/ CloseRemove \/ Remove \/ KafkaRemoves
  \/ RemoveDone \/ RemoveFailed \/ Leave

Spec == Init /\ [][Next]_tvars

-----------------------------------------------------------------------------
(* What the page says of an addition is so, whatever requests overlap, are *)
(* refused or have their answers lost: an error that does not call it      *)
(* submitted means that it was refused, if the answer was heard.           *)
SaysWhatHappened ==
  /\ told.said \in {"added", "submitted"} => told.did
  /\ told.said = "failed" /\ told.heard => ~ told.did

(* Violated: see AddPartitions.cfg.  The topic never gets more partitions  *)
(* than were asked for.                                                    *)
NeverMoreThanAsked == partitions <= Start + asked.sum

(* Counterexamples: see PagesClaims.cfg.                                   *)

(* The partitions said to be new are there.                                *)
AsManyAsSaid == partitions >= Start + asked.announced
(* An answer does not take the user away from a page he has gone to.       *)
StaysWhereUserWent == [][page = "elsewhere" => page' = page]_tvars
=============================================================================
