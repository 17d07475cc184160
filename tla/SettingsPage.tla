---------------------------- MODULE SettingsPage ----------------------------
(***************************************************************************)
(* SettingsPage.tsx: the configuration is read whole, edited in the page,  *)
(* sent whole, and read again; or a backup is restored, and it is read     *)
(* again.  The fields are never disabled, and other browsers, or the file, *)
(* change the configuration of the server meanwhile.                       *)
(***************************************************************************)
EXTENDS Naturals, FiniteSets

CONSTANTS None,
          MaxVersions,   (* bound on versions of the configuration           *)
          MaxLoads       (* bound on reads in flight                         *)

(* Assumed where the module is instantiated.                               *)
SettingsAssumption ==
  /\ None \notin Nat /\ None \notin [base : Nat, done : BOOLEAN]
  /\ {MaxVersions, MaxLoads} \subseteq Nat \ {0}

VARIABLES
  served,      (* the version the server has                                 *)
  cfg,         (* what is on the screen: the version it was read from, and   *)
               (* its edits: "none", "sent" with a save, or "unsaved"        *)
  loads,       (* reads in flight: the version answered, None if not yet     *)
  saving, save,             (* the request to save: none, or what it sends   *)
  restoreTarget,            (* the dialog is open                            *)
  restoring, restore,       (* "none", "sent", "done"                        *)
  problem                   (* an error is shown                             *)

saves    == <<saving, save>>
restores == <<restoreTarget, restoring, restore>>
xvars    == <<served, cfg, loads, saves, restores, problem>>

Versions == 1..MaxVersions
Screen   == [base : Versions, edits : {"none", "sent", "unsaved"}]
Sent     == [base : Versions, done : BOOLEAN]

TypeOK ==
  /\ served \in Versions /\ cfg \in Screen \cup {None}
  /\ loads \subseteq [n : 1..MaxLoads, answer : Versions \cup {None}]
  /\ saving \in BOOLEAN /\ save \in Sent \cup {None}
  /\ restoreTarget \in BOOLEAN /\ restoring \in BOOLEAN
  /\ restore \in {"none", "sent", "done"} /\ problem \in BOOLEAN

Init ==
  /\ served = 1 /\ cfg = None /\ loads = {[n |-> 1, answer |-> None]}
  /\ saving = FALSE /\ save = None
  /\ restoreTarget = FALSE /\ restoring = FALSE /\ restore = "none"
  /\ problem = FALSE

-----------------------------------------------------------------------------
Load ==
  LET free == {n \in 1..MaxLoads : \A l \in loads : l.n # n}
  IN /\ free # {}
     /\ loads' = loads \cup {[n |-> CHOOSE n \in free : TRUE, answer |-> None]}

LoadRead(l) ==
  /\ l \in loads /\ l.answer = None
  /\ loads' = (loads \ {l}) \cup {[l EXCEPT !.answer = served]}
  /\ UNCHANGED <<served, cfg, saves, restores, problem>>

LoadDone(l) ==
  /\ l \in loads /\ l.answer # None
  /\ loads' = loads \ {l}
  /\ cfg' = [base |-> l.answer, edits |-> "none"] /\ problem' = FALSE
  /\ UNCHANGED <<served, saves, restores>>

LoadFailed(l) ==
  /\ l \in loads /\ loads' = loads \ {l} /\ problem' = TRUE
  /\ UNCHANGED <<served, cfg, saves, restores>>

Edit ==
  /\ cfg # None /\ ~ restoreTarget /\ cfg' = [cfg EXCEPT !.edits = "unsaved"]
  /\ UNCHANGED <<served, loads, saves, restores, problem>>

Save ==
  /\ cfg # None /\ ~ saving /\ ~ restoreTarget
  /\ saving' = TRUE /\ save' = [base |-> cfg.base, done |-> FALSE] /\ problem' = FALSE
  /\ cfg' = [cfg EXCEPT !.edits = IF @ = "unsaved" THEN "sent" ELSE @]
  /\ UNCHANGED <<served, loads, restores>>

(* The server, a save of another browser, an edit of the file.             *)
NewVersion == served < MaxVersions /\ served' = served + 1

ServerSaves ==
  /\ save # None /\ ~ save.done
  /\ NewVersion /\ save' = [save EXCEPT !.done = TRUE]
  /\ UNCHANGED <<cfg, loads, saving, restores, problem>>

ServerRestores ==
  /\ restore = "sent" /\ NewVersion /\ restore' = "done"
  /\ UNCHANGED <<cfg, loads, saves, restoreTarget, restoring, problem>>

OthersChange ==
  /\ NewVersion
  /\ UNCHANGED <<cfg, loads, saves, restores, problem>>

SaveDone ==
  /\ save # None /\ save.done /\ save' = None /\ saving' = FALSE
  /\ Load
  /\ UNCHANGED <<served, cfg, restores, problem>>

Fault_SaveFailed ==
  /\ save # None /\ save' = None /\ problem' = TRUE
  /\ UNCHANGED <<served, cfg, loads, saving, restores>>
SaveFailed ==
  /\ save # None /\ save' = None /\ saving' = FALSE /\ problem' = TRUE
  /\ cfg' = [cfg EXCEPT !.edits = IF @ = "sent" THEN "unsaved" ELSE @]
  /\ UNCHANGED <<served, loads, restores>>

AskRestore ==
  /\ cfg # None /\ ~ restoreTarget /\ restoreTarget' = TRUE /\ problem' = FALSE
  /\ UNCHANGED <<served, cfg, loads, saves, restoring, restore>>

CloseRestore ==
  /\ restoreTarget /\ ~ restoring /\ restoreTarget' = FALSE /\ problem' = FALSE
  /\ UNCHANGED <<served, cfg, loads, saves, restoring, restore>>

ConfirmRestore ==
  /\ restoreTarget /\ ~ restoring
  /\ restoring' = TRUE /\ restore' = "sent" /\ problem' = FALSE
  /\ UNCHANGED <<served, cfg, loads, saves, restoreTarget>>

RestoreDone ==
  /\ restore = "done" /\ restore' = "none"
  /\ restoreTarget' = FALSE /\ restoring' = FALSE
  /\ Load
  /\ UNCHANGED <<served, cfg, saves, problem>>

RestoreFailed ==
  /\ restore # "none" /\ restore' = "none" /\ restoring' = FALSE /\ problem' = TRUE
  /\ UNCHANGED <<served, cfg, loads, saves, restoreTarget>>

Next ==
  \/ \E l \in loads : LoadRead(l) \/ LoadDone(l) \/ LoadFailed(l)
  \/ Edit \/ Save \/ SaveDone \/ SaveFailed
  \/ AskRestore \/ CloseRestore \/ ConfirmRestore \/ RestoreDone \/ RestoreFailed
  \/ ServerSaves \/ ServerRestores \/ OthersChange

Spec == Init /\ [][Next]_xvars

-----------------------------------------------------------------------------
(* What is disabled until an answer comes has a request that is due one.   *)
SpinnersEnd == (saving => save # None) /\ (restoring => restoreTarget /\ restore # "none")

(* Counterexamples: see PagesClaims.cfg.                                   *)

(* An answer does not take away what is typed and not sent.                *)
EditsAreKept ==
  [][cfg # None /\ cfg.edits = "unsaved" => cfg'.edits # "none"]_xvars
(* What is shown is not replaced by an older configuration.                *)
NeverGoesBack == [][cfg # None => cfg'.base >= cfg.base]_xvars
(* A save replaces the configuration its page had read.                    *)
OthersAreKept == [][ServerSaves => save.base = served]_xvars
=============================================================================
