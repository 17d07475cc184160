------------------------------ MODULE Feedback ------------------------------
(***************************************************************************)
(* Feedback.tsx and feedback-model.ts: the notices of what was done, at    *)
(* most four on the screen, each with a timer of its own that takes it     *)
(* away by its id.  An id is the time and a serial number, so no two are   *)
(* equal; here it is the number of the notice.                             *)
(***************************************************************************)
EXTENDS Naturals, Sequences, SequencesExt

CONSTANTS MaxShown,    (* 4 in the code                                      *)
          MaxNotices   (* bound on notices                                   *)

(* Assumed where the module is instantiated.                               *)
FeedbackAssumption == MaxShown \in Nat \ {0} /\ MaxNotices \in Nat

VARIABLES serial,    (* the number of notices there have been                *)
          notices,   (* those on the screen, the oldest first                *)
          timers     (* the timers that run, one for each toast              *)

nvars == <<serial, notices, timers>>

TypeOK ==
  /\ serial \in 0..MaxNotices
  /\ notices \in Seq(1..serial) /\ timers \subseteq 1..serial

Init == serial = 0 /\ notices = <<>> /\ timers = {}

-----------------------------------------------------------------------------
Fault_AddFeedback(items, item) ==
  IF Len(items) = MaxShown THEN items ELSE Append(items, item)
AddFeedback(items, item) ==
  LET all == Append(items, item)
  IN IF Len(all) <= MaxShown THEN all ELSE Tail(all)

(* One at most has the id.                                                 *)
DismissFeedback(items, id) == RemoveAt(items, CHOOSE i \in DOMAIN items : items[i] = id)

(* A toast that appears starts its timer, and one that goes, for whatever   *)
(* reason, clears it.                                                       *)
Fault_Show(items) == notices' = items /\ timers' = timers \cap ToSet(items)
Show(items) == notices' = items /\ timers' = ToSet(items)

Notify ==
  /\ serial < MaxNotices
  /\ serial' = serial + 1
  /\ Show(AddFeedback(notices, serial + 1))

(* The button, or the timer.                                                *)
Dismiss(id) ==
  /\ id \in ToSet(notices)
  /\ Show(DismissFeedback(notices, id))
  /\ UNCHANGED serial

TimerFires(id) == id \in timers /\ Dismiss(id)

Next == Notify \/ \E id \in 1..MaxNotices : Dismiss(id) \/ TimerFires(id)

Spec == Init /\ [][Next]_nvars
FairSpec == Spec /\ \A id \in 1..MaxNotices : WF_nvars(TimerFires(id))

-----------------------------------------------------------------------------
(* However many notices come at once, the last is on the screen until it    *)
(* is dismissed: one that is pushed away is older than all that stay.       *)
OldestGoesFirst ==
  [][serial' > serial =>
       /\ serial' \in ToSet(notices')
       /\ \A gone \in ToSet(notices) \ ToSet(notices') :
            \A kept \in ToSet(notices') : gone < kept]_nvars

(* No notice stays for ever, whatever is dismissed, or pushed away, before. *)
NoticesGo == \A id \in 1..MaxNotices : id \in ToSet(notices) ~> id \notin ToSet(notices)
=============================================================================
