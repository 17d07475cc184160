---------------------------- MODULE TopicConfigs ----------------------------
(***************************************************************************)
(* The tab Configs of TopicWorkspace.tsx: one configuration of the topic,  *)
(* the list that shows it, and the form that alters it.  The button is not *)
(* disabled while an answer is due.                                        *)
(*                                                                         *)
(* React (external) gives a handler an event whose currentTarget is the    *)
(* form, and takes it away when the handler returns, which an asynchronous *)
(* one does at its first await.                                            *)
(***************************************************************************)
EXTENDS Naturals

CONSTANTS Values,      (* of the configuration                               *)
          Default,     (* the value of Values that a blank brings back       *)
          None,
          MaxAlters    (* bound on the alterations sent                      *)

VARIABLES
  config,          (* in Kafka                                               *)
  items, failed,   (* what is listed, and that an error is shown             *)
  loads,           (* reads in flight: what each will answer, None if it     *)
                   (* has not come to Kafka yet                              *)
  alters,          (* alterations in flight, by their number                 *)
  sent,
  reported         (* of the last alteration answered: what was done and said *)

gvars == <<config, items, failed, loads, alters, sent, reported>>

Alter == [n : 1..MaxAlters, value : Values, done : BOOLEAN]

TypeOK ==
  /\ config \in Values /\ items \in Values \cup {None} /\ failed \in BOOLEAN
  /\ loads \subseteq [n : 0..MaxAlters, answer : Values \cup {None}]
  /\ alters \subseteq Alter /\ sent \in 0..MaxAlters
  /\ reported \in {None} \cup [done : BOOLEAN, said : {"updated", "error"}]

Load(n) == [n |-> n, answer |-> None]

Init ==
  /\ config = Default /\ items = None /\ failed = FALSE
  /\ loads = {Load(0)}
  /\ alters = {} /\ sent = 0 /\ reported = None

-----------------------------------------------------------------------------
ReadConfigs(l) ==
  /\ l \in loads /\ l.answer = None
  /\ loads' = (loads \ {l}) \cup {[l EXCEPT !.answer = config]}
  /\ UNCHANGED <<config, items, failed, alters, sent, reported>>

LoadDone(l) ==
  /\ l \in loads /\ l.answer # None
  /\ loads' = loads \ {l}
  /\ items' = l.answer /\ failed' = FALSE
  /\ UNCHANGED <<config, alters, sent, reported>>

LoadFailed(l) ==
  /\ l \in loads /\ loads' = loads \ {l}
  /\ failed' = TRUE
  /\ UNCHANGED <<config, items, alters, sent, reported>>

SubmitAlter(value) ==
  /\ sent < MaxAlters /\ sent' = sent + 1
  /\ alters' = alters \cup {[n |-> sent + 1, value |-> value, done |-> FALSE]}
  /\ UNCHANGED <<config, items, failed, loads, reported>>

AlterConfigs(a) ==
  /\ a \in alters /\ ~ a.done
  /\ config' = a.value
  /\ alters' = (alters \ {a}) \cup {[a EXCEPT !.done = TRUE]}
  /\ UNCHANGED <<items, failed, loads, sent, reported>>

CurrentTarget(awaited) == IF awaited THEN None ELSE "form"

(* event.currentTarget.reset() comes before the notice and the reload.     *)
AlterAnswered(a) ==
  /\ a \in alters /\ a.done
  /\ alters' = alters \ {a}
  /\ IF CurrentTarget(TRUE) # None
     THEN /\ reported' = [done |-> TRUE, said |-> "updated"]
          /\ loads' = loads \cup {Load(a.n)}
          /\ UNCHANGED failed
     ELSE /\ reported' = [done |-> TRUE, said |-> "error"]
          /\ failed' = TRUE
          /\ UNCHANGED loads
  /\ UNCHANGED <<config, items, sent>>

AlterRefused(a) ==
  /\ a \in alters /\ ~ a.done
  /\ alters' = alters \ {a}
  /\ reported' = [done |-> FALSE, said |-> "error"] /\ failed' = TRUE
  /\ UNCHANGED <<config, items, loads, sent>>

Next ==
  \/ \E l \in loads : ReadConfigs(l) \/ LoadDone(l) \/ LoadFailed(l)
  \/ \E value \in Values : SubmitAlter(value)
  \/ \E a \in alters : AlterConfigs(a) \/ AlterAnswered(a) \/ AlterRefused(a)

Spec == Init /\ [][Next]_gvars

-----------------------------------------------------------------------------
(* The page says of an alteration that Kafka has taken, and has answered,  *)
(* that the configuration is updated: see ConfigAlter.cfg.                 *)
AlteredIsReported ==
  reported # None /\ reported.done => reported.said = "updated"
=============================================================================
