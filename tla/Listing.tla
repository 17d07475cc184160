------------------------------- MODULE Listing -------------------------------
(***************************************************************************)
(* How ConsumersPage, TopicsPage, AuditPage and the configuration list of  *)
(* a topic read what they list:                                            *)
(*                                                                         *)
(*   setLoading(true);                                                     *)
(*   api.get(...).then(setItems, setError('')).catch(setError)             *)
(*                .finally(() => setLoading(false))                        *)
(*                                                                         *)
(* Nothing tells one request from another, and none is ever cancelled.     *)
(* What is asked for (a cluster, a search) is a key.                       *)
(***************************************************************************)
EXTENDS Naturals

CONSTANTS Keys,      (* what may be asked for                                *)
          Nothing,   (* what is listed before the first answer               *)
          MaxAsked   (* bound on equal requests in flight                    *)

VARIABLES listed,    (* the key whose answer is listed                       *)
          loading, failed,
          asked      (* requests in flight, by key                           *)

lvars == <<listed, loading, failed, asked>>

TypeOK ==
  /\ listed \in Keys \cup {Nothing}
  /\ loading \in BOOLEAN /\ failed \in BOOLEAN
  /\ asked \in [Keys -> 0..MaxAsked]

(* What load does when it asks; the pages of a cluster return before that *)
(* when there is none (their own Load).                                    *)
Load(key) ==
  /\ asked[key] < MaxAsked
  /\ asked' = [asked EXCEPT ![key] = @ + 1]
  /\ loading' = TRUE
  /\ UNCHANGED <<listed, failed>>

Answered(key) == asked[key] > 0 /\ asked' = [asked EXCEPT ![key] = @ - 1]

Done(key) ==
  /\ Answered(key)
  /\ listed' = key /\ failed' = FALSE /\ loading' = FALSE

Fault_FailedLoading(key) ==
  Answered(key) /\ failed' = TRUE /\ UNCHANGED <<listed, loading>>
Failed(key) ==
  /\ Answered(key)
  /\ failed' = TRUE /\ loading' = FALSE
  /\ UNCHANGED listed
=============================================================================
