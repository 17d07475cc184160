----------------------------- MODULE AuditPage -----------------------------
(***************************************************************************)
(* AuditPage.tsx: the newest entries of the audit log, read when the page  *)
(* is opened and by its button, and the filters over what was read.  The   *)
(* key of a request (see Listing) is the number of entries the log had     *)
(* when it was read.                                                       *)
(***************************************************************************)
EXTENDS Naturals

CONSTANTS MaxEntries,   (* bound on the log                                  *)
          MaxAsked

(* Assumed where the module is instantiated.                               *)
AuditPageAssumption == MaxEntries \in Nat /\ MaxAsked \in Nat \ {0}

VARIABLES
  entries,                          (* the results of the log, oldest first  *)
  listed, loading, failed, asked,   (* see Listing                           *)
  result                            (* the filter                            *)

Keys == 0..MaxEntries
L == INSTANCE Listing WITH Nothing <- MaxEntries + 1

list  == <<listed, loading, failed, asked>>
avars == <<entries, list, result>>

Results == {"success", "failure"}

TypeOK ==
  /\ entries \in UNION {[1..n -> Results] : n \in Keys}
  /\ L!TypeOK /\ result \in Results \cup {"all"}

Written == CHOOSE n \in Keys : DOMAIN entries = 1..n

Init ==
  /\ entries = [i \in 1..0 |-> "success"] /\ result = "all"
  /\ listed = MaxEntries + 1 /\ loading = TRUE /\ failed = FALSE
  /\ asked = [k \in Keys |-> IF k = 0 THEN 1 ELSE 0]

Refresh == L!Load(Written) /\ UNCHANGED <<entries, result>>

ListAnswered(k) ==
  /\ L!Done(k) \/ L!Failed(k)
  /\ UNCHANGED <<entries, result>>

ChooseResult(value) == result' = value /\ UNCHANGED <<entries, list>>

(* Somebody does something: see AuditLog.                                  *)
Write(value) ==
  /\ Written < MaxEntries
  /\ entries' = [i \in 1..(Written + 1) |-> IF i > Written THEN value ELSE entries[i]]
  /\ UNCHANGED <<list, result>>

Next ==
  \/ Refresh
  \/ \E k \in Keys : ListAnswered(k)
  \/ \E value \in Results \cup {"all"} : ChooseResult(value)
  \/ \E value \in Results : Write(value)

Spec == Init /\ [][Next]_avars

-----------------------------------------------------------------------------
(* The entries on the screen, of those that were read.                     *)
MatchesResult(i) == result = "all" \/ entries[i] = result
Shown == {i \in DOMAIN entries : listed \in Keys /\ i <= listed /\ MatchesResult(i)}

(* The spinner has a request whose answer will end it.                     *)
SpinnersEnd == loading => \E k \in Keys : asked[k] > 0

(* Counterexample: see PagesClaims.cfg.  With the filter as it is, an      *)
(* entry that is on the screen stays there.                                *)
EntriesStay == [][result' = result => Shown \subseteq Shown']_avars
=============================================================================
