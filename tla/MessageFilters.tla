--------------------------- MODULE MessageFilters ---------------------------
(***************************************************************************)
(* message-filters.ts, MessageFilterPanel, and the effect of MessagesPage  *)
(* that keeps the filters in the address, so that a link asks the server   *)
(* for the same records.  The page reads the address once, when it is      *)
(* mounted; App may write another under it.                                *)
(*                                                                         *)
(* A text is one of four: empty, blank, a word, and that word with blanks  *)
(* around it.  Numbers are counted in halves, so that an odd one has a     *)
(* fraction: the panel takes fractions, the address is read without them.  *)
(***************************************************************************)
EXTENDS Integers, Sequences, SequencesExt

CONSTANTS Texts, Operators, JSONOperators,
          Typed,            (* numbers somebody types, in halves             *)
          MaxConditions,    (* 5 in the code                                 *)
          MaxScan,          (* 50000                                         *)
          DefaultScan,      (* 5000                                          *)
          None

Condition == [path : Texts, operator : JSONOperators, value : Texts]

(* Assumed where the module is instantiated.                               *)
FiltersAssumption ==
  /\ {"", "x"} \subseteq Texts /\ Texts \subseteq {"", " ", "x", " x "}
  /\ "contains" \in Operators /\ "eq" \in JSONOperators
  /\ Typed \subseteq Int /\ MaxConditions \in Nat \ {0}
  /\ MaxScan \in Nat /\ DefaultScan \in 1..MaxScan
  /\ None \notin Texts /\ None \notin Int /\ None \notin Seq(Condition)

VARIABLES filters,   (* what the panel holds                                 *)
          address,   (* the filter parameters of the address                 *)
          own        (* that the page read or wrote them itself              *)

fvars == <<filters, address, own>>

Filters == [keyFilter : Texts, keyOperator : Operators,
            valueFilter : Texts, valueOperator : Operators,
            scanLimit : 2..(2 * MaxScan), jsonFilters : BoundedSeq(Condition, MaxConditions)]

TypeOK == filters \in Filters /\ own \in BOOLEAN

DefaultFilters ==
  [keyFilter |-> "", keyOperator |-> "contains", valueFilter |-> "",
   valueOperator |-> "contains", scanLimit |-> 2 * DefaultScan, jsonFilters |-> <<>>]

-----------------------------------------------------------------------------
Trim(text) == IF text \in {"", " "} THEN "" ELSE "x"

(* The filter of an array: what is in a set stays, in its order.           *)
Kept(list, set) ==
  LET upTo[i \in 0..Len(list)] ==
        IF i = 0 THEN <<>>
        ELSE IF list[i] \in set THEN Append(upTo[i - 1], list[i]) ELSE upTo[i - 1]
  IN upTo[Len(list)]

SerializableJSONFilters(list) ==
  LET named == Kept(list, {c \in Condition : Trim(c.path) # ""})
  IN [i \in DOMAIN named |-> [named[i] EXCEPT !.path = Trim(@)]]

(* The parameters, None for one that is left out.                          *)
FilterQueryParams(f) ==
  LET json == SerializableJSONFilters(f.jsonFilters)
      key == Trim(f.keyFilter)
      value == Trim(f.valueFilter)
  IN [keyFilter |-> IF key = "" THEN None ELSE key,
      keyOperator |-> IF key = "" THEN None ELSE f.keyOperator,
      valueFilter |-> IF value = "" THEN None ELSE value,
      valueOperator |-> IF value = "" THEN None ELSE f.valueOperator,
      jsonFilters |-> IF json = <<>> THEN None ELSE json,
      scanLimit |-> IF key = "" /\ value = "" /\ json = <<>> THEN None ELSE f.scanLimit]

Clamped(n) == IF n < 2 THEN 2 ELSE IF n > 2 * MaxScan THEN 2 * MaxScan ELSE n
Floor(n) == 2 * (n \div 2)

Fault_ParseMessageFilters(a) ==
  LET json == IF a.jsonFilters = None THEN <<>> ELSE a.jsonFilters
      first == SubSeq(json, 1, IF Len(json) < MaxConditions THEN Len(json)
                               ELSE MaxConditions - 1)
  IN [keyFilter |-> IF a.keyFilter = None THEN "" ELSE a.keyFilter,
      keyOperator |-> IF a.keyOperator \in Operators THEN a.keyOperator ELSE "contains",
      valueFilter |-> IF a.valueFilter = None THEN "" ELSE a.valueFilter,
      valueOperator |-> IF a.valueOperator \in Operators THEN a.valueOperator ELSE "contains",
      scanLimit |-> IF a.scanLimit = None THEN 2 * DefaultScan
                    ELSE Clamped(Floor(a.scanLimit)),
      jsonFilters |-> Kept(first, Condition)]
ParseMessageFilters(a) ==
  LET json == IF a.jsonFilters = None THEN <<>> ELSE a.jsonFilters
      first == SubSeq(json, 1, IF Len(json) < MaxConditions THEN Len(json) ELSE MaxConditions)
  IN [keyFilter |-> IF a.keyFilter = None THEN "" ELSE a.keyFilter,
      keyOperator |-> IF a.keyOperator \in Operators THEN a.keyOperator ELSE "contains",
      valueFilter |-> IF a.valueFilter = None THEN "" ELSE a.valueFilter,
      valueOperator |-> IF a.valueOperator \in Operators THEN a.valueOperator ELSE "contains",
      scanLimit |-> IF a.scanLimit = None \/ a.scanLimit <= 0 THEN 2 * DefaultScan
                    ELSE Clamped(Floor(a.scanLimit)),
      jsonFilters |-> Kept(first, Condition)]

NoParams == FilterQueryParams(DefaultFilters)

-----------------------------------------------------------------------------
(* The effect of [filters]: the page writes the address after every change. *)
SetFilters(f) ==
  /\ filters' = f
  /\ address' = FilterQueryParams(f) /\ own' = TRUE

Init ==
  /\ filters = DefaultFilters /\ address = NoParams /\ own = TRUE

EditText(text, operator) ==
  \/ SetFilters([filters EXCEPT !.keyFilter = text, !.keyOperator = operator])
  \/ SetFilters([filters EXCEPT !.valueFilter = text, !.valueOperator = operator])

(* Typed outside the form, so nothing but the clamp is applied.            *)
EditScanLimit(n) == SetFilters([filters EXCEPT !.scanLimit = Clamped(n)])

AddJSON ==
  /\ Len(filters.jsonFilters) < MaxConditions
  /\ SetFilters([filters EXCEPT !.jsonFilters =
                   Append(@, [path |-> "", operator |-> "eq", value |-> ""])])

UpdateJSON(i, condition) ==
  /\ i \in DOMAIN filters.jsonFilters
  /\ SetFilters([filters EXCEPT !.jsonFilters[i] = condition])

RemoveJSON(i) ==
  /\ i \in DOMAIN filters.jsonFilters
  /\ SetFilters([filters EXCEPT !.jsonFilters = RemoveAt(@, i)])

Clear == SetFilters(DefaultFilters)

(* Links that were typed or have become stale.                             *)
Strange ==
  {[NoParams EXCEPT !.keyFilter = "x", !.keyOperator = "regex"],
   [NoParams EXCEPT !.scanLimit = 2 * (MaxScan + 1)],
   [NoParams EXCEPT !.scanLimit = 2 * MaxScan + 1],
   [NoParams EXCEPT !.scanLimit = 0], [NoParams EXCEPT !.scanLimit = 1],
   [NoParams EXCEPT !.jsonFilters =
      [i \in 1..(MaxConditions + 1) |-> [path |-> "x", operator |-> "eq", value |-> ""]]],
   [NoParams EXCEPT !.jsonFilters =
      <<[path |-> "x", operator |-> "bad", value |-> ""]>>]}

(* The page is mounted with the address it finds, its own after a reload.  *)
Open(link) == SetFilters(ParseMessageFilters(link))

(* App goes to another cluster, or another entry of the history, and the   *)
(* page stays: the new address has no parameters, or older ones.           *)
NavigatedTo(params) ==
  /\ params # address
  /\ address' = params /\ own' = FALSE
  /\ UNCHANGED filters

Next ==
  \/ \E t \in Texts, o \in Operators : EditText(t, o)
  \/ \E n \in Typed : EditScanLimit(n)
  \/ \E i \in 1..MaxConditions : RemoveJSON(i) \/ \E c \in Condition : UpdateJSON(i, c)
  \/ \E link \in Strange \cup {address} : Open(link)
  \/ \E params \in {NoParams, [NoParams EXCEPT !.keyFilter = "x"]} : NavigatedTo(params)
  \/ AddJSON \/ Clear

Spec == Init /\ [][Next]_fvars

-----------------------------------------------------------------------------
Whole(params) ==
  [params EXCEPT !.scanLimit = IF params.scanLimit = None THEN None ELSE Floor(params.scanLimit)]

(* Whoever opens the link of the page, after any edits and whatever link   *)
(* they began with, asks the server what the page asks: exactly that,      *)
(* except that a scan limit with a fraction has lost it.                   *)
SharedLinkAsksSame ==
  own => FilterQueryParams(ParseMessageFilters(address)) = Whole(FilterQueryParams(filters))

(* Counterexamples: see PagesClaims.cfg.                                   *)

(* The same, also after App has navigated under the page.                  *)
LinkAlwaysAsksSame ==
  FilterQueryParams(ParseMessageFilters(address)) = Whole(FilterQueryParams(filters))
(* The link asks exactly what the page asks.  Of a page that asks for 2.5  *)
(* records, which the server takes for its default, it asks for 2.         *)
FractionsAreShared ==
  own => FilterQueryParams(ParseMessageFilters(address)) = FilterQueryParams(filters)
=============================================================================
