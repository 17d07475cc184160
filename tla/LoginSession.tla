---------------------------- MODULE LoginSession ----------------------------
(***************************************************************************)
(* A browser and auth.go: the login form, the cookie, the requests that    *)
(* are sent with it and whose 401 App takes for the end of the session,    *)
(* and the count of failed logins, which each handler checks when it       *)
(* starts and adds to when it has compared the password.                   *)
(*                                                                         *)
(* The handlers of other browsers behind the same address count together.  *)
(***************************************************************************)
EXTENDS Naturals, FiniteSets

CONSTANTS Limit,        (* 5 in the code                                     *)
          Window,       (* 5 minutes, in ticks                               *)
          MaxHandlers,  (* logins that are handled at the same time          *)
          MaxTime, MaxCalls

(* Assumed where the module is instantiated.                               *)
LoginAssumption ==
  /\ {Limit, Window, MaxHandlers, MaxCalls} \subseteq Nat \ {0} /\ MaxTime \in Nat

VARIABLES
  time,
  count, firstAt,   (* loginFailures of the address, count 0 for none        *)
  handlers,         (* logins past the check, of this form and of others     *)
  submitting,       (* the form: "no", "sent", "checked", "ok", "refused"    *)
  authenticated,    (* in App                                                *)
  cookie,           (* "none", "valid" or "over" (expired)                   *)
  leaving,          (* a logout is in flight                                 *)
  calls             (* requests in flight, by the cookie they were sent with *)

auth == <<submitting, authenticated, cookie, leaving, calls>>
lim  == <<count, firstAt, handlers>>
svars == <<time, lim, auth>>

Cookies == {"none", "valid", "over"}

TypeOK ==
  /\ time \in 0..MaxTime /\ count \in Nat /\ firstAt \in 0..MaxTime
  /\ handlers \in 0..MaxHandlers
  /\ submitting \in {"no", "sent", "checked", "ok", "refused"}
  /\ authenticated \in {"unknown", "yes", "no"} /\ cookie \in Cookies
  /\ leaving \in BOOLEAN
  /\ calls \in [Cookies -> 0..MaxCalls]

Init ==
  /\ time = 0 /\ count = 0 /\ firstAt = 0 /\ handlers = 0
  /\ submitting = "no" /\ authenticated = "unknown" /\ cookie \in Cookies
  /\ leaving = FALSE
  /\ calls = [c \in Cookies |-> IF c = cookie THEN 1 ELSE 0]     (* /auth/me *)

-----------------------------------------------------------------------------
(* auth.go.  The window is over Window after its first failure.            *)
Expired == time - firstAt >= Window

Fault_RateLimited == FALSE
RateLimited == count >= Limit /\ ~ Expired

(* rateLimited also forgets what has expired.                              *)
Checked ==
  /\ handlers < MaxHandlers /\ handlers' = handlers + 1
  /\ count' = IF Expired THEN 0 ELSE count
  /\ UNCHANGED firstAt

RecordFailure ==
  /\ handlers > 0 /\ handlers' = handlers - 1
  /\ \/ /\ count = 0 \/ Expired
        /\ count' = 1 /\ firstAt' = time
     \/ /\ count > 0 /\ ~ Expired
        /\ count' = count + 1 /\ UNCHANGED firstAt

ClearFailures ==
  /\ handlers > 0 /\ handlers' = handlers - 1
  /\ count' = 0 /\ UNCHANGED firstAt

BadRequest ==
  /\ handlers > 0 /\ handlers' = handlers - 1
  /\ UNCHANGED <<count, firstAt>>

(* Another browser, or this one's form in another tab.                     *)
OtherChecked == ~ RateLimited /\ Checked /\ UNCHANGED <<time, auth>>
OtherAnswered ==
  /\ handlers > (IF submitting = "checked" THEN 1 ELSE 0)
  /\ RecordFailure \/ ClearFailures \/ BadRequest
  /\ UNCHANGED <<time, auth>>

-----------------------------------------------------------------------------
(* LoginPage: the button is disabled until the answer.                     *)
Submit ==
  /\ authenticated = "no" /\ submitting = "no"
  /\ submitting' = "sent"
  /\ UNCHANGED <<time, lim, authenticated, cookie, leaving, calls>>

LoginChecked ==
  /\ submitting = "sent"
  /\ \/ RateLimited /\ submitting' = "refused" /\ UNCHANGED lim
     \/ ~ RateLimited /\ submitting' = "checked" /\ Checked
  /\ UNCHANGED <<time, authenticated, cookie, leaving, calls>>

LoginCompared ==
  /\ submitting = "checked"
  /\ \/ RecordFailure /\ submitting' = "refused"
     \/ ClearFailures /\ submitting' = "ok"
  /\ UNCHANGED <<time, authenticated, cookie, leaving, calls>>

LoginAnswered ==
  /\ submitting \in {"ok", "refused"} /\ submitting' = "no"
  /\ IF submitting = "ok" THEN authenticated' = "yes" /\ cookie' = "valid"
     ELSE UNCHANGED <<authenticated, cookie>>
  /\ UNCHANGED <<time, lim, leaving, calls>>

-----------------------------------------------------------------------------
(* api.ts: a poll, or anything else the page asks for.                     *)
Call ==
  /\ authenticated = "yes" /\ \A c \in Cookies : calls[c] < MaxCalls
  /\ calls' = [calls EXCEPT ![cookie] = @ + 1]
  /\ UNCHANGED <<time, lim, submitting, authenticated, cookie, leaving>>

(* A 401 signs out; the answer to /auth/me, the first there is, signs in.   *)
Fault_Heed(sentWith) == IF authenticated = "unknown" /\ sentWith = "valid" THEN "yes"
                        ELSE IF authenticated = "unknown" THEN "no" ELSE authenticated
Heed(sentWith) ==
  CASE sentWith # "valid" -> "no"
    [] sentWith = "valid" /\ authenticated = "unknown" -> "yes"
    [] OTHER -> authenticated

CallAnswered(sentWith) ==
  /\ calls[sentWith] > 0
  /\ calls' = [calls EXCEPT ![sentWith] = @ - 1]
  /\ authenticated' = Heed(sentWith)
  /\ UNCHANGED <<time, lim, submitting, cookie, leaving>>

(* The button: App signs out when the answer comes, or fails to come.      *)
Logout ==
  /\ authenticated = "yes" /\ ~ leaving
  /\ leaving' = TRUE
  /\ UNCHANGED <<time, lim, submitting, authenticated, cookie, calls>>

LogoutAnswered ==
  /\ leaving /\ leaving' = FALSE
  /\ authenticated' = "no" /\ cookie' = "none"
  /\ UNCHANGED <<time, lim, submitting, calls>>

LogoutFailed ==
  /\ leaving /\ leaving' = FALSE
  /\ authenticated' = "no"
  /\ UNCHANGED <<time, lim, submitting, cookie, calls>>

(* Of the requests in flight the server has handled some before.           *)
SessionExpires(late) ==
  /\ cookie = "valid" /\ cookie' = "over"
  /\ late <= calls["valid"] /\ calls["over"] + late <= MaxCalls
  /\ calls' = [calls EXCEPT !["valid"] = @ - late, !["over"] = @ + late]
  /\ UNCHANGED <<time, lim, submitting, authenticated, leaving>>

Tick ==
  /\ time < MaxTime /\ time' = time + 1
  /\ UNCHANGED <<lim, auth>>

Next ==
  \/ OtherChecked \/ OtherAnswered
  \/ Submit \/ LoginChecked \/ LoginCompared \/ LoginAnswered
  \/ Call \/ (\E c \in Cookies : CallAnswered(c))
  \/ Logout \/ LogoutAnswered \/ LogoutFailed
  \/ (\E late \in 0..MaxCalls : SessionExpires(late))
  \/ Tick

Spec == Init /\ [][Next]_svars

(* The poll of the dashboard goes on, and its requests are answered.       *)
FairSpec ==
  /\ Spec
  /\ WF_svars(Call) /\ \A c \in Cookies : WF_svars(CallAnswered(c))

-----------------------------------------------------------------------------
(* The check and the count are two steps: of the logins handled at a time  *)
(* all may pass before the first is counted, and no more than that.        *)
FailuresBounded == count + handlers <= Limit + MaxHandlers - 1

(* A session that is over does not leave its page on the screen.           *)
EndIsNoticed ==
  authenticated = "yes" /\ cookie # "valid" ~> authenticated # "yes" \/ cookie = "valid"

(* Counterexamples: see PagesClaims.cfg.                                   *)

(* Who is signed in and has not asked to leave stays, as long as his        *)
(* session is valid.                                                        *)
LoginLasts ==
  [][authenticated = "yes" /\ authenticated' = "no" /\ cookie = "valid" => leaving]_svars
(* Who has signed out is asked for a password when the page is opened.     *)
LogoutLasts == [][leaving /\ ~ leaving' => cookie' = "none"]_svars
=============================================================================
