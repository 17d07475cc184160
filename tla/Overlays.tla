------------------------------ MODULE Overlays ------------------------------
(***************************************************************************)
(* The effects of Dialog and Drawer in Common.tsx.  Each overlay locks the *)
(* page behind it, takes the focus, and on cleanup puts back what it found.*)
(* The effect runs again whenever its onClose is a new function, that is   *)
(* with every render of the component that writes it inline: React then    *)
(* runs all cleanups first and all effects after them, in the order of the *)
(* components.                                                             *)
(***************************************************************************)
EXTENDS Naturals, Sequences, SequencesExt

VARIABLES
  open,       (* the overlays that are mounted, in the order of the tree:    *)
              (* "drawer", "dialog"                                          *)
  disabled,   (* closeDisabled of the dialog                                 *)
  body,       (* document.body.style.overflow: "" or "hidden"                *)
  found,      (* oldOverflow of each overlay's effect                        *)
  focus,      (* the page, an overlay's first element, or its field          *)
  previous    (* what had the focus when each effect ran                     *)

Overlay == {"drawer", "dialog"}
Page    == <<>>
Places  == {Page} \cup Overlay \X {"first", "field"}
ovars   == <<open, disabled, body, found, focus, previous>>

TypeOK ==
  /\ open \in {<<>>, <<"drawer">>, <<"dialog">>, <<"drawer", "dialog">>}
  /\ disabled \in BOOLEAN
  /\ body \in {"", "hidden"} /\ found \in [Overlay -> {"", "hidden"}]
  /\ focus \in Places /\ previous \in [Overlay -> Places]

Init ==
  /\ open = <<>> /\ disabled = FALSE
  /\ body = "" /\ found = [o \in Overlay |-> ""]
  /\ focus = Page /\ previous = [o \in Overlay |-> Page]

-----------------------------------------------------------------------------
Screen == [open |-> open, body |-> body, found |-> found, focus |-> focus,
           previous |-> previous]

(* What is gone from the document cannot be given the focus.               *)
Present(s, place) == place = Page \/ Contains(s.open, place[1])

Fault_Cleanup(s, o) == [s EXCEPT !.body = ""]
Cleanup(s, o) ==
  [s EXCEPT !.body = s.found[o],
            !.focus = IF Present(s, s.previous[o]) THEN s.previous[o] ELSE @]

Effect(s, o) ==
  [s EXCEPT !.found[o] = s.body, !.previous[o] = s.focus, !.body = "hidden",
            !.focus = <<o, "first">>]

Cleanups(s, overlays) == FoldLeft(Cleanup, s, overlays)
Effects(s, overlays) == FoldLeft(Effect, s, overlays)

Show(s) ==
  /\ open' = s.open /\ body' = s.body /\ found' = s.found
  /\ focus' = s.focus /\ previous' = s.previous

(* The focus of what is removed from the document goes to the page.        *)
Removed(s, rest) ==
  LET left == [s EXCEPT !.open = rest]
  IN IF Present(left, left.focus) THEN left ELSE [left EXCEPT !.focus = Page]

-----------------------------------------------------------------------------
(* Alone, with a field or without, or over the drawer (reset), with one.   *)
(* React gives the focus to a field with autoFocus before the effect runs. *)
OpenDialog(field) ==
  LET mounted == [Screen EXCEPT !.open = Append(open, "dialog")]
  IN /\ \/ open = <<>>
        \/ open = <<"drawer">> /\ field
     /\ Show(Effect(IF field THEN [mounted EXCEPT !.focus = <<"dialog", "field">>]
                             ELSE mounted, "dialog"))
     /\ disabled' = FALSE

OpenDrawer ==
  /\ open = <<>>
  /\ Show(Effect([Screen EXCEPT !.open = <<"drawer">>], "drawer"))
  /\ UNCHANGED disabled

(* Cancel, the button, the scrim, or Escape if there is no drawer: nothing  *)
(* of it is heeded by a dialog that waits for an answer.  A dialog is the   *)
(* last that is open.                                                       *)
CloseDialog ==
  /\ Contains(open, "dialog") /\ ~ disabled
  /\ Show(Cleanup(Removed(Screen, Front(open)), "dialog"))
  /\ UNCHANGED disabled

(* The drawer goes with the dialog it owns: Escape, which both hear, or a   *)
(* reset that is done.                                                      *)
CloseDrawer ==
  /\ Contains(open, "drawer")
  /\ Show(Cleanups(Removed(Screen, <<>>), open))
  /\ disabled' = FALSE

(* The submit button of the dialog, and an answer that leaves it open.      *)
Pending ==
  /\ Contains(open, "dialog")
  /\ disabled' = ~ disabled
  /\ Show(Effects(Cleanups(Screen, <<"dialog">>), <<"dialog">>))

(* App renders, because a poll of the dashboard is answered: every onClose  *)
(* written inline is a new function.                                        *)
AppRenders ==
  /\ open # <<>>
  /\ Show(Effects(Cleanups(Screen, open), open))
  /\ UNCHANGED disabled

TypeInField(o) ==
  /\ Contains(open, o) /\ o = Last(open)
  /\ focus' = <<o, "field">>
  /\ UNCHANGED <<open, disabled, body, found, previous>>

Next ==
  \/ \E field \in BOOLEAN : OpenDialog(field)
  \/ OpenDrawer \/ CloseDialog \/ CloseDrawer \/ Pending \/ AppRenders
  \/ \E o \in Overlay : TypeInField(o)

Spec == Init /\ [][Next]_ovars

-----------------------------------------------------------------------------
(* However often the effects run again and whichever overlay goes first,   *)
(* the page behind an overlay that is open does not scroll.                *)
PageBehindIsLocked == open # <<>> => body = "hidden"

(* Counterexamples: see PagesClaims.cfg.                                   *)

(* With no overlay open the page scrolls again.                            *)
ScrollIsRestored == open = <<>> => body = ""
(* A render of App leaves the field that is being typed in its focus.      *)
FocusIsKept == [][AppRenders => focus' = focus]_ovars
(* A dialog that is closed gives the focus back to the drawer below it.    *)
FocusComesBack ==
  [][CloseDialog /\ open' = <<"drawer">> => focus' # Page]_ovars
=============================================================================
