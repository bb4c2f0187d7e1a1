------------------------------ MODULE TextInput ------------------------------
(***************************************************************************)
(* The relay between the text inputs of the clients and the input method   *)
(* of a seat, with the popups of the input method                          *)
(* (sway/input/text_input.c).                                              *)
(*                                                                         *)
(* The seat tells the relay where it puts the keyboard.  It does not when  *)
(* the focus goes to a workspace: the relay is then left where it was, and *)
(* the surface may go before it is told anything (seat_set_workspace_focus *)
(* calls the relay for no node, and seat_send_focus for a view).           *)
(* The text itself, the geometry of the popups and what the input method   *)
(* sends back are left out.                                                *)
(***************************************************************************)
EXTENDS Integers, Sequences, SequencesExt, FiniteSets

CONSTANTS Surfaces, LockSurfaces, TextInputs, Popups, NIL,
          ClientOf              \* of a surface, and of a text input

TextInputAssumption ==
    LockSurfaces \subseteq Surfaces /\ NIL \notin Surfaces \union TextInputs

VARIABLE s

Maybe == Surfaces \union {NIL}

(* entered is wlr_text_input_v3::focused_surface, pending the              *)
(* pending_focused_surface of the relay; shown is what the desc.relative   *)
(* of a popup belongs to, watch where its focused_surface_unmap listens.   *)
States ==
    [ mapped   : SUBSET Surfaces,
      told     : Maybe,                         \* history: the relay's last focus
      inputs   : Seq(TextInputs),               \* the newest first
      entered  : [TextInputs -> Maybe],
      pending  : [TextInputs -> Maybe],
      enabled  : [TextInputs -> BOOLEAN],
      im       : {"none", "inactive", "active"},
      stranded : BOOLEAN,                       \* history: activated for a surface that is gone
      popups   : SUBSET Popups,
      shown    : [Popups -> Maybe],
      watch    : [Popups -> Maybe],
      orphaned : BOOLEAN,                       \* history: shown for a text input that is gone
      crash    : {"no", "assertion", "no text input", "no container"} ]

Init == s = [ mapped |-> {}, told |-> NIL, inputs |-> << >>,
              entered |-> [i \in TextInputs |-> NIL], pending |-> [i \in TextInputs |-> NIL],
              enabled |-> [i \in TextInputs |-> FALSE], im |-> "none", stranded |-> FALSE,
              popups |-> {}, shown |-> [p \in Popups |-> NIL], watch |-> [p \in Popups |-> NIL],
              orphaned |-> FALSE, crash |-> "no" ]

Becomes(t) == s.crash = "no" /\ s' = t

-----------------------------------------------------------------------------
(* relay_get_focused_text_input and relay_get_focusable_text_input.        *)
FirstOf(t, Test(_)) ==
    LET found == SelectSeq(t.inputs, Test) IN IF found = << >> THEN NIL ELSE Head(found)
Focused(t) == FirstOf(t, LAMBDA i : t.entered[i] # NIL)
Focusable(t) == FirstOf(t, LAMBDA i : t.pending[i] # NIL)
FocusedSurface(t) == IF Focused(t) = NIL THEN NIL ELSE t.entered[Focused(t)]

(* input_popup_set_focus: over a lock surface there are no popups; where a *)
(* window was unmapped its container is looked for.                        *)
PopupSetFocus(t, P, x) ==
    LET on == IF x \in LockSurfaces THEN NIL ELSE x
    IN IF P # {} /\ on # NIL /\ on \notin t.mapped THEN [t EXCEPT !.crash = "no container"]
       ELSE [t EXCEPT !.shown = [p \in Popups |-> IF p \in P THEN on ELSE @[p]],
                      !.watch = [p \in Popups |-> IF p \in P THEN x ELSE @[p]]]

(* Mutant: the popups are left where they are.                             *)
SendImStateOnly(t) == t

(* relay_send_im_state. *)
SendImState(t) == IF t.im = "none" THEN t ELSE PopupSetFocus(t, t.popups, FocusedSurface(t))

(* relay_disable_text_input. *)
DisableTextInput(t) ==
    IF t.im = "none" THEN t ELSE SendImState([t EXCEPT !.im = "inactive", !.stranded = FALSE])

(* sway_input_method_relay_set_focus, for one text input.                  *)
Leave(t, i, x) ==
    IF t.pending[i] # NIL THEN (IF x = t.pending[i] THEN t ELSE [t EXCEPT !.pending[i] = NIL])
    ELSE IF t.entered[i] # NIL THEN DisableTextInput([t EXCEPT !.entered[i] = NIL])
    ELSE t
Enter(t, i, x) ==
    IF x = NIL \/ ClientOf[i] # ClientOf[x] THEN t
    ELSE IF t.im # "none" THEN [t EXCEPT !.entered[i] = x] ELSE [t EXCEPT !.pending[i] = x]
SetFocusOf(t, i, x) ==
    IF t.crash # "no" THEN t
    ELSE IF t.pending[i] # NIL /\ t.entered[i] # NIL THEN [t EXCEPT !.crash = "assertion"]
    ELSE IF t.entered[i] # NIL /\ t.entered[i] = x THEN t
    ELSE Enter(Leave(t, i, x), i, x)
RelaySetFocus(t, x) ==
    FoldLeft(LAMBDA u, i : SetFocusOf(u, i, x), [t EXCEPT !.told = x], t.inputs)

-----------------------------------------------------------------------------
(* The seat: the keyboard goes to a surface, or nowhere.                   *)
SetFocus(x) == x \in s.mapped \union {NIL} /\ Becomes(RelaySetFocus(s, x))

SurfaceMap(x) == x \notin s.mapped /\ Becomes([s EXCEPT !.mapped = @ \union {x}])

(* handle_im_focused_surface_unmap; then the focus goes to another window  *)
(* or, untold, to the workspace.                                           *)
SurfaceUnmap(x) ==
    /\ x \in s.mapped
    /\ LET t == PopupSetFocus([s EXCEPT !.mapped = @ \ {x}], {p \in s.popups : s.watch[p] = x}, NIL)
       IN Becomes(t) \/ (s.told = x /\ \E y \in t.mapped : Becomes(RelaySetFocus(t, y)))

(* A text input forgets a surface that is destroyed, and the relay one     *)
(* that is pending (handle_pending_focused_surface_destroy).               *)
Forget(f, x) == [i \in TextInputs |-> IF f[i] = x THEN NIL ELSE f[i]]
SurfaceDestroy(x) ==
    /\ x \notin s.mapped /\ s.told = x
    /\ Becomes([s EXCEPT !.entered = Forget(@, x), !.pending = Forget(@, x), !.told = NIL,
                         !.stranded = @ \/ s.im = "active"])

-----------------------------------------------------------------------------
(* The text inputs (sway_text_input_create and the handlers of their       *)
(* events).                                                                *)
NewTextInput(i) == i \notin Range(s.inputs) /\ Becomes([s EXCEPT !.inputs = <<i>> \o @])

TextInputEnable(i) ==
    /\ i \in Range(s.inputs) /\ ~s.enabled[i]
    /\ LET t == [s EXCEPT !.enabled[i] = TRUE]
       IN Becomes(IF s.entered[i] = NIL \/ s.im = "none" THEN t
                  ELSE SendImState([t EXCEPT !.im = "active", !.stranded = FALSE]))

TextInputCommit(i) ==
    i \in Range(s.inputs) /\ s.enabled[i] /\ s.entered[i] # NIL /\ Becomes(SendImState(s))

TextInputDisable(i) ==
    /\ i \in Range(s.inputs) /\ s.enabled[i]
    /\ LET t == [s EXCEPT !.enabled[i] = FALSE]
       IN Becomes(IF s.entered[i] = NIL THEN t ELSE DisableTextInput(t))

TextInputDestroy(i) ==
    /\ i \in Range(s.inputs)
    /\ LET t == IF s.enabled[i] THEN DisableTextInput(s) ELSE s
       IN Becomes([t EXCEPT !.inputs = SelectSeq(@, LAMBDA j : j # i), !.enabled[i] = FALSE,
                            !.entered[i] = NIL, !.pending[i] = NIL,
                            !.orphaned = @ \/ (s.entered[i] # NIL)])

-----------------------------------------------------------------------------
(* The input method (relay_handle_input_method, handle_im_destroy); a      *)
(* second one is refused.                                                  *)
NewInputMethod ==
    /\ s.im = "none"
    /\ LET i == Focusable(s)
           t == [s EXCEPT !.im = "inactive"]
       IN Becomes(IF i = NIL THEN t
                  ELSE PopupSetFocus([t EXCEPT !.entered[i] = s.pending[i], !.pending[i] = NIL],
                                     t.popups, s.pending[i]))

InputMethodDestroy ==
    /\ s.im # "none"
    /\ LET i == Focused(s)
           t == [PopupSetFocus(s, s.popups, NIL) EXCEPT !.popups = {}, !.im = "none",
                                                        !.stranded = FALSE, !.orphaned = FALSE]
       IN Becomes(IF i = NIL THEN t
                  ELSE [t EXCEPT !.pending[i] = s.entered[i], !.entered[i] = NIL])

(* handle_im_new_popup_surface, handle_im_popup_surface_map; _unmap,       *)
(* _commit with constrain_popup, and _destroy.                             *)
NewPopup(p) ==
    s.im # "none" /\ Becomes(PopupSetFocus([s EXCEPT !.popups = @ \union {p}], {p}, FocusedSurface(s)))
PopupUnmap(p) == p \in s.popups /\ Becomes(PopupSetFocus(s, {p}, NIL))
PopupCommit(p) ==
    /\ p \in s.popups /\ s.shown[p] # NIL /\ Focused(s) = NIL
    /\ Becomes([s EXCEPT !.crash = "no text input"])
PopupDestroy(p) ==
    p \in s.popups /\ Becomes([PopupSetFocus(s, {p}, NIL) EXCEPT !.popups = @ \ {p}])

Next ==
    \/ \E x \in Maybe : SetFocus(x)
    \/ \E x \in Surfaces : SurfaceMap(x) \/ SurfaceUnmap(x) \/ SurfaceDestroy(x)
    \/ \E i \in TextInputs : \/ NewTextInput(i) \/ TextInputEnable(i) \/ TextInputCommit(i)
                             \/ TextInputDisable(i) \/ TextInputDestroy(i)
    \/ NewInputMethod \/ InputMethodDestroy
    \/ \E p \in Popups : NewPopup(p) \/ PopupUnmap(p) \/ PopupCommit(p) \/ PopupDestroy(p)

Spec == Init /\ [][Next]_s

-----------------------------------------------------------------------------
(* The text inputs of a client are entered, or wait for an input method,   *)
(* only where the relay was last told the keyboard is; the input method is *)
(* active only for an enabled text input that is entered, and its popups   *)
(* are over the surface of one, unless that surface, or the text input,    *)
(* was destroyed under it.  The relay's assertion can only fail for a      *)
(* client with several text inputs (sway_input_method_relay_set_focus).    *)
ImeServesTheFocused ==
    /\ s \in States
    /\ \A i \in TextInputs : s.entered[i] # NIL /\ s.pending[i] # NIL =>
         \E j \in TextInputs \ {i} : ClientOf[i] = ClientOf[j]
    /\ s.crash = "no" =>
         /\ \A i \in TextInputs : {s.entered[i], s.pending[i]} \subseteq {NIL, s.told}
         /\ s.im = "active" =>
              s.stranded \/ \E i \in Range(s.inputs) : s.enabled[i] /\ s.entered[i] # NIL
         /\ \A p \in s.popups :
              s.shown[p] # NIL => s.orphaned \/ \E i \in Range(s.inputs) : s.entered[i] = s.shown[p]
=============================================================================
