------------------------------ MODULE Requests ------------------------------
(***************************************************************************)
(* What clients and taskbars ask for mapped windows, and what they are     *)
(* told: to be minimized (handle_request_minimize of sway/desktop/         *)
(* xwayland.c and xdg_shell.c, the foreign toplevel of sway/tree/view.c),  *)
(* to be activated, and to be urgent, for which a timer may run            *)
(* (view_set_urgent, seat_set_workspace_focus).                            *)
(*                                                                         *)
(* There is one output and a seat; workspaces do not go, as each also      *)
(* holds something that stays.  How windows lie in a workspace is left to  *)
(* Tree.  A window parked in a minimize pool has no workspace; a step that *)
(* the program does not survive sets crash, and is the last one.           *)
(***************************************************************************)
EXTENDS Integers, Sequences, SequencesExt

CONSTANTS Windows, X11, Workspaces,
          Policies,            \* values of focus_on_window_activation to consider
          UrgentTimeouts,      \* of urgent_timeout, in milliseconds
          NIL

RequestsAssumption ==
    /\ X11 \subseteq Windows /\ NIL \notin Windows \union Workspaces
    /\ Windows \intersect Workspaces = {} /\ Workspaces # {}
    /\ Policies \subseteq {"smart", "urgent", "focus", "none"} /\ UrgentTimeouts \subseteq Nat

VARIABLE s

States ==
    [ policy    : Policies, timeout : UrgentTimeouts,
      mapped    : SUBSET Windows,
      ws        : [Windows -> Workspaces \union {NIL}],
      minimized : SUBSET Windows,
      stack     : Seq(Windows),               \* the focus stack
      focus     : Windows \union {NIL},       \* or else the workspace
      shown     : Workspaces,
      urgent    : SUBSET Windows,             \* view->urgent
      timer     : SUBSET Windows,             \* view->urgent_timer
      denied    : SUBSET Windows,             \* not allow_request_urgent
      wsurgent  : SUBSET Workspaces,          \* workspace->urgent
      hint      : SUBSET X11,                 \* told the client that it is minimized
      taskbar   : SUBSET Windows,             \* told taskbars so
      active    : SUBSET Windows,             \* told that it is activated
      crash     : {"no", "urgent without a workspace", "minimized twice"} ]

Init ==
    \E policy \in Policies, timeout \in UrgentTimeouts, x \in Workspaces :
      s = [ policy |-> policy, timeout |-> timeout, mapped |-> {}, ws |-> [w \in Windows |-> NIL],
            minimized |-> {}, stack |-> << >>, focus |-> NIL, shown |-> x, urgent |-> {}, timer |-> {},
            denied |-> {}, wsurgent |-> {}, hint |-> {}, taskbar |-> {}, active |-> {}, crash |-> "no" ]

On(t, x) == {w \in t.mapped : t.ws[w] = x}
FocusedWs(t) == IF t.focus = NIL THEN t.shown ELSE t.ws[t.focus]

(* seat_get_focus_inactive of a workspace. *)
FocusInactive(t, x) ==
    LET there == SelectSeq(t.stack, LAMBDA w : w \in On(t, x))
    IN IF there = << >> THEN x ELSE Head(there)

-----------------------------------------------------------------------------
(* workspace_detect_urgent. *)
DetectUrgent(t, x) ==
    IF x = NIL THEN [t EXCEPT !.crash = "urgent without a workspace"]
    ELSE [t EXCEPT !.wsurgent = IF On(t, x) \intersect t.urgent # {} THEN @ \union {x} ELSE @ \ {x}]

(* Mutant: the timer of a window that is not urgent any more goes on.      *)
SetUrgentTimed(t, w, enable) ==
    IF (w \in t.urgent) = enable \/ (enable /\ t.focus = w) THEN t
    ELSE DetectUrgent([t EXCEPT !.urgent = IF enable THEN @ \union {w} ELSE @ \ {w}], t.ws[w])

(* view_set_urgent. *)
SetUrgent(t, w, enable) ==
    IF (w \in t.urgent) = enable \/ (enable /\ t.focus = w) THEN t
    ELSE DetectUrgent(IF enable THEN [t EXCEPT !.urgent = @ \union {w}]
                      ELSE [t EXCEPT !.urgent = @ \ {w}, !.timer = @ \ {w}],
                      t.ws[w])

(* seat_set_focus of a window or a workspace (seat_set_workspace_focus): a *)
(* window that gets the focus is not minimized as far as it knows, and if  *)
(* it is urgent stays so for a while when the workspace changes with it.   *)
SetFocus(t, n) ==
    LET told == [t EXCEPT !.active = @ \ (IF t.focus = NIL THEN On(t, t.shown) ELSE {t.focus})]
        x == t.ws[n]
        u == [told EXCEPT !.focus = n, !.shown = IF x = NIL THEN @ ELSE x,
                          !.stack = <<n>> \o SelectSeq(@, LAMBDA w : w # n),
                          !.active = @ \union {n}, !.hint = @ \ {n}]
    IN IF n \in Workspaces
         THEN IF t.focus = NIL /\ t.shown = n THEN t ELSE [told EXCEPT !.focus = NIL, !.shown = n]
       ELSE IF t.focus = n THEN t
       ELSE IF n \notin t.urgent \ t.timer THEN u
       ELSE IF x \notin {NIL, t.shown} /\ t.timeout > 0 THEN [u EXCEPT !.timer = @ \union {n}]
       ELSE SetUrgent(u, n, FALSE)

(* workspace_minimized_hide: the focus goes to the workspace it was on. *)
MinimizedHide(t, w) ==
    LET x == t.ws[w]
        parked == [t EXCEPT !.minimized = @ \union {w}, !.ws[w] = NIL]
    IN IF w \in t.minimized THEN [t EXCEPT !.crash = "minimized twice"]
       ELSE [SetFocus(parked, FocusInactive(parked, x))
               EXCEPT !.active = @ \ {w}, !.taskbar = @ \union {w}]

(* workspace_minimized_show: on the focused workspace, if there is one. *)
MinimizedShow(t, w) ==
    IF FocusedWs(t) = NIL THEN t
    ELSE [SetFocus([t EXCEPT !.minimized = @ \ {w}, !.ws[w] = FocusedWs(t)], w)
            EXCEPT !.taskbar = @ \ {w}]

(* view_request_activate. *)
Activate(t, w) ==
    CASE t.policy = "focus" -> SetFocus(t, w)
      [] t.policy = "smart" /\ t.ws[w] = t.shown -> SetFocus(t, w)
      [] t.policy = "none" -> t
      [] OTHER -> SetUrgent(t, w, TRUE)

-----------------------------------------------------------------------------
Becomes(t) == s.crash = "no" /\ s' = t

(* view_map on workspace x; should_focus may say no when there are others  *)
(* (no_focus).  A window that was mapped before may still be urgent.       *)
Map(w, x, takes) ==
    /\ w \notin s.mapped /\ FocusedWs(s) # NIL
    /\ takes => x = FocusedWs(s)
    /\ ~ takes => x # FocusedWs(s) \/ s.mapped # {}
    /\ LET t == [s EXCEPT !.mapped = @ \union {w}, !.ws[w] = x, !.stack = Append(@, w)]
       IN Becomes(IF takes THEN SetFocus(t, w) ELSE t)

(* view_unmap; the focus goes to a neighbour, which a floating window has  *)
(* not, and in any case to something on the workspace.                     *)
Unmap(w, next) ==
    /\ w \in s.mapped /\ next \in (On(s, s.ws[w]) \ {w}) \union {NIL}
    /\ LET gone == [s EXCEPT !.mapped = @ \ {w}, !.minimized = @ \ {w}, !.timer = @ \ {w}, !.ws[w] = NIL,
                             !.taskbar = @ \ {w}, !.active = @ \ {w},
                             !.stack = SelectSeq(@, LAMBDA v : v # w), !.focus = IF @ = w THEN NIL ELSE @]
           t == IF s.focus = w THEN SetFocus(gone, FocusInactive(gone, gone.shown)) ELSE gone
           u == IF next # NIL THEN SetFocus(t, next) ELSE t
       IN Becomes(IF s.ws[w] = NIL THEN u ELSE DetectUrgent(u, s.ws[w]))

(* A click or a command. *)
FocusWindow(w) == w \in s.mapped /\ s.ws[w] # NIL /\ Becomes(SetFocus(s, w))
WorkspaceSwitch(x) == Becomes(SetFocus(s, FocusInactive(s, x)))

(* handle_request_minimize of an X11 window: the client is told what       *)
(* becomes of it, and may not minimize the focused window.                 *)
RequestMinimize(w, minimize) ==
    /\ w \in s.mapped \intersect X11
    /\ LET granted == minimize /\ s.focus # w
           t == [s EXCEPT !.hint = IF granted THEN @ \union {w} ELSE @ \ {w}]
       IN Becomes(IF granted THEN MinimizedHide(t, w)
                  ELSE IF ~ minimize /\ w \in s.minimized THEN MinimizedShow(t, w) ELSE t)

(* ... of a Wayland window, and handle_foreign_minimize_request. *)
Minimize(w) ==
    /\ w \in s.mapped /\ Becomes(IF w \in s.minimized THEN s ELSE MinimizedHide(s, w))
Restore(w) ==
    /\ w \in s.minimized /\ Becomes(MinimizedShow(s, w))

(* handle_foreign_activate_request. *)
TaskbarActivate(w) ==
    /\ w \in s.mapped
    /\ Becomes(SetFocus(IF w \in s.minimized THEN MinimizedShow(s, w) ELSE s, w))

(* handle_request_activate, xdg_activation_v1_handle_request_activate,     *)
(* which without a token of the focused client is view_request_urgent.     *)
RequestActivate(w) == w \in s.mapped /\ Becomes(Activate(s, w))
RequestUrgent(w) ==
    /\ w \in s.mapped /\ Becomes(IF s.policy = "none" THEN s ELSE SetUrgent(s, w, TRUE))

(* handle_set_hints. *)
SetHints(w, urgency) ==
    /\ w \in s.mapped \intersect X11
    /\ Becomes(IF (~ urgency /\ w \in s.timer) \/ w \in s.denied THEN s ELSE SetUrgent(s, w, urgency))

(* cmd_urgent. *)
UrgentCommand(w, how) ==
    /\ w \in s.mapped /\ s.ws[w] # NIL
    /\ Becomes(CASE how = "allow" -> [s EXCEPT !.denied = @ \ {w}]
                 [] how = "deny" -> [s EXCEPT !.denied = @ \union {w}]
                 [] OTHER -> SetUrgent(s, w, how = "enable"))

(* handle_urgent_timeout. *)
UrgentTimeout(w) == w \in s.timer /\ Becomes(SetUrgent(s, w, FALSE))

Next ==
    \/ \E w \in Windows, x \in Workspaces, takes \in BOOLEAN : Map(w, x, takes)
    \/ \E w \in Windows, next \in Windows \union {NIL} : Unmap(w, next)
    \/ \E w \in Windows : FocusWindow(w) \/ Minimize(w) \/ Restore(w) \/ TaskbarActivate(w)
    \/ \E w \in Windows : RequestActivate(w) \/ RequestUrgent(w) \/ UrgentTimeout(w)
    \/ \E w \in Windows, on \in BOOLEAN : RequestMinimize(w, on) \/ SetHints(w, on)
    \/ \E w \in Windows, how \in {"allow", "deny", "enable", "disable"} : UrgentCommand(w, how)
    \/ \E x \in Workspaces : WorkspaceSwitch(x)

Spec == Init /\ [][Next]_s

-----------------------------------------------------------------------------
(* Clients, taskbars and timers are left with the truth, whatever was asked *)
(* and granted before: the taskbars show exactly the parked windows as      *)
(* minimized, only the focused window is told that it is activated, it is  *)
(* not urgent unless the timer that ends its urgency runs, and such a timer *)
(* belongs to a window that is mapped and urgent, so that it neither fires  *)
(* for one that is gone nor holds the urgency of another (view_set_urgent,  *)
(* view_unmap, seat_set_workspace_focus, workspace_minimized_hide).         *)
RequestsTold ==
    /\ s \in States
    /\ s.taskbar = s.minimized
    /\ s.minimized = {w \in s.mapped : s.ws[w] = NIL}
    /\ s.active = {s.focus} \ {NIL}
    /\ s.focus # NIL => s.focus \notin s.urgent \ s.timer
    /\ s.timer \subseteq s.urgent \intersect s.mapped
=============================================================================
