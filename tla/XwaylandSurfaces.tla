-------------------------- MODULE XwaylandSurfaces --------------------------
(***************************************************************************)
(* The windows of X11 clients (sway/desktop/xwayland.c): each is managed,  *)
(* and then a view, or overrides redirection, like a menu, and is drawn    *)
(* where it wants.  The X server may turn one kind into the other at any   *)
(* time; the Wayland surface of a window is associated after the window is *)
(* made and may go before it.  An unmanaged window may take the keyboard   *)
(* from the focused view, and gives it back when it is unmapped.           *)
(*                                                                         *)
(* All views are on one workspace, each in a column of its own; layers,    *)
(* the lock screen and allocation failures are left out, and what windows  *)
(* ask for once they are mapped is in Requests.                            *)
(***************************************************************************)
EXTENDS Sequences, SequencesExt

CONSTANTS Windows,
          ParentOf,        \* WM_TRANSIENT_FOR, or NIL
          WantFocus,       \* wlr_xwayland_surface_override_redirect_wants_focus
          ProcessOf, NIL

XwaylandAssumption ==
    /\ NIL \notin Windows /\ WantFocus \subseteq Windows
    /\ ParentOf \in [Windows -> Windows \union {NIL}]

VARIABLE s

(* What a window's object listens to: the X11 window, its surface, and     *)
(* what only a mapped one has.                                             *)
Links == {"window", "surface", "commit", "surface_tree", "set_geometry"}
States ==
    [ kind     : [Windows -> {NIL, "view", "unmanaged"}],   \* the object sway keeps for it
      override : [Windows -> BOOLEAN],                      \* override_redirect
      surface  : [Windows -> {NIL, "unmapped", "mapped"}],
      links    : [Windows -> SUBSET Links],
      stack    : Seq(Windows),       \* mapped views, the focused one first
      keyboard : Windows \union {NIL},
      returned : BOOLEAN,            \* it was given back to a parent
      broken   : BOOLEAN ]           \* a link was removed that was in no list, or freed in one

Init ==
    s = [ kind |-> [w \in Windows |-> NIL], override |-> [w \in Windows |-> FALSE],
          surface |-> [w \in Windows |-> NIL], links |-> [w \in Windows |-> {}], stack |-> << >>,
          keyboard |-> NIL, returned |-> FALSE, broken |-> FALSE ]

(* wl_signal_add, wl_list_remove, and free. *)
Linked(t, w, new) == [t EXCEPT !.links[w] = @ \union new]
Unlinked(t, w, old) ==
    [t EXCEPT !.links[w] = @ \ old, !.broken = @ \/ ~ old \subseteq t.links[w]]
Freed(t, w) == [t EXCEPT !.kind[w] = NIL, !.broken = @ \/ t.links[w] # {}]

-----------------------------------------------------------------------------
(* seat_set_focus_surface, and seat_set_focus of a view: the one that has  *)
(* the focus does not get the keyboard again.                              *)
SetFocusSurface(t, w) == [t EXCEPT !.keyboard = w, !.returned = FALSE]
SetFocus(t, v) ==
    IF t.stack # << >> /\ Head(t.stack) = v THEN t
    ELSE [SetFocusSurface(t, v) EXCEPT !.stack = <<v>> \o SelectSeq(@, LAMBDA u : u # v)]

(* seat_set_focus(NULL), then of what was focused before, or its workspace. *)
FocusAgain(t) == SetFocusSurface(t, IF t.stack = << >> THEN NIL ELSE Head(t.stack))

(* view_unmap: with the focused view gone (handle_seat_node_destroy), or   *)
(* another, the focus goes to a view beside it.  When there is none, it is *)
(* left to the workspace, and the keyboard where it is.                    *)
ViewUnmap(t, w, next) ==
    LET left == [t EXCEPT !.stack = SelectSeq(@, LAMBDA u : u # w)]
        gone == IF Head(t.stack) = w THEN FocusAgain(left) ELSE left
    IN IF left.stack = << >> THEN left ELSE SetFocus(gone, next)

(* handle_map, unmanaged_handle_map. *)
HandleMap(t, w) ==
    IF t.kind[w] = "view" THEN SetFocus(Linked(t, w, {"commit", "surface_tree"}), w)
    ELSE LET shown == Linked(t, w, {"set_geometry"})
         IN IF w \in WantFocus THEN SetFocusSurface(shown, w) ELSE shown

(* handle_unmap, unmanaged_handle_unmap. *)
HandleUnmap(t, w, next) ==
    LET hidden == Unlinked(t, w, {"set_geometry"})
        p == ParentOf[w]
    IN IF t.kind[w] = "view" THEN ViewUnmap(Unlinked(t, w, {"commit", "surface_tree"}), w, next)
       ELSE IF t.keyboard # w THEN hidden
       ELSE IF p # NIL /\ t.surface[p] # NIL /\ p \in WantFocus
         THEN [SetFocusSurface(hidden, p) EXCEPT !.returned = TRUE]
       ELSE FocusAgain(hidden)

(* handle_associate and handle_dissociate, of either kind. *)
HandleAssociate(t, w) == Linked(t, w, {"surface"})
HandleDissociate(t, w) == Unlinked(t, w, {"surface"})

(* create_xwayland_view, create_unmanaged. *)
Create(t, w) ==
    Linked([t EXCEPT !.kind[w] = IF t.override[w] THEN "unmanaged" ELSE "view"], w, {"window"})

(* handle_destroy, unmanaged_handle_destroy. *)
HandleDestroy(t, w) == Freed(Unlinked(t, w, {"window"}), w)

(* Mutant: the surface is let go only when the window was mapped.          *)
LetGoMapped(t, w, next) ==
    IF t.surface[w] = "mapped" THEN HandleDissociate(HandleUnmap(t, w, next), w) ELSE t

(* The surface of the old object, for handle_override_redirect. *)
LetGo(t, w, next) ==
    LET u == IF t.surface[w] = "mapped" THEN HandleUnmap(t, w, next) ELSE t
    IN IF t.surface[w] # NIL THEN HandleDissociate(u, w) ELSE u

(* handle_override_redirect, unmanaged_handle_override_redirect. *)
HandleOverrideRedirect(t, w, next) ==
    LET made == Create(HandleDestroy(LetGo(t, w, next), w), w)
        u == IF t.surface[w] # NIL THEN HandleAssociate(made, w) ELSE made
    IN IF t.surface[w] = "mapped" THEN HandleMap(u, w) ELSE u

-----------------------------------------------------------------------------
(* handle_xwayland_surface. *)
NewSurface(w, override) ==
    /\ s.kind[w] = NIL
    /\ s' = Create([s EXCEPT !.override[w] = override], w)

(* The surface is associated, maps and unmaps, and the window goes, as     *)
(* wlroots tells: a surface is unmapped before it is dissociated, and a    *)
(* keyboard focus ends with its surface.                                   *)
Associate(w) ==
    /\ s.kind[w] # NIL /\ s.surface[w] = NIL
    /\ s' = HandleAssociate([s EXCEPT !.surface[w] = "unmapped"], w)
Map(w) ==
    /\ s.surface[w] = "unmapped"
    /\ s' = HandleMap([s EXCEPT !.surface[w] = "mapped"], w)
Unmapped(t, w, next) ==
    IF t.surface[w] = "mapped" THEN HandleUnmap([t EXCEPT !.surface[w] = "unmapped"], w, next) ELSE t
Dissociated(t, w, next) ==
    IF t.surface[w] = NIL THEN t
    ELSE LET u == HandleDissociate(Unmapped(t, w, next), w)
         IN [u EXCEPT !.surface[w] = NIL, !.keyboard = IF @ = w THEN NIL ELSE @]
Unmap(w, next) == s.surface[w] = "mapped" /\ s' = Unmapped(s, w, next)
Dissociate(w, next) == s.surface[w] # NIL /\ s' = Dissociated(s, w, next)
Destroy(w, next) == s.kind[w] # NIL /\ s' = HandleDestroy(Dissociated(s, w, next), w)

OverrideRedirect(w, next) ==
    /\ s.kind[w] # NIL
    /\ s' = HandleOverrideRedirect([s EXCEPT !.override[w] = ~ @], w, next)

(* handle_request_activate of a view, unmanaged_handle_request_activate. *)
RequestActivate(w) ==
    /\ s.surface[w] = "mapped"
    /\ s' = IF s.kind[w] = "view" THEN SetFocus(s, w)
            ELSE IF s.stack # << >> /\ ProcessOf[Head(s.stack)] # ProcessOf[w] THEN s
            ELSE SetFocusSurface(s, w)

(* A view beside the one that goes. *)
Beside(w) ==
    LET others == Range(s.stack) \ {w} IN IF others = {} THEN {NIL} ELSE others
Next ==
    \/ \E w \in Windows, override \in BOOLEAN : NewSurface(w, override)
    \/ \E w \in Windows : Associate(w) \/ Map(w) \/ RequestActivate(w)
    \/ \E w \in Windows : \E next \in Beside(w) :
         Unmap(w, next) \/ Dissociate(w, next) \/ Destroy(w, next) \/ OverrideRedirect(w, next)

Spec == Init /\ [][Next]_s

-----------------------------------------------------------------------------
(* However windows change their kind, each has one object, of the right    *)
(* kind, that listens to just what there is to listen to: nothing is       *)
(* removed from a list twice and nothing is freed while it listens         *)
(* (handle_override_redirect).  While there are views, the keyboard is     *)
(* with the focused one or with a mapped unmanaged window, unless an       *)
(* unmanaged window gave it back to its parent (unmanaged_handle_unmap).   *)
WindowsServed ==
    /\ s \in States
    /\ ~ s.broken
    /\ \A w \in Windows : s.kind[w] # NIL =>
         LET view == s.kind[w] = "view" IN
         /\ view # s.override[w]
         /\ s.links[w] = {"window"}
              \union (IF s.surface[w] = NIL THEN {} ELSE {"surface"})
              \union (IF s.surface[w] # "mapped" THEN {}
                      ELSE IF view THEN {"commit", "surface_tree"} ELSE {"set_geometry"})
    /\ Range(s.stack) = {w \in Windows : s.kind[w] = "view" /\ s.surface[w] = "mapped"}
    /\ s.stack # << >> /\ ~ s.returned =>
         /\ s.keyboard # NIL /\ s.surface[s.keyboard] = "mapped"
         /\ s.kind[s.keyboard] = "view" => s.keyboard = Head(s.stack)
=============================================================================
