------------------------ MODULE PointerConstraints -------------------------
(***************************************************************************)
(* The pointer of a seat locked to a surface, and the surface shown as its *)
(* image (sway/input/cursor.c, with the callers of sway_cursor_constrain). *)
(*                                                                         *)
(* A constraint is in force while its surface has the keyboard; the cursor *)
(* then listens for commits of the surface, with one listener that is put  *)
(* into one list and into another, and a constraint for one shot destroys  *)
(* itself in the middle of that.  Regions and positions are left out; who  *)
(* gets the focus is in module Focus.                                      *)
(***************************************************************************)
EXTENDS Integers, FiniteSets

CONSTANTS Windows, Layers, Images,
          Hinting,              \* surfaces whose constraint says where the pointer is to be left
          NIL

Surfaces == Windows \union Layers

ConstraintsAssumption == Hinting \subseteq Surfaces /\ NIL \notin Surfaces \union Images

VARIABLE s

Maybe == Surfaces \union {NIL}

(* link is where constraint_commit is linked: its own head ("init"), the   *)
(* commits of a surface, or, removed from there and not initialised again, *)
(* nowhere.  watch is where image_surface_destroy listens.                 *)
States ==
    [ mapped      : SUBSET Surfaces,
      focus       : Windows \union {"workspace", "none"},
      keyboard    : Maybe,
      constraints : [Surfaces -> {"none", "oneshot", "persistent"}],
      active      : Maybe,
      link        : Surfaces \union {"init", "removed"},
      warp        : BOOLEAN,                    \* active_confine_requires_warp
      allowed     : BOOLEAN,                    \* allow_constrain of the seat
      kept        : BOOLEAN,                    \* history: not released, as it was disabled
      images      : SUBSET Images,
      image       : Images \union {NIL},
      watch       : Images \union {NIL},
      crash       : {"no", "no container", "no link", "assertion"} ]

Init == s = [ mapped |-> {}, focus |-> "workspace", keyboard |-> NIL,
              constraints |-> [x \in Surfaces |-> "none"], active |-> NIL, link |-> "init",
              warp |-> FALSE, allowed |-> TRUE, kept |-> FALSE,
              images |-> {}, image |-> NIL, watch |-> NIL, crash |-> "no" ]

Becomes(t) == s.crash = "no" /\ s' = [t EXCEPT !.kept = @ /\ (t.active # NIL \/ t.crash # "no")]

-----------------------------------------------------------------------------
(* warp_to_constraint_cursor_hint and check_constraint_region look for the *)
(* container of the window.                                                *)
InContainer(t, x, needed) ==
    IF needed /\ x \in Windows \ t.mapped THEN [t EXCEPT !.crash = "no container"] ELSE t
WarpToHint(t) == InContainer(t, t.active, t.active \in Hinting)
CheckRegion(t) ==
    InContainer([t EXCEPT !.warp = @ /\ t.active \notin Windows], t.active, t.warp)

(* handle_constraint_destroy: wl_list_remove leaves a link without next.   *)
Destroyed(t, x) ==
    LET u == [t EXCEPT !.constraints[x] = "none"]
    IN IF t.active # x THEN u ELSE [WarpToHint(u) EXCEPT !.active = NIL, !.link = "init"]

(* sway_cursor_constrain.  What is deactivated is gone if it was for one   *)
(* shot (wlr_pointer_constraint_v1_send_deactivated).                      *)
Release(t, x) ==
    IF t.active = NIL THEN t
    ELSE LET u == IF x = NIL THEN WarpToHint(t) ELSE t
         IN IF u.constraints[u.active] = "oneshot" THEN Destroyed(u, u.active) ELSE u
Activate(t, x) ==
    IF x = NIL THEN [t EXCEPT !.active = NIL, !.link = "init"]
    ELSE [CheckRegion([t EXCEPT !.active = x, !.warp = TRUE]) EXCEPT !.link = x]
Constrain(t, x) ==
    IF ~t.allowed THEN [t EXCEPT !.kept = TRUE]
    ELSE IF t.active = x THEN t
    ELSE IF t.link = "removed" THEN [t EXCEPT !.crash = "no link"]
    ELSE Activate(Release([t EXCEPT !.link = "removed"], x), x)

ConstraintOf(t, x) == IF t.constraints[x] = "none" THEN NIL ELSE x

-----------------------------------------------------------------------------
(* seat_send_unfocus, seat_send_focus and seat_set_workspace_focus.        *)
SendUnfocus(t) == [Constrain(t, NIL) EXCEPT !.keyboard = NIL]
SendFocus(t, n) ==
    LET u == [t EXCEPT !.focus = n]
    IN IF n \in Windows THEN Constrain([u EXCEPT !.keyboard = n], ConstraintOf(u, n)) ELSE u
SetFocus(t, n) ==
    IF t.focus = n THEN t
    ELSE SendFocus(IF t.focus = "none" THEN t ELSE SendUnfocus(t), n)

Nodes == (Windows \intersect s.mapped) \union {"workspace"}
Focus(n) == n \in Nodes /\ Becomes(SetFocus(s, n))

(* seat_set_focus_layer. *)
FocusLayer(x) ==
    /\ x \in Layers \intersect s.mapped
    /\ LET t == IF s.focus = "none" THEN s ELSE [SendUnfocus(s) EXCEPT !.focus = "none"]
       IN Becomes([t EXCEPT !.keyboard = x])

Map(x) == x \notin s.mapped /\ Becomes([s EXCEPT !.mapped = @ \union {x}])

(* view_unmap: handle_seat_node_destroy has moved the focus, and has left  *)
(* out the unfocusing if the next was already the first of the stack.  The *)
(* window keeps its container until the next transaction is applied.       *)
UnmapWindow(x, n) ==
    /\ x \in Windows \intersect s.mapped /\ n \in Nodes \ {x}
    /\ LET Last(t) == [(IF t.active = x THEN Constrain(t, NIL) ELSE t)
                          EXCEPT !.image = NIL, !.mapped = @ \ {x}]
       IN IF s.focus # x THEN Becomes(Last(s))
          ELSE \/ Becomes(Last(SendFocus(s, n)))
               \/ Becomes(Last(SendFocus(SendUnfocus(s), n)))

(* handle_unmap of a layer surface: the focus returns to a node.           *)
UnmapLayer(x, n) ==
    /\ x \in Layers \intersect s.mapped /\ n \in Nodes
    /\ LET t == [s EXCEPT !.mapped = @ \ {x}]
       IN Becomes(IF s.keyboard = x /\ s.focus = "none" THEN SendFocus(t, n) ELSE t)

(* A surface is destroyed, its constraint first (wlroots).                 *)
SurfaceDestroy(x) ==
    /\ x \notin s.mapped /\ (s.keyboard = x \/ s.constraints[x] # "none")
    /\ Becomes([(IF s.constraints[x] = "none" THEN s ELSE Destroyed(s, x))
                   EXCEPT !.keyboard = IF @ = x THEN NIL ELSE @])

-----------------------------------------------------------------------------
(* Mutant: it is not looked at who has the keyboard.                       *)
NewConstraintAnyway(t, x) == Constrain(t, x)

(* handle_pointer_constraint. *)
NewConstraintOf(t, x) == IF t.keyboard = x THEN Constrain(t, x) ELSE t
NewConstraint(x, lifetime) ==
    /\ s.constraints[x] = "none"
    /\ Becomes(NewConstraintOf([s EXCEPT !.constraints[x] = lifetime], x))

ConstraintDestroy(x) == s.constraints[x] # "none" /\ Becomes(Destroyed(s, x))

(* handle_pointer_constraint_set_region; handle_constraint_commit.         *)
SetRegion(x) == s.constraints[x] # "none" /\ Becomes([s EXCEPT !.warp = TRUE])
Commit(x) ==
    /\ s.link = x
    /\ Becomes(IF s.active # x THEN [s EXCEPT !.crash = "assertion"] ELSE CheckRegion(s))

(* seat_cmd_pointer_constraint: the command disables, and then releases.   *)
Enable == Becomes([s EXCEPT !.allowed = TRUE])
Disable == Becomes(Constrain([s EXCEPT !.allowed = FALSE], NIL))
Escape == Becomes(Constrain(s, NIL))

-----------------------------------------------------------------------------
(* set_image_surface, in cursor_set_image_surface and cursor_set_image.    *)
SetImage(i) ==
    /\ i \in s.images \union {NIL}
    /\ Becomes([s EXCEPT !.image = i, !.watch = i])
ImageCreate(i) == i \notin s.images /\ Becomes([s EXCEPT !.images = @ \union {i}])
ImageDestroy(i) ==                      \* handle_image_surface_destroy
    /\ i \in s.images
    /\ LET t == [s EXCEPT !.images = @ \ {i}]
       IN Becomes(IF s.watch = i THEN [t EXCEPT !.image = NIL, !.watch = NIL] ELSE t)

Next ==
    \/ \E n \in Nodes : Focus(n) \/ \E x \in Surfaces : UnmapWindow(x, n) \/ UnmapLayer(x, n)
    \/ \E x \in Surfaces :
         \/ FocusLayer(x) \/ Map(x) \/ SurfaceDestroy(x) \/ ConstraintDestroy(x) \/ SetRegion(x)
         \/ Commit(x) \/ \E lifetime \in {"oneshot", "persistent"} : NewConstraint(x, lifetime)
    \/ Enable \/ Disable \/ Escape
    \/ \E i \in Images : ImageCreate(i) \/ ImageDestroy(i)
    \/ \E i \in Images \union {NIL} : SetImage(i)

Spec == Init /\ [][Next]_s

-----------------------------------------------------------------------------
(* The pointer is constrained by an existing constraint, of the surface    *)
(* that has the keyboard, and listens for that surface alone; and nothing  *)
(* the code relies on fails, whatever is destroyed first.  The exceptions  *)
(* are of a constraint that was in force when constraints were disabled,   *)
(* and of an unmapped window that still has the keyboard and asks for one. *)
(* The image is a surface that lives (sway_cursor_constrain,               *)
(* set_image_surface).                                                     *)
PointerIsWhereTheKeysAre ==
    /\ s \in States
    /\ s.image # NIL => s.image \in s.images /\ s.watch = s.image
    /\ s.crash # "no" => s.crash = "no container" /\ (s.kept \/ s.keyboard \in Windows \ s.mapped)
    /\ s.crash = "no" =>
         /\ s.link = (IF s.active = NIL THEN "init" ELSE s.active)
         /\ s.active # NIL => s.constraints[s.active] # "none"
         /\ s.active \notin {NIL, s.keyboard} => s.kept
=============================================================================
