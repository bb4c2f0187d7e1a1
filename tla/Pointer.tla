------------------------------ MODULE Pointer -------------------------------
(***************************************************************************)
(* Pointer operations on windows (sway/input/seatop_*.c): a window is held *)
(* down, dragged or resized while commands, clients and outputs change the *)
(* tree under it (module Tree).  The operation keeps pointers from one     *)
(* event to the next: to the window, to what a dragged window is over, and *)
(* to the column a resize started from.  The seat drops them by            *)
(* container_end_mouse_operation, which the operations of the tree call,   *)
(* and by the destroy signal of what the window is over.                   *)
(*                                                                         *)
(* One seat.  The layout of a column is not modelled: any column may be    *)
(* split, tabbed or stacked.                                               *)
(***************************************************************************)
EXTENDS Tree

Under(v) == InTree(v) /\ s.on[s.ws[v]] # NIL /\ Active(s, s.on[s.ws[v]]) = s.ws[v]
Top(t, v) == IF t.parent[v] = NIL THEN v ELSE t.parent[v]
Started(t, kind, v) == [t EXCEPT !.op = [NoOperation EXCEPT !.kind = kind, !.con = v]]

(* seatop_default, handle_button: a press focuses the window under the     *)
(* pointer and begins an operation with it.                                *)
Press(v) ==
    /\ s.op.kind = "default" /\ Under(v)
    /\ LET t == FocusView(s, v)
           floats == IsFloating(s, v)
       IN \/ Becomes(Started(t, "down", v))
          \/ ~floats /\ s.mode[v] = "none" /\ Becomes(Started(t, "move_tiling", v))
          \/ floats /\ s.mode[v] = "none" /\ \E k \in {"move_floating", "resize_floating"} : Becomes(Started(t, k, v))
          \/ ~floats /\ \E f \in {Top(s, v), NIL} :
                Becomes([Started(t, "resize_tiling", v) EXCEPT !.op.far = f])

(* handle_request_move, handle_request_resize: the client asks, with the   *)
(* last button event it has been told of, which may be the release.        *)
Request(v, kind) ==
    /\ s.op.kind \in {"default", "down"} /\ Mapped(v) /\ IsFloating(s, v)
    /\ kind = "move_floating" => s.mode[v] = "none"
    /\ Becomes(Started(s, kind, v))

(* seatop_move_tiling, handle_motion_postthreshold: over nothing, an empty *)
(* place, or the window x: it, its column or its workspace may be the      *)
(* target.  Which edge of the target, and whether before or after it, is   *)
(* kept too; here it is chosen when the window is dropped.                 *)
Over(on) == Becomes([s EXCEPT !.op.on = on])
NumTilingViews(w) == Cardinality({v \in ViewsOn(s, w) : ~Floats(s, v)})
Denied(v, x) == (NumTilingViews(s.ws[v]) = 1 /\ s.ws[x] = s.ws[v]) \/ IsFloating(s, x)
OverWindow(v, x) ==
    IF s.ws[v] = NIL THEN Becomes([s EXCEPT !.crash = "no workspace"])
    ELSE ~Denied(v, x) /\ \E g \in {x, s.parent[x], s.ws[x]} \ {v, NIL} : Over(g)
MotionTiling ==
    /\ s.op.kind = "move_tiling"
    /\ \/ Over(NIL)
       \/ \E o \in Range(s.outs) : Over(Active(s, o))
       \/ \E x \in Views : Under(x) /\ OverWindow(s.op.con, x)

(* container_floating_move_to: on whichever output the window is now; a    *)
(* window that does not float is left alone, by an assertion.              *)
FloatingMoveTo(t, v, w) ==
    IF ~Floats(t, v) \/ w \in {t.ws[v], NIL} THEN t ELSE AddFloating(Detach(t, v), w, v)
MotionFloating(o) ==
    /\ s.op.kind = "move_floating" /\ o \in Range(s.outs)
    /\ Becomes(FloatingMoveTo(s, s.op.con, Active(s, o)))

(* workspace_insert_column: the column c becomes the i-th of w. *)
InsertColumn(t, w, c, i) ==
    LET d == IF t.ws[c] # w THEN Detach(t, c) ELSE t
        n == Len(d.tiling[w])  was == IndexOf(d.tiling[w], c)
        at == IF i > n THEN n + 1 ELSE i + 1
        to == IF was # 0 /\ was < at THEN at - 1 ELSE at
    IN IF was = at THEN d
       ELSE Place([d EXCEPT !.tiling[w] = InsertAt(RemoveFirst(@, c), to, c), !.parent[c] = NIL], c, w)

(* workspace_insert_window: x is a window or a column on w, after is 0 or 1. *)
InsertWindow(t, w, v, x, edge, after) ==
    LET col == Top(t, v)
        dst == IF IsColumn(x) THEN x ELSE Top(t, x)
        pos(u) == IndexOf(u.tiling[w], dst) - 1
        kids == RemoveFirst(t.kids[dst], v)
        at == IndexOf(kids, x)
        d == Detach(t, v)
        (* The bottom of a column: past its last window. *)
        over == edge = "in" /\ IsColumn(x) /\ after = 1
        into == Within([d EXCEPT !.parent[v] = dst,
                         !.kids[dst] = InsertAt(@, IF IsColumn(x) THEN 1 ELSE at + after, v)], v, w)
        new == LET c == Fresh(d)
                   e == [d EXCEPT !.live = @ \union {c}, !.parent[c] = NIL, !.ws[c] = w, !.kids[c] = <<v>>,
                                  !.parent[v] = c, !.ws[v] = w]
               IN InsertColumn(e, w, c, pos(d) + after)
    IN IF v = x THEN t
       ELSE IF \E k \in DOMAIN t.tiling[w] : ~IsColumn(t.tiling[w][k])
            THEN [t EXCEPT !.crash = "no list of children"]
       ELSE IF col = dst /\ x # col THEN [t EXCEPT !.kids[col] = InsertAt(kids, at + after, v)]
       ELSE IF ~IsColumn(col) /\ edge = "side" THEN [t EXCEPT !.crash = "no list of children"]
       ELSE IF col # dst /\ edge = "side" /\ t.kids[col] = <<v>>
            THEN InsertColumn(t, w, col, pos(t) + after)
       ELSE IF over THEN [t EXCEPT !.crash = "list overrun"]
       ELSE Reap(IF edge = "in" THEN into ELSE new, t.parent[v])

(* seatop_move_tiling, finalize_move.  What it drops is arranged on the    *)
(* workspace it came from, and there has to be one; a workspace that was   *)
(* left empty for a moment, and is not shown, is destroyed on the way.     *)
Dropped(t, edge, after) ==
    LET v == t.op.con  x == t.op.on
        w == IF x \in Workspaces THEN x ELSE t.ws[x]
        done(u) == [u EXCEPT !.op = NoOperation,
                             !.crash = IF w = NIL \/ u.alive[w] = "live" THEN @ ELSE "used after free"]
    IN IF x = NIL \/ (x \in Views /\ IsFloating(t, x)) THEN {[t EXCEPT !.op = NoOperation]}
       ELSE IF IsFloating(t, v) THEN {[t EXCEPT !.crash = "dragged as tiled"]}
       ELSE IF t.ws[v] = NIL \/ (x \in Containers /\ t.ws[x] = NIL)
            THEN {[t EXCEPT !.crash = "no workspace"]}
       ELSE IF x \in Workspaces THEN {done(AddTiling(t, x, v, i)) : i \in Positions(t, x)}
       ELSE {done(InsertWindow(t, w, v, x, edge, after))}

(* The button is released, or the window moves on: a resize uses the column *)
(* it started from.                                                        *)
Release ==
    /\ s.op.kind # "default"
    /\ CASE s.op.kind = "move_tiling" -> \E edge \in {"in", "side"}, after \in {0, 1} : BecomesOneOf(Dropped(s, edge, after))
         [] s.op.kind = "move_floating" ->
              BecomesOneOf({[u EXCEPT !.op = NoOperation] : u \in
                  {FloatingMoveTo(s, s.op.con, Active(s, o)) : o \in Range(s.outs)} \union
                  (IF s.outs = <<>> THEN {s} ELSE {})})
         [] s.op.kind = "resize_tiling" ->
              Becomes([s EXCEPT !.op = NoOperation, !.crash = IF s.op.stale THEN "used after free" ELSE @])
         [] OTHER -> Becomes([s EXCEPT !.op = NoOperation])

PointerStep ==
    \/ \E v \in Views : Press(v) \/ \E k \in {"move_floating", "resize_floating"} : Request(v, k)
    \/ MotionTiling
    \/ \E o \in Outputs : MotionFloating(o)
    \/ Release

PointerNext == Next \/ PointerStep
PointerSpec == Init /\ [][PointerNext]_s

-----------------------------------------------------------------------------
(* The window of an operation is there, and so is what it is over, nobody  *)
(* drags a fullscreen window, and wherever a window is dropped the tree    *)
(* stays a tree, whatever the clients and the keyboard do meanwhile        *)
(* (seatop_unref and its callers, workspace_insert_column,                 *)
(* container_floating_move_to).                                            *)
OperationHoldsTheLiving ==
    /\ Running =>
        /\ s.op.con # NIL => s.op.con \in s.live
        /\ s.op.on # NIL => s.op.on \in s.live \union Live
        /\ s.op.kind \in {"move_tiling", "move_floating"} => s.mode[s.op.con] = "none"
    /\ Linked
    /\ FullscreenAgrees

=============================================================================
