------------------------------- MODULE Tree -------------------------------
(***************************************************************************)
(* The tree of outputs, workspaces, columns and windows, with the two      *)
(* places a window can be put away in: the scratchpad (sway/tree/root.c)   *)
(* and the minimize pool of a workspace.  The same fact is kept several    *)
(* times in the code: a window points at its column and its workspace, the *)
(* column and the workspace list the window, fullscreen is a mode of the   *)
(* window and a pointer of the workspace or of the root, being minimized a *)
(* flag and an entry in a pool.  Every operation has to change all copies, *)
(* across nested calls that may destroy columns and workspaces on the way. *)
(*                                                                         *)
(* The state is one record s, and every function of the code an operator   *)
(* from one state to the next.  Focus is reduced to what the tree needs of *)
(* it: the order in which the workspaces were last used.  Module Focus has *)
(* the rest; where the code asks which window was used last, any window    *)
(* may be the answer.  Sizes are in columns: MinWidth[v] of the Capacity   *)
(* of a workspace.                                                         *)
(***************************************************************************)
EXTENDS Integers, FiniteSets, SequencesExt

CONSTANTS Views,        \* windows
          Columns,      \* columns: integers, the lowest free one is created
          Workspaces,   \* numbered workspaces
          Outputs,
          Fallback,     \* the output without a screen
          NIL,
          MinWidth,     \* the width a window asks for, at least
          Capacity,     \* the width of a workspace
          May           \* the windows each kind of operation is tried on

ASSUME TreeAssumption ==
    /\ Workspaces \subseteq Nat /\ Columns \subseteq Nat /\ Workspaces \intersect Columns = {}
    /\ IsFiniteSet(Workspaces) /\ IsFiniteSet(Views) /\ Views \intersect Columns = {}
    /\ Fallback \notin Outputs
    /\ NIL \notin Views \union Columns \union Workspaces \union Outputs \union {Fallback}
    /\ MinWidth \in [Views -> Nat] /\ Capacity \in Nat
    /\ May \in [{"float", "fullscreen", "minimize", "unsplit"} -> SUBSET Views]

VARIABLE s

Containers == Views \union Columns
Modes == {"none", "workspace", "global"}

(* What the pointer is doing with a window (module Pointer): it may be over *)
(* another container or workspace, and have a column resized.              *)
Operations ==
    [ kind  : {"default", "down", "move_tiling", "resize_tiling", "move_floating", "resize_floating"},
      con   : Views \union {NIL},
      on    : Containers \union Workspaces \union {NIL},
      far   : Containers \union {NIL},
      stale : BOOLEAN ]                               \* far has been destroyed
NoOperation == [kind |-> "default", con |-> NIL, on |-> NIL, far |-> NIL, stale |-> FALSE]

(* The fields of a container, a workspace, an output and the root.         *)
States ==
    [ live      : SUBSET Containers,                  \* not destroying
      lost      : SUBSET Views,                       \* mapped, yet destroyed
      parent    : [Containers -> Columns \union {NIL}],
      ws        : [Containers -> Workspaces \union {NIL}],
      kids      : [Columns -> Seq(Views)],
      mode      : [Views -> Modes],
      minimized : SUBSET Views,
      wasfloat  : SUBSET Views,
      scratch   : SUBSET Views,
      tiling    : [Workspaces -> Seq(Containers)],
      floating  : [Workspaces -> SUBSET Views],
      pool      : [Workspaces -> SUBSET Views],
      fs        : [Workspaces -> Views \union {NIL}],
      gfs       : Views \union {NIL},
      on        : [Workspaces -> Outputs \union {Fallback, NIL}],
      alive     : [Workspaces -> {"no", "live", "dying"}],
      prio      : [Workspaces -> Seq(Outputs \union {Fallback})],
      outs      : Seq(Outputs),
      recent    : Seq(Workspaces),
      op        : Operations,
      crash     : {"no", "no list of children", "list overrun", "no workspace", "dragged as tiled",
                   "destroyed twice", "used after free"} ]

Live == {w \in Workspaces : s.alive[w] = "live"}

(* A loop of n rounds, the i-th of which applies f[i].                     *)
Rounds(f, x, n) ==
    LET after[i \in 0..n] == IF i = 0 THEN x ELSE f[i][after[i - 1]] IN after[n]
-----------------------------------------------------------------------------
(* Workspaces and outputs.                                                 *)
On(t, o) == {w \in Workspaces : t.alive[w] = "live" /\ t.on[w] = o}
Placed(t) == {w \in Workspaces : t.on[w] # NIL}
Raise(t, w) == [t EXCEPT !.recent = <<w>> \o RemoveFirst(t.recent, w)]
Active(t, o) ==
    IF On(t, o) = {} THEN NIL
    ELSE t.recent[SelectInSeq(t.recent, LAMBDA w : w \in On(t, o))]
FocusedWs(t) ==
    LET i == SelectInSeq(t.recent, LAMBDA w : w \in Placed(t))
    IN IF i = 0 THEN NIL ELSE t.recent[i]
Lowest(S) == CHOOSE x \in S : \A y \in S : x <= y
Free(t) == {w \in Workspaces : t.alive[w] = "no"}

(* workspace_create, with workspace_next_name where no name was given. *)
WorkspaceCreate(t, o, w) ==
    [t EXCEPT !.alive[w] = "live", !.on[w] = o, !.prio[w] = <<o>>,
              !.recent = Append(@, w)]

WorkspaceBeginDestroy(t, w) ==
    [t EXCEPT !.alive[w] = IF @ # "live" THEN @ ELSE IF t.pool[w] = {} THEN "no" ELSE "dying",
              !.crash = IF t.alive[w] = "live" THEN @ ELSE "destroyed twice",
              !.on[w] = NIL, !.prio[w] = <<>>, !.recent = RemoveFirst(@, w),
              !.op.on = IF @ = w THEN NIL ELSE @]

Considered(t, w) ==
    /\ t.tiling[w] = <<>> /\ t.floating[w] = {} /\ t.pool[w] = {}
    /\ t.on[w] # NIL => Active(t, t.on[w]) # w
    /\ FocusedWs(t) # w
WorkspaceConsiderDestroy(t, w) ==
    IF Considered(t, w) THEN WorkspaceBeginDestroy(t, w) ELSE t
ConsiderIf(t, w) == IF w = NIL THEN t ELSE WorkspaceConsiderDestroy(t, w)

(* seat_set_focus on a node of workspace w: the workspace that was shown on *)
(* the output may have to go.                                              *)
FocusOn(t, w) ==
    LET last == IF t.on[w] = NIL THEN NIL ELSE Active(t, t.on[w])
        u == Raise(t, w)
    IN IF last = NIL \/ last = w THEN u ELSE WorkspaceConsiderDestroy(u, last)

(* The windows of w, and whether one of them may not have the focus.       *)
ViewsOn(t, w) == {v \in Views : v \in t.live /\ t.ws[v] = w}
Obstructed(t, v) == \/ t.ws[v] # NIL /\ t.fs[t.ws[v]] \notin {NIL, v} /\ t.mode[v] = "none"
                    \/ t.gfs \notin {NIL, v}
(* What seat_set_focus may do with whichever node of w was used last.      *)
Refocus(t, w) ==
    {FocusOn(t, w)} \union
    (IF t.gfs # NIL \/ \E v \in ViewsOn(t, w) : Obstructed(t, v) THEN {t} ELSE {})
FocusView(t, v) == IF Obstructed(t, v) \/ t.ws[v] = NIL THEN t ELSE FocusOn(t, t.ws[v])
-----------------------------------------------------------------------------
(* Containers.                                                             *)
IsColumn(c) == c \in Columns
KidsOf(t, c) == IF IsColumn(c) THEN Range(t.kids[c]) ELSE {}
Floats(t, v) == t.parent[v] = NIL /\ t.ws[v] # NIL /\ v \in t.floating[t.ws[v]]
(* container_is_floating: also when it is hidden in the scratchpad. *)
IsFloating(t, v) == Floats(t, v) \/ v \in t.scratch

EndMouseOperationOnly(t, c) == IF t.op.con = c THEN [t EXCEPT !.op = NoOperation] ELSE t
(* container_end_mouse_operation: the operation drops its references to c. *)
EndMouseOperation(t, c) ==
    IF t.op.con = c THEN [t EXCEPT !.op = NoOperation]
    ELSE IF t.op.on = c THEN [t EXCEPT !.op.on = NIL] ELSE t

SetMode(t, v, m) == EndMouseOperation([t EXCEPT !.mode[v] = m], v)
FullscreenDisable(t, v) ==
    LET w == t.ws[v]
        u == IF t.mode[v] = "workspace"
               THEN IF w = NIL THEN t ELSE [t EXCEPT !.fs[w] = NIL]
               ELSE [t EXCEPT !.gfs = NIL]
    IN SetMode(u, v, "none")
DisableIf(t, v) == IF v = NIL \/ t.mode[v] = "none" THEN t ELSE FullscreenDisable(t, v)

(* Set a container's link to its workspace, and its children's. *)
Within(t, c, w) ==
    [t EXCEPT !.ws = [d \in Containers |-> IF d = c \/ d \in KidsOf(t, c) THEN w ELSE @[d]]]

(* Out of the list of its parent, or of its workspace. *)
Unlisted(t, c) ==
    LET w == t.ws[c]  p == t.parent[c]
    IN IF p # NIL THEN [t EXCEPT !.kids[p] = RemoveFirst(@, c)]
       ELSE IF w # NIL THEN [t EXCEPT !.tiling[w] = RemoveFirst(@, c), !.floating[w] = @ \ {c}]
       ELSE t
(* The root and the workspace lose a fullscreen window that goes with c. *)
LeaveFullscreen(t, c) ==
    LET own == {c} \union KidsOf(t, c)
    IN [t EXCEPT !.gfs = IF @ \in own THEN NIL ELSE @,
                 !.fs = [w \in Workspaces |-> IF w = t.ws[c] /\ @[w] \in own THEN NIL ELSE @[w]]]
DetachFullscreen(t, c) == Within([Unlisted(t, c) EXCEPT !.parent[c] = NIL], c, NIL)
Detach(t, c) == Within([Unlisted(LeaveFullscreen(t, c), c) EXCEPT !.parent[c] = NIL], c, NIL)

(* A container that has come to a workspace brings its fullscreen along.   *)
FullscreenReparent(t, c) ==
    LET own == {c} \union KidsOf(t, c)
        glob == {v \in own \intersect Views : t.mode[v] = "global"}
        work == {v \in own \intersect Views : t.mode[v] = "workspace"}
    IN IF glob # {} THEN
            LET v == CHOOSE x \in glob : TRUE
            IN IF t.gfs = v THEN t ELSE [DisableIf(t, t.gfs) EXCEPT !.gfs = v]
       ELSE IF work # {} THEN
            LET v == CHOOSE x \in work : TRUE
                w == t.ws[v]
            IN IF w = NIL \/ t.fs[w] = v THEN t
               ELSE [DisableIf(t, t.fs[w]) EXCEPT !.fs[w] = v]
       ELSE t
Place(t, c, w) == FullscreenReparent(Within(t, c, w), c)

DetachIf(t, c) == IF t.ws[c] # NIL THEN Detach(t, c) ELSE t
AddChild(t, p, c) ==
    LET u == DetachIf(t, c)
    IN Place([u EXCEPT !.kids[p] = Append(@, c), !.parent[c] = p], c, u.ws[p])
IndexOf(seq, c) == SelectInSeq(seq, LAMBDA x : x = c)
AddSibling(t, fixed, c) ==
    LET u == DetachIf(t, c)
        p == u.parent[fixed]  w == u.ws[fixed]
        x == IF p # NIL
               THEN [u EXCEPT !.kids[p] = InsertAt(@, IndexOf(@, fixed) + 1, c)]
             ELSE IF Floats(u, fixed) THEN [u EXCEPT !.floating[w] = @ \union {c}]
             ELSE [u EXCEPT !.tiling[w] = InsertAt(@, IndexOf(@, fixed) + 1, c)]
    IN Place([x EXCEPT !.parent[c] = p], c, w)

(* workspace_minimized_owner: one of the workspaces on an output. *)
Owner(t, v) ==
    LET own == {w \in Workspaces : t.alive[w] = "live" /\ t.on[w] # NIL /\ v \in t.pool[w]}
    IN IF own = {} THEN NIL ELSE Lowest(own)
PoolRemove(t, v) ==
    LET w == Owner(t, v)
        u == [t EXCEPT !.minimized = @ \ {v}, !.wasfloat = @ \ {v}]
    IN IF w = NIL THEN u ELSE [u EXCEPT !.pool[w] = @ \ {v}]
Unpark(t, c) == IF c \in t.minimized THEN PoolRemove(t, c) ELSE t

DetachLinked(t, c) == IF t.parent[c] # NIL \/ t.ws[c] # NIL THEN Detach(t, c) ELSE t
ContainerBeginDestroy(t, c) ==
    LET m == IF c \in Views THEN t.mode[c] ELSE "none"
        a == IF m = "workspace" /\ t.ws[c] # NIL THEN [t EXCEPT !.fs[t.ws[c]] = NIL] ELSE t
        b == Unpark([a EXCEPT !.live = @ \ {c}, !.scratch = @ \ {c}], c)
        e == EndMouseOperation([b EXCEPT !.op.stale = @ \/ b.op.far = c], c)
        d == IF m = "global" THEN FullscreenDisable(e, c) ELSE e
    IN DetachLinked(d, c)

(* A column that has become empty goes, and perhaps its workspace. *)
Reap(t, c) ==
    IF c = NIL \/ ~IsColumn(c) \/ t.kids[c] # <<>> THEN t
    ELSE ConsiderIf(ContainerBeginDestroy(t, c), t.ws[c])
-----------------------------------------------------------------------------
(* workspace.c: putting containers on a workspace.                         *)
Fresh(t) == Lowest(Columns \ t.live)
NewColumn(t, w, v) ==
    LET c == Fresh(t)
    IN AddChild([t EXCEPT !.live = @ \union {c}, !.ws[c] = w,
                          !.parent[c] = NIL, !.kids[c] = <<>>], c, v)

Widest(t, c) == LET S == {MinWidth[v] : v \in (KidsOf(t, c) \union {c}) \intersect Views}
                IN IF S = {} THEN 0 ELSE CHOOSE x \in S : \A y \in S : x >= y
Needed(t, w) == FoldLeft(LAMBDA n, c : n + Widest(t, c), 0, t.tiling[w])

ChildrenTo(t, src, dst) ==
    LET kids == t.kids[src]
    IN Rounds([i \in DOMAIN kids |-> [u \in States |-> AddChild(u, dst, kids[i])]], t, Len(kids))

(* One round of workspace_fix_overflow: the last column is merged into the *)
(* one before its neighbour, or into its neighbour.  A window that stands  *)
(* where a column should cannot take children.                             *)
MergeLast(t, w) ==
    LET n == Len(t.tiling[w])
        src == t.tiling[w][n]
        dst == t.tiling[w][IF n >= 3 THEN n - 2 ELSE n - 1]
        moved == IF IsColumn(src) THEN ChildrenTo(t, src, dst) ELSE AddChild(t, dst, src)
    IN IF t.crash # "no" \/ n <= 1 \/ Needed(t, w) <= Capacity THEN t
       ELSE IF ~IsColumn(dst) THEN [t EXCEPT !.crash = "no list of children"]
       ELSE LET u == ContainerBeginDestroy(moved, src)
            IN [u EXCEPT !.lost = @ \union ({src} \intersect Views)]
FixOverflow(t, w) ==
    Rounds([i \in DOMAIN t.tiling[w] |-> [u \in States |-> MergeLast(u, w)]], t, Len(t.tiling[w]))

(* At the i-th place, or at the end. *)
Inserted(seq, i, c) == InsertAt(seq, IF i > Len(seq) THEN Len(seq) + 1 ELSE i, c)
(* Out of the column, which may have to go; and into one of its own. *)
Leave(t, c) == IF t.ws[c] # NIL THEN Reap(Detach(t, c), t.parent[c]) ELSE t
Tile(t, w, c, i) ==
    LET col == IF c \in Views THEN Fresh(t) ELSE c
        d == IF c \in Views THEN NewColumn(t, w, c) ELSE [t EXCEPT !.parent[c] = NIL]
        e == [d EXCEPT !.tiling[w] = Inserted(@, i, col)]
    IN FixOverflow(Place(e, col, w), w)
(* workspace_add_tiling: i is where the focused column puts the new one. *)
AddTiling(t, w, c, i) == Tile(Leave(Unpark(t, c), c), w, c, i)
AddFloatingParked(t, w, v) ==
    LET u == DetachIf(t, v)
    IN Place([u EXCEPT !.floating[w] = @ \union {v}], v, w)
AddFloating(t, w, v) ==
    LET u == DetachIf(Unpark(t, v), v)
    IN Place([u EXCEPT !.floating[w] = @ \union {v}], v, w)
(* After the focused column, whichever it is, or at the end. *)
Positions(t, w) == LET n == Len(t.tiling[w]) IN IF n = 0 THEN {1} ELSE 2 .. (n + 1)
-----------------------------------------------------------------------------
(* Fullscreen.                                                             *)
Fullscreen(t, v, m) ==
    IF m = t.mode[v] THEN t ELSE
    CASE m = "none" -> FullscreenDisable(t, v)
      [] m = "workspace" ->
           LET a == DisableIf(t, t.gfs)
               w == a.ws[v]
               b == IF w = NIL THEN a ELSE [DisableIf(a, a.fs[w]) EXCEPT !.fs[w] = v]
           IN SetMode(b, v, "workspace")
      [] m = "global" ->
           LET a == DisableIf(t, t.gfs)
               b == IF a.mode[v] = "workspace" THEN FullscreenDisable(a, v) ELSE a
           IN SetMode([b EXCEPT !.gfs = v], v, "global")

FloatingEnableLeavesColumn(t, v) == AddFloating(Detach(t, v), t.ws[v], v)
(* Floating.  A tiled window that floats leaves its column, one that is   *)
(* tiled again gets a column of its own, in front of the columns to its    *)
(* right, and the workspace is not checked for overflow.                   *)
FloatingEnable(t, v) ==
    LET p == t.parent[v]  w == t.ws[v]
    IN EndMouseOperation(Reap(AddFloating(Detach(t, v), w, v), p), v)
FloatingDisable(t, v, i) ==
    LET w == t.ws[v]
        a == Detach([t EXCEPT !.scratch = @ \ {v}], v)
        col == Fresh(a)
        b == NewColumn(a, w, v)
    IN EndMouseOperation(Place([b EXCEPT !.tiling[w] = Inserted(@, i, col)], col, w), v)

(* The scratchpad. *)
ScratchpadAdd(t, v) ==
    LET a == DisableIf(t, v)
        b == IF IsFloating(a, v) THEN a ELSE FloatingEnable(a, v)
    IN [Detach(b, v) EXCEPT !.scratch = @ \union {v}]
ScratchpadShow(t, v) ==
    LET w == FocusedWs(t)  old == t.ws[v]
        a == DisableIf(DisableIf(t, t.fs[w]), t.gfs)
        b == FocusView(AddFloating(DetachIf(a, v), w, v), v)
    IN IF w = NIL THEN t
       ELSE IF old = NIL THEN b ELSE WorkspaceConsiderDestroy(b, old)
ScratchpadHide(t, v) == Detach(DisableIf(t, v), v)

(* The minimize pools.  The column is reaped, and with it perhaps the      *)
(* workspace, before the window is put in the workspace's pool.            *)
MinimizedHide(t, v) ==
    LET a == DisableIf(t, v)
        w == a.ws[v]
        b == [a EXCEPT !.minimized = @ \union {v},
                       !.wasfloat = IF IsFloating(a, v) THEN @ \union {v} ELSE @ \ {v}]
        d == Reap(IF w = NIL THEN b ELSE Detach(b, v), a.parent[v])
    IN IF w = NIL THEN d
       ELSE [d EXCEPT !.pool[w] = @ \union {v},
                      !.alive[w] = IF @ = "no" THEN "dying" ELSE @]
(* The workspace whose pool it was may have to go. *)
PoolLeft(t, old, w) ==
    IF old = NIL \/ old = w \/ t.alive[old] # "live" THEN t ELSE WorkspaceConsiderDestroy(t, old)
MinimizedShow(t, v, w, i) ==
    LET old == Owner(t, v)
        a == PoolRemove(t, v)
        b == DisableIf(DisableIf(a, a.fs[w]), a.gfs)
        d == IF v \in t.wasfloat THEN AddFloating(b, w, v) ELSE AddTiling(b, w, v, i)
    IN PoolLeft(FocusView(d, v), old, w)

(* Moving a window to a workspace, or to another window. *)
MoveToWorkspace(t, v, w, i) ==
    IF t.ws[v] = w THEN t
    ELSE IF IsFloating(t, v) THEN AddFloating(Detach(t, v), w, v)
    ELSE AddTiling(Detach(t, v), w, v, i)
MoveToContainer(t, v, x, i) ==
    IF v = x THEN t
    ELSE IF IsFloating(t, v) THEN MoveToWorkspace(t, v, t.ws[x], i)
    ELSE AddSibling(Detach(t, v), x, v)
(* What is left behind: an empty column, or a workspace. *)
LeftBehind(t, p, w) == IF p # NIL THEN Reap(t, p)
                       ELSE ConsiderIf(t, w)
-----------------------------------------------------------------------------
(* Outputs come and go, and workspaces with them.                          *)
Raised(seq, i, x) == InsertAt(RemoveFirst(seq, x), i, x)
OutputRaisePriority(t, w, old, o) ==
    LET i == IndexOf(t.prio[w], old)  j == IndexOf(t.prio[w], o)
    IN IF i = 0 \/ (j # 0 /\ j <= i) THEN t
       ELSE [t EXCEPT !.prio[w] = Raised(@, i, o)]
OutputAddPriority(t, w, o) ==
    IF IndexOf(t.prio[w], o) # 0 THEN t ELSE [t EXCEPT !.prio[w] = Append(@, o)]
HighestAvailable(t, w) ==
    LET i == SelectInSeq(t.prio[w], LAMBDA o : o \in Range(t.outs))
    IN IF i = 0 THEN NIL ELSE t.prio[w][i]

MoveToOutputBare(t, w, o) ==
    OutputRaisePriority(WorkspaceConsiderDestroy([t EXCEPT !.on[w] = o], Active(t, o)),
                        w, t.on[w], o)
MoveToOutput(t, w, o) ==
    LET old == t.on[w]
        shown == Active(t, o)
        a == [t EXCEPT !.on[w] = o]
        n == Lowest(Free(a))
        b == IF On(a, old) = {} THEN Raise(WorkspaceCreate(a, old, n), n) ELSE a
    IN OutputRaisePriority(WorkspaceConsiderDestroy(b, shown), w, old, o)

(* restore_workspaces: those that like output o best come back from the    *)
(* other outputs, which get a new one if they have none left, and all come *)
(* back from the fallback output.                                          *)
RestoreFrom(t, other, o) ==
    LET back == {w \in On(t, other) : HighestAvailable(t, w) = o}
        a == [t EXCEPT !.on = [w \in Workspaces |-> IF w \in back THEN o ELSE @[w]]]
    IN IF On(a, other) = {} THEN WorkspaceCreate(a, other, Lowest(Free(a))) ELSE a
RestoreWorkspaces(t, o) ==
    LET a == Rounds([i \in DOMAIN t.outs |-> [u \in States |->
                       IF t.outs[i] = o THEN u ELSE RestoreFrom(u, t.outs[i], o)]], t, Len(t.outs))
    IN [a EXCEPT !.on = [w \in Workspaces |-> IF @[w] = Fallback THEN o ELSE @[w]]]
OutputEnabled(t, o) ==
    LET a == RestoreWorkspaces([t EXCEPT !.outs = Append(@, o)], o)
        n == Lowest(Free(a))
    IN IF On(a, o) # {} THEN a
       ELSE LET b == WorkspaceCreate(a, o, n)
            IN IF FocusedWs(a) = NIL THEN Raise(b, n) ELSE b

IsEmptyToTheEye(t, w) == t.tiling[w] = <<>> /\ t.floating[w] = {}
IsEmpty(t, w) == t.tiling[w] = <<>> /\ t.floating[w] = {} /\ t.pool[w] = {}
(* output_evacuate: one workspace of the output that is gone at a time, in  *)
(* the order of their numbers.                                             *)
Evacuate(t, w) ==
    LET a == [t EXCEPT !.on[w] = NIL]
        best == HighestAvailable(a, w)
        to == IF best # NIL THEN best ELSE IF a.outs # <<>> THEN a.outs[1] ELSE Fallback
        shown == Active(a, to)
        b == [OutputAddPriority(a, w, to) EXCEPT !.on[w] = to]
    IN IF IsEmpty(a, w) THEN WorkspaceBeginDestroy(a, w)
       ELSE IF shown = NIL THEN b ELSE WorkspaceConsiderDestroy(b, shown)
OutputDisabled(t, o) ==
    LET rounds == Cardinality(On(t, o))
    IN Rounds([i \in 1..rounds |-> [u \in States |-> Evacuate(u, Lowest(On(u, o)))]],
              [t EXCEPT !.outs = RemoveFirst(@, o)], rounds)
-----------------------------------------------------------------------------
(* The operations, each a whole handler or command.                        *)
Mapped(v) == v \in s.live
InTree(v) == Mapped(v) /\ s.ws[v] # NIL
Parked(v) == Mapped(v) /\ v \in s.minimized
Hidden(v) == Mapped(v) /\ v \in s.scratch /\ s.ws[v] = NIL /\ ~Parked(v)
(* A crash is the end, and so, here, is the loss of a window that is still *)
(* mapped: its column stays behind empty.                                  *)
Running == s.crash = "no" /\ s.lost = {}
Becomes(t) == Running /\ s' = t
BecomesOneOf(S) == Running /\ s' \in S

(* view_map: on the focused workspace or the one assigned, and it may have *)
(* the focus if that is the focused one.                                   *)
Map(v, w, float, full) ==
    /\ ~Mapped(v) /\ v \notin s.lost /\ \A o \in Workspaces : v \notin s.pool[o]
    /\ w \in Live
    /\ (float => v \in May["float"]) /\ (full => v \in May["fullscreen"])
    /\ LET a == [s EXCEPT !.live = @ \union {v}, !.mode[v] = "none", !.parent[v] = NIL, !.ws[v] = NIL]
       IN \E i \in Positions(s, w) :
            LET d == IF float THEN AddFloating(a, w, v) ELSE AddTiling(a, w, v, i)
            IN Becomes(IF full THEN Fullscreen(d, v, "workspace") ELSE d)

(* view_unmap: what is focused next is in the columns of the workspace.    *)
FocusNext(t, p, w) ==
    LET next == {x \in t.live \intersect Views : t.ws[x] = w /\ t.parent[x] # NIL}
    IN IF p = NIL \/ next = {} THEN {t} ELSE {FocusView(t, x) : x \in next}
Unmap(v) ==
    /\ Mapped(v)
    /\ LET p == s.parent[v]  w == s.ws[v]
       IN BecomesOneOf(FocusNext(LeftBehind(ContainerBeginDestroy(s, v), p, w), p, w))

SetFloating(v) ==
    /\ InTree(v) /\ v \in May["float"]
    /\ IF IsFloating(s, v)
         THEN \E i \in 1 .. (Len(s.tiling[s.ws[v]]) + 1) : Becomes(FloatingDisable(s, v, i))
         ELSE Becomes(FloatingEnable(s, v))

SetFullscreen(v, m) ==
    /\ Mapped(v) /\ m # s.mode[v] /\ v \in May["fullscreen"]
    /\ LET t == Fullscreen(s, v, m)
       IN BecomesOneOf(IF m = "global" /\ s.ws[v] # NIL THEN {t, FocusView(t, v)} ELSE {t})

(* move container to workspace: next to a window there, or as a new column. *)
MoveContainer(v, w) ==
    /\ Mapped(v) /\ ~Parked(v) /\ s.mode[v] # "global" /\ s.outs # <<>>
    /\ w \in Live \union Free(s)
    /\ LET made == IF w \in Live THEN s ELSE WorkspaceCreate(s, s.on[FocusedWs(s)], w)
           a == IF Hidden(v) THEN ScratchpadShow(made, v) ELSE made
       IN \/ \E i \in Positions(a, w) :
               /\ ViewsOn(made, w) = {} \/ \A x \in ViewsOn(made, w) : Floats(made, x)
               /\ Becomes(LeftBehind(MoveToWorkspace(a, v, w, i), s.parent[v], s.ws[v]))
          \/ \E x \in ViewsOn(made, w) : \E i \in Positions(a, w) :
               Becomes(LeftBehind(MoveToContainer(a, v, x, i), s.parent[v], s.ws[v]))

(* move left, right, up and down. *)
Swapped(seq, i, j) == [seq EXCEPT ![i] = seq[j], ![j] = seq[i]]
MoveInDirection(v, i, j) ==
    /\ InTree(v) /\ s.mode[v] = "none" /\ ~IsFloating(s, v) /\ j = i + 1
    /\ \/ LET p == s.parent[v]
          IN /\ p # NIL /\ j <= Len(s.kids[p]) /\ v \in {s.kids[p][i], s.kids[p][j]}
             /\ Becomes(EndMouseOperation([s EXCEPT !.kids[p] = Swapped(@, i, j)], v))
       \/ LET w == s.ws[v]  c == IF s.parent[v] = NIL THEN v ELSE s.parent[v]
          IN /\ j <= Len(s.tiling[w]) /\ c \in {s.tiling[w][i], s.tiling[w][j]}
             /\ Becomes(EndMouseOperation([s EXCEPT !.tiling[w] = Swapped(@, i, j)], v))

(* split none: the column is replaced by its only window. *)
Unsplit(v) ==
    LET p == s.parent[v]
    IN /\ InTree(v) /\ v \in May["unsplit"] /\ p # NIL /\ Len(s.kids[p]) = 1
       /\ Becomes(ContainerBeginDestroy(AddSibling(s, p, v), p))

(* move scratchpad, scratchpad show. *)
MoveToScratchpad(v) ==
    /\ InTree(v) /\ v \in May["float"]
    /\ IF v \in s.scratch THEN Becomes(ScratchpadHide(s, v))
       ELSE BecomesOneOf(Refocus(ScratchpadAdd(s, v), s.ws[v]))
ShowScratchpad(v) ==
    /\ Mapped(v) /\ v \in s.scratch /\ s.outs # <<>>
    /\ Becomes(ScratchpadShow(s, v))

Minimize(v) ==
    /\ Mapped(v) /\ ~Parked(v) /\ v \in May["minimize"]
    /\ LET w == s.ws[v]  t == MinimizedHide(s, v)
       IN BecomesOneOf(IF w # NIL /\ t.alive[w] = "live" THEN Refocus(t, w) ELSE {t})
(* On the focused workspace, or the one under the overview. *)
Restore(v, w) ==
    /\ Parked(v) /\ w \in {FocusedWs(s)} \union {Active(s, o) : o \in Range(s.outs)} /\ w # NIL
    /\ \E i \in Positions(s, w) : Becomes(MinimizedShow(s, v, w, i))

(* The transaction that freed the workspace: what is in its pool goes too. *)
WorkspaceDestroy(w) ==
    /\ s.alive[w] = "dying"
    /\ LET snap == SetToSeq(s.pool[w])
           t == Rounds([i \in DOMAIN snap |-> [u \in States |->
                          [ContainerBeginDestroy(u, snap[i]) EXCEPT
                              !.lost = @ \union ({snap[i]} \intersect s.live)]]], s, Len(snap))
       IN Becomes([t EXCEPT !.alive[w] = "no", !.pool[w] = {},
                            !.crash = IF s.pool[w] \subseteq s.live THEN @ ELSE "used after free"])

(* overview: two columns, or two floating windows, change places. *)
OverviewSwap(v, x) ==
    LET a == s.ws[v]  b == s.ws[x]
        cv == IF s.parent[v] = NIL THEN v ELSE s.parent[v]
        cx == IF s.parent[x] = NIL THEN x ELSE s.parent[x]
        i == IndexOf(s.tiling[a], cv)  j == IndexOf(s.tiling[b], cx)
        apart == Detach(Detach(s, cv), cx)
        crossed == IF IsFloating(s, v)
                     THEN [[apart EXCEPT !.floating[b] = @ \union {v}]
                                  EXCEPT !.floating[a] = @ \union {x}]
                     ELSE [[apart EXCEPT !.tiling[b] = Inserted(@, i, cv)]
                                  EXCEPT !.tiling[a] = Inserted(@, j, cx)]
        t == FullscreenReparent(FullscreenReparent(Within(Within(crossed, cv, b), cx, a), cv), cx)
    IN /\ InTree(v) /\ InTree(x) /\ cv # cx /\ IsFloating(s, v) = IsFloating(s, x)
       /\ Becomes(FocusView(IF ~IsFloating(s, v) /\ (i = 0 \/ j = 0) THEN s
                            ELSE IF a # b THEN t
                            ELSE IF IsFloating(s, v) THEN s
                            ELSE [s EXCEPT !.tiling[a] = Swapped(@, i, j)], x))

(* overview: the column of a window, or a floating window, is pulled to the *)
(* workspace shown under the pointer.                                      *)
PullFloating(t, v, w) ==
    LET old == t.ws[v]  a == DisableIf(t, v)
    IN IF old = w THEN a ELSE WorkspaceConsiderDestroy(AddFloating(Detach(a, v), w, v), old)
PullColumn(t, v, w, i) ==
    LET old == t.ws[v]
        c == IF t.parent[v] = NIL THEN v ELSE t.parent[v]
        own == IF IsColumn(c) THEN t.kids[c] ELSE <<c>>
        first == SelectInSeq(own, LAMBDA x : t.mode[x] # "none")
        a == IF first = 0 THEN t ELSE FullscreenDisable(t, own[first])
        b == DisableIf(a, a.fs[w])
        col == IF c \in Views THEN Fresh(b) ELSE c
        d == IF c \in Views THEN NewColumn(b, w, c) ELSE IF old # w THEN Detach(b, c) ELSE b
        was == IndexOf(d.tiling[w], col)
        end == Len(d.tiling[w]) + 1
        to == IF i > end THEN end ELSE i
        at == IF was # 0 /\ was < to THEN to - 1 ELSE to
        e == Place([d EXCEPT !.tiling[w] = InsertAt(RemoveFirst(@, col), at, col)], col, w)
    IN IF old # w THEN WorkspaceConsiderDestroy(e, old) ELSE e
OverviewPull(v, w) ==
    /\ InTree(v) /\ w \in {Active(s, o) : o \in Range(s.outs)}
    /\ IF IsFloating(s, v)
         THEN Becomes(FocusView(PullFloating(s, v, w), v))
         ELSE \E i \in 1 .. (Len(s.tiling[w]) + 1) : Becomes(FocusView(PullColumn(s, v, w, i), v))

(* workspace: switch to one, which is created on the focused output. *)
Switch(w) ==
    /\ s.outs # <<>> /\ w \in Live \union Free(s) /\ w # FocusedWs(s)
    /\ LET t == IF w \in Live THEN s ELSE WorkspaceCreate(s, s.on[FocusedWs(s)], w)
       IN BecomesOneOf(Refocus(t, w))
(* A bound, here and below: there is a number left for a new workspace. *)
MoveWorkspace(w, o) ==
    /\ Free(s) # {}
    /\ w \in Live /\ s.on[w] # o /\ o \in Range(s.outs) /\ s.on[w] # Fallback
    /\ LET t == MoveToOutput(s, w, o) IN BecomesOneOf({t} \union Refocus(t, w))

(* And one for each output that the new one takes the workspaces of.       *)
OutputEnable(o) ==
    /\ Free(s) # {} /\ Cardinality(Free(s)) >= Len(s.outs)
    /\ o \notin Range(s.outs) /\ Becomes(OutputEnabled(s, o))
OutputDisable(o) == o \in Range(s.outs) /\ Becomes(OutputDisabled(s, o))
-----------------------------------------------------------------------------
(* The server starts without outputs.                                      *)
Init == s = [ live |-> {}, lost |-> {},
              parent |-> [c \in Containers |-> NIL], ws |-> [c \in Containers |-> NIL],
              kids |-> [c \in Columns |-> <<>>], mode |-> [v \in Views |-> "none"],
              minimized |-> {}, wasfloat |-> {}, scratch |-> {},
              tiling |-> [w \in Workspaces |-> <<>>], floating |-> [w \in Workspaces |-> {}],
              pool |-> [w \in Workspaces |-> {}], fs |-> [w \in Workspaces |-> NIL],
              gfs |-> NIL, on |-> [w \in Workspaces |-> NIL],
              alive |-> [w \in Workspaces |-> "no"], prio |-> [w \in Workspaces |-> <<>>],
              outs |-> <<>>, recent |-> <<>>, op |-> NoOperation, crash |-> "no" ]

WindowStep(v) ==
    \/ \E w \in Workspaces, float, full \in BOOLEAN : Map(v, w, float, full)
    \/ Unmap(v)
    \/ SetFloating(v)
    \/ \E m \in Modes : SetFullscreen(v, m)
    \/ \E i, j \in 1 .. Cardinality(Views) : MoveInDirection(v, i, j)
    \/ Unsplit(v)
    \/ MoveToScratchpad(v)
    \/ ShowScratchpad(v)
    \/ Minimize(v)
WorkspaceStep(w) ==
    \/ \E v \in Views : MoveContainer(v, w) \/ Restore(v, w) \/ OverviewPull(v, w)
    \/ WorkspaceDestroy(w)
    \/ Switch(w)
    \/ \E o \in Outputs : MoveWorkspace(w, o)
(* A bound: there is a column left for a new one.  As no column is empty,  *)
(* there is if there are more columns than windows.                        *)
Next == /\ Columns \ s.live # {}
        /\ \/ \E v \in Views : WindowStep(v)
           \/ \E v, x \in Views : OverviewSwap(v, x)
           \/ \E w \in Workspaces : WorkspaceStep(w)
           \/ \E o \in Outputs : OutputEnable(o) \/ OutputDisable(o)

Spec == Init /\ [][Next]_s
-----------------------------------------------------------------------------
(* Properties.                                                             *)

TypeOK ==
    /\ s.live \subseteq Containers /\ s.lost \subseteq Views
    /\ s.parent \in [Containers -> Columns \union {NIL}]
    /\ s.ws \in [Containers -> Workspaces \union {NIL}]
    /\ \A c \in Columns : Range(s.kids[c]) \subseteq Views
    /\ s.mode \in [Views -> Modes]
    /\ s.minimized \subseteq Views /\ s.wasfloat \subseteq Views /\ s.scratch \subseteq Views
    /\ \A w \in Workspaces : /\ Range(s.tiling[w]) \subseteq Containers
                              /\ s.floating[w] \subseteq Views /\ s.pool[w] \subseteq Views
                              /\ s.fs[w] \in Views \union {NIL}
                              /\ s.on[w] \in Outputs \union {Fallback, NIL}
                              /\ s.alive[w] \in {"no", "live", "dying"}
    /\ s.gfs \in Views \union {NIL}
    /\ Range(s.outs) \subseteq Outputs /\ Range(s.recent) \subseteq Workspaces
    /\ s.op \in Operations

Unique(seq) == Cardinality(Range(seq)) = Len(seq)

(* The lists of the tree and the pointers of its containers tell the same: *)
(* a window is in the one list its parent and workspace name, or in none   *)
(* when it is put away; no column is empty, or left on a workspace that is *)
(* gone; and no container or workspace has been destroyed twice            *)
(* (container_reap_empty, workspace_consider_destroy).                     *)
Linked == TypeOK /\ s.crash # "destroyed twice" /\ (Running =>
    /\ \A c \in Columns \intersect s.live :
          s.kids[c] # <<>> /\ s.ws[c] # NIL /\ c \in Range(s.tiling[s.ws[c]])
    /\ \A c \in Columns : /\ Unique(s.kids[c])
                          /\ \A v \in Range(s.kids[c]) : s.parent[v] = c /\ s.ws[v] = s.ws[c]
    /\ \A w \in Workspaces :
          /\ Unique(s.tiling[w])
          /\ \A c \in Range(s.tiling[w]) \union s.floating[w] :
                c \in s.live /\ s.parent[c] = NIL /\ s.ws[c] = w
          /\ s.alive[w] # "live" => s.tiling[w] = <<>> /\ s.floating[w] = {}
    /\ \A v \in Views \intersect s.live :
          \/ s.parent[v] # NIL /\ v \in Range(s.kids[s.parent[v]])
          \/ s.ws[v] # NIL /\ v \in Range(s.tiling[s.ws[v]]) \union s.floating[s.ws[v]]
          \/ s.ws[v] = NIL /\ v \in s.scratch \union s.minimized)

(* A minimized window is out of the tree and in the pool of one workspace, *)
(* unless it was hidden in the scratchpad or its workspace is being        *)
(* destroyed; the pools of the live workspaces hold nothing else.          *)
Pooled == Running =>
    /\ \A v \in s.minimized :
          LET pools == {w \in Live : v \in s.pool[w]}
          IN /\ s.ws[v] = NIL /\ s.parent[v] = NIL
             /\ Cardinality(pools) <= 1
             /\ pools = {} => v \in s.scratch \union UNION {s.pool[w] : w \in Workspaces}
    /\ \A w \in Live : s.pool[w] \subseteq s.minimized

(* The window a workspace or the root calls its fullscreen one is there,   *)
(* and in that mode; and nobody else is fullscreen on the whole layout.    *)
FullscreenAgrees == Running =>
    /\ \A w \in Workspaces : s.fs[w] # NIL => s.ws[s.fs[w]] = w /\ s.mode[s.fs[w]] = "workspace"
    /\ s.gfs # NIL => s.gfs \in s.live /\ s.mode[s.gfs] = "global"
    /\ \A v \in Views \intersect s.live : s.mode[v] = "global" => s.gfs = v

(* Every output shows a workspace, and no workspace is on an output that   *)
(* is gone.                                                                *)
OutputsServed == Running =>
    /\ \A o \in Range(s.outs) : On(s, o) # {}
    /\ \A w \in Live : s.on[w] \in Range(s.outs) \union (IF s.outs = <<>> THEN {Fallback} ELSE {})

(* Outputs coming and going close no window, put none on another workspace *)
(* and take no workspace that has one, shown or minimized.                 *)
OutputsKeepWindows ==
    [][s'.outs # s.outs =>
         /\ s'.live = s.live /\ s'.ws = s.ws /\ s'.pool = s.pool
         /\ \A w \in Live, v \in s.live : s.ws[v] = w \/ v \in s.pool[w] => s'.alive[w] = "live"]_s

(* No window that is mapped is destroyed. *)
NoWindowLost == s.lost = {}
=============================================================================
