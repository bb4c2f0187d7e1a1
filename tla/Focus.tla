------------------------------- MODULE Focus -------------------------------
(***************************************************************************)
(* The keyboard focus of a seat: sway/input/seat.c, with what takes the    *)
(* focus and gives it back: views being mapped and unmapped (tree/view.c), *)
(* workspaces coming and going (tree/workspace.c), layer surfaces          *)
(* (desktop/layer_shell.c) and the lock screen (lock.c).                   *)
(*                                                                         *)
(* The seat keeps its nodes in a stack, the most recently focused first.   *)
(* The first is focused unless has_focus is false, which it is while a     *)
(* layer has the focus.  The workspace an output shows is the first of its *)
(* workspaces in the stack, so closing a window that is nowhere near the   *)
(* focus reorders what outputs show.                                       *)
(*                                                                         *)
(* The functions of seat.c are operators from a record to a record, as in  *)
(* Transaction, and call each other as in the code.  seat_set_focus and    *)
(* seat_set_focus_layer are mutually recursive: the inner call is always   *)
(* made without a focused layer, and is SetFocusNoLayer here.              *)
(***************************************************************************)
EXTENDS Naturals, FiniteSets, Sequences, SequencesExt

CONSTANTS
    Views,          \* the windows, each in a container of its own
    FloatingViews,  \* the views whose container floats
    FullscreenViews,\* the views that may become fullscreen
    Workspaces,     \* workspaces that may exist
    OutputOf,       \* the output of each workspace
    OutputList,     \* the outputs, in the order of root->outputs
    LayerStack,     \* the layer surfaces, bottom to top, TOP below OVERLAY
    LayerOutput,    \* the output of each layer surface
    OverlayLayers,  \* the layer surfaces in the OVERLAY layer
    Asks,           \* the keyboard interactivities each layer surface asks for
    TopLayers,      \* the layer surfaces in the TOP layer, the rest are below
    Clients,        \* the clients
    ClientOf,       \* the client of each view and layer surface
    Lockers,        \* the clients that may lock the session
    InitialStack,   \* one workspace of each output
    NULL            \* no node, no layer, no surface

Outputs == ToSet(OutputList)
Layers == ToSet(LayerStack)
FocusNodes == Views \cup Workspaces

ASSUME FocusAssumption ==
    /\ FloatingViews \subseteq Views /\ FullscreenViews \subseteq Views
    /\ OutputList \in Seq(Outputs) /\ LayerStack \in Seq(Layers)
    /\ OutputOf \in [Workspaces -> Outputs]
    /\ LayerOutput \in [Layers -> Outputs]
    /\ Asks \in [Layers -> SUBSET {"none", "on_demand", "exclusive"}]
    /\ OverlayLayers \subseteq Layers /\ TopLayers \subseteq Layers \ OverlayLayers
    /\ ClientOf \in [Views \cup Layers -> Clients] /\ Lockers \subseteq Clients
    /\ InitialStack \in Seq(Workspaces) /\ InitialStack # << >> /\ IsInjective(InitialStack)
    /\ {OutputOf[w] : w \in ToSet(InitialStack)} = Outputs
    /\ Views \cap (Workspaces \cup Layers \cup Outputs) = {} /\ Layers \cap Outputs = {}
    /\ NULL \notin Views \cup Workspaces \cup Layers \cup Outputs

VARIABLE seat

Interactivity == {"unmapped", "none", "on_demand", "exclusive"}

(***************************************************************************)
(* seat holds, of struct sway_seat: focus_stack, has_focus, workspace,     *)
(* focused_layer, has_exclusive_layer; keyboard is the surface wlr_seat    *)
(* sends keys to, NULL also for one that is not mapped any more.  pending  *)
(* is the workspace of each view, NULL while it is unmapped; fullscreen    *)
(* the fullscreen view of each workspace; interactive the keyboard         *)
(* interactivity of the mapped layers; of the session lock: locked,        *)
(* abandoned, the state of the lock surface of each output, and focused.   *)
(* A lock surface goes by the name of its output.                          *)
(* A workspace exists while it is in the stack: it is put there when it is *)
(* created (new_node), and taken out when its destruction begins.          *)
(***************************************************************************)
Seats ==
    [focus_stack : Seq(FocusNodes),
     has_focus : BOOLEAN,
     workspace : Workspaces \cup {NULL},
     focused_layer : Layers \cup {NULL},
     has_exclusive_layer : BOOLEAN,
     keyboard : Views \cup Layers \cup Outputs \cup {NULL},
     pending : [Views -> Workspaces \cup {NULL}],
     fullscreen : [Workspaces -> Views \cup {NULL}],
     interactive : [Layers -> Interactivity],
     locked : BOOLEAN,
     abandoned : BOOLEAN,
     surface : [Outputs -> {"none", "created", "mapped"}],
     focused : Outputs \cup {NULL}]

(* The record keeps its type, and no node is in the stack twice. *)
TypeOK ==
    /\ seat \in Seats
    /\ IsInjective(seat.focus_stack)

Init ==
    seat = [focus_stack |-> InitialStack,
            has_focus |-> TRUE,
            workspace |-> Head(InitialStack),
            focused_layer |-> NULL,
            has_exclusive_layer |-> FALSE,
            keyboard |-> NULL,
            pending |-> [v \in Views |-> NULL],
            fullscreen |-> [w \in Workspaces |-> NULL],
            interactive |-> [l \in Layers |-> "unmapped"],
            locked |-> FALSE,
            abandoned |-> FALSE,
            surface |-> [o \in Outputs |-> "none"],
            focused |-> NULL]

----------------------------------------------------------------------------
(***************************************************************************)
(* Queries of the stack.                                                   *)
(***************************************************************************)
Live(s) == ToSet(s.focus_stack) \cap Workspaces
Mapped(s) == {v \in Views : s.pending[v] # NULL}
ViewsIn(s, w) == {v \in Views : s.pending[v] = w}
MappedLayers(s) == {l \in Layers : s.interactive[l] # "unmapped"}

(* The first node of the stack that is in S. *)
MostRecent(s, S) ==
    LET i == SelectInSeq(s.focus_stack, LAMBDA n : n \in S)
    IN  IF i = 0 THEN NULL ELSE s.focus_stack[i]

FocusInactive(s) == MostRecent(s, FocusNodes)
GetFocus(s) == IF s.has_focus THEN FocusInactive(s) ELSE NULL

WorkspaceOf(s, n) == IF n \in Views THEN s.pending[n] ELSE n

ActiveWorkspace(s, o) == MostRecent(s, {w \in Workspaces : OutputOf[w] = o})
Visible(s, w) == w \in Live(s) /\ ActiveWorkspace(s, OutputOf[w]) = w

SetRawFocus(s, n) == [s EXCEPT !.focus_stack = <<n>> \o RemoveFirst(@, n)]

SeatNodeDestroy(s, n) ==
    LET rest == RemoveFirst(s.focus_stack, n)
    IN  [s EXCEPT !.focus_stack = rest, !.has_focus = @ /\ rest # << >>]

----------------------------------------------------------------------------
(***************************************************************************)
(* Setting the focus.                                                      *)
(***************************************************************************)

(* A view gets the keyboard unless the session is locked: it is no lock surface. *)
SendFocus(s, n) ==
    IF n \in Views /\ ~s.locked THEN [s EXCEPT !.keyboard = n] ELSE s

SendUnfocus(s) == [s EXCEPT !.keyboard = NULL]

SetFocusSurface(s, surface, unfocus) ==
    [s EXCEPT !.keyboard = surface, !.has_focus = @ /\ ~unfocus]

(***************************************************************************)
(* workspace_consider_destroy: an empty workspace goes unless its output   *)
(* shows it or the seat would return to it.                                *)
(***************************************************************************)
Disposable(s, w) ==
    /\ w \in Live(s)
    /\ ViewsIn(s, w) = {}
    /\ ~Visible(s, w)
    /\ FocusInactive(s) # w

(* A view behind a fullscreen one is not focused. *)
Obstructed(s, n) ==
    n \in Views /\ s.fullscreen[s.pending[n]] \notin {n, NULL}

Reaped(s, w) == IF Disposable(s, w) THEN SeatNodeDestroy(s, w) ELSE s

Unfocused(s) == IF GetFocus(s) = NULL THEN s ELSE SendUnfocus(s)

(* The workspace of the node is raised, then the node. *)
Raised(s, n) ==
    IF n \in Views
    THEN SendFocus(SetRawFocus(SetRawFocus(s, s.pending[n]), n), n)
    ELSE SetRawFocus(s, n)

(***************************************************************************)
(* The workspace the output showed before is considered for destruction    *)
(* last, when seat->workspace is another already.                          *)
(***************************************************************************)
SetWorkspaceFocus(s, n) ==
    LET new_workspace == WorkspaceOf(s, n)
        last_workspace == ActiveWorkspace(s, OutputOf[new_workspace])
        moved == [Raised(Unfocused(s), n) EXCEPT !.workspace = new_workspace]
    IN  CASE n = NULL -> [Unfocused(s) EXCEPT !.has_focus = FALSE]
          [] n # NULL /\ (GetFocus(s) = n \/ Obstructed(s, n)) -> s
          [] OTHER -> [Reaped(moved, last_workspace) EXCEPT !.has_focus = TRUE]

(* Mutant: whatever is focused behind the lock screen takes its keyboard. *)
RedirectedNever(s) == s

(* While the session is locked, the keyboard goes back to the lock screen. *)
Redirected(s) == IF s.locked THEN SetFocusSurface(s, s.focused, FALSE) ELSE s

SetFocusNoLayer(s, n) == Redirected(SetWorkspaceFocus(s, n))

(* seat_set_focus_layer(seat, NULL): the node focused before is focused again. *)
LayerLosesFocus(s) ==
    LET unset == [s EXCEPT !.focused_layer = NULL]
        previous == FocusInactive(s)
    IN  IF s.focused_layer = NULL THEN s
        ELSE IF previous = NULL THEN unset
        ELSE SetFocusNoLayer(SetFocusNoLayer(unset, NULL), previous)

SetFocusLayer(s, l) ==
    LET exclusive == l \in TopLayers \cup OverlayLayers /\ s.interactive[l] = "exclusive"
        noted == [s EXCEPT !.has_exclusive_layer = @ \/ exclusive]
    IN  IF s.locked THEN s
        ELSE IF s.focused_layer = l THEN noted
        ELSE [SetFocusSurface(noted, l, TRUE) EXCEPT !.focused_layer = l]

LayerRegainsFocus(s, l) ==
    IF s.has_exclusive_layer /\ l # NULL THEN SetFocusLayer(s, l) ELSE s

(* Mutant: the exclusive layer does not get the focus back. *)
SetFocusTaken(s, n) == Redirected(SetWorkspaceFocus(LayerLosesFocus(s), n))

(* seat_set_focus and seat_set_focus_raw: an exclusive layer gets the focus back. *)
SetFocus(s, n) ==
    Redirected(LayerRegainsFocus(SetWorkspaceFocus(LayerLosesFocus(s), n),
                                 s.focused_layer))

(* Mutant: what is focused already is not told again. *)
FocusAgainOnce(s, n) == IF n = NULL THEN s ELSE SetFocus(s, n)

(* Unfocus and focus again, so that the client is told once more. *)
FocusAgain(s, n) == IF n = NULL THEN s ELSE SetFocus(SetFocus(s, NULL), n)

----------------------------------------------------------------------------
(***************************************************************************)
(* Nodes being destroyed.                                                  *)
(***************************************************************************)

(***************************************************************************)
(* handle_seat_node_destroy for a container of workspace w: the next focus *)
(* is the most recent view among its siblings, else in w, else w itself.   *)
(* If the container had the focus, the next one gets it; otherwise it is   *)
(* only moved behind what has it.                                          *)
(***************************************************************************)
ContainerDestroyed(s, n, siblings, w) ==
    LET needs_new_focus == n # NULL /\ GetFocus(s) = n
        gone == SeatNodeDestroy(s, n)
        sibling == MostRecent(gone, siblings \ {n})
        view == IF sibling # NULL THEN sibling ELSE MostRecent(gone, ViewsIn(s, w) \ {n})
        next_focus == IF view # NULL THEN view ELSE w
        focus == FocusInactive(gone)
        inactive == SetRawFocus(gone, next_focus)
    IN  IF next_focus = w /\ ~Visible(gone, w) THEN gone
        ELSE IF needs_new_focus
        THEN IF GetFocus(gone) = next_focus THEN SendFocus(gone, next_focus)
             ELSE SetFocus(gone, next_focus)
        ELSE SetRawFocus(IF focus \in Views THEN SetRawFocus(inactive, s.pending[focus])
                         ELSE inactive, focus)

(* ... and for a workspace. *)
WorkspaceDestroyed(s, w) ==
    LET gone == SeatNodeDestroy(s, w)
        next_focus == FocusInactive(gone)
        unset == SetFocus(gone, NULL)
    IN  IF s.workspace # w THEN gone
        ELSE IF next_focus = NULL THEN [unset EXCEPT !.workspace = NULL]
        ELSE SetFocus(unset, next_focus)

ConsiderDestroy(s, w) == IF Disposable(s, w) THEN WorkspaceDestroyed(s, w) ELSE s

(* Mutant: the workspace of the column is left empty. *)
ColumnDestroyedOnly(s, w) == ContainerDestroyed(s, NULL, {}, w)

(***************************************************************************)
(* A column of workspace w that lost its last view is destroyed.  Columns  *)
(* are not kept in the stack of the model: they never have the focus.      *)
(***************************************************************************)
ColumnDestroyed(s, w) == ConsiderDestroy(ContainerDestroyed(s, NULL, {}, w), w)

----------------------------------------------------------------------------
(***************************************************************************)
(* Windows.                                                                *)
(***************************************************************************)

(* Mutant: the view is put behind the focus wherever it is. *)
FullscreenBehind(s, v) ==
    LET set == [s EXCEPT !.fullscreen[s.pending[v]] = v]
    IN  SetRawFocus(SetRawFocus(set, v), FocusInactive(s))

(***************************************************************************)
(* A view becomes fullscreen: it is focused if its workspace is, otherwise *)
(* it is put behind what has the focus.                                    *)
(***************************************************************************)
FullscreenWorkspace(s, v) ==
    LET w == s.pending[v]
        set == [s EXCEPT !.fullscreen[w] = v]
        focus == FocusInactive(s)
    IN  IF WorkspaceOf(s, focus) = w THEN SetFocus(set, v)
        ELSE SetRawFocus(SetRawFocus(set, v), focus)

(* A view takes the focus only where the focus is, if no view is fullscreen there. *)
FocusMapped(s, v) ==
    IF /\ WorkspaceOf(s, FocusInactive(s)) = s.pending[v]
       /\ s.fullscreen[s.pending[v]] = NULL
    THEN SetFocus(s, v) ELSE s

(***************************************************************************)
(* A view is mapped on a workspace, and focused if no rule or input model  *)
(* forbids it.                                                             *)
(***************************************************************************)
Map(v, w, allowed, fullscreen) ==
    LET added == [seat EXCEPT !.focus_stack = Append(@, v), !.pending[v] = w]
        set == IF fullscreen THEN FullscreenWorkspace(added, v) ELSE added
    IN  /\ v \notin Mapped(seat)
        /\ fullscreen => v \in FullscreenViews
        /\ w \in Live(seat)
        /\ seat' = IF allowed THEN FocusMapped(set, v) ELSE set

(***************************************************************************)
(* A view is unmapped.  siblings are the other views of its column.  The   *)
(* view to focus next is one of them, or without any one of another column *)
(* of the workspace; a floating view has none.                             *)
(***************************************************************************)
NextFocus(v, siblings) ==
    LET tiled == ViewsIn(seat, seat.pending[v]) \ (FloatingViews \cup {v})
    IN  IF v \in FloatingViews \/ tiled = {} THEN {NULL}
        ELSE IF siblings # {} THEN siblings ELSE tiled

(* The view is not fullscreen any more when the seat looks for the next focus. *)
ContainerBeginDestroy(s, v, siblings) ==
    LET w == s.pending[v]
        restored == [s EXCEPT !.fullscreen[w] = IF @ = v THEN NULL ELSE @]
    IN  [ContainerDestroyed(restored, v, siblings, w) EXCEPT !.pending[v] = NULL]

(* The column that lost its last view goes, or the workspace may. *)
ReapedAfter(s, v, siblings, w) ==
    CASE v \in FloatingViews -> ConsiderDestroy(s, w)
      [] v \notin FloatingViews /\ siblings = {} -> ColumnDestroyed(s, w)
      [] OTHER -> s

Unmap(v, siblings, next_focus) ==
    LET w == seat.pending[v]
        unmapped == [seat EXCEPT !.keyboard = IF @ = v THEN NULL ELSE @]
        reaped == ReapedAfter(ContainerBeginDestroy(unmapped, v, siblings), v, siblings, w)
    IN  /\ v \in Mapped(seat)
        /\ siblings \subseteq ViewsIn(seat, w) \ (FloatingViews \cup {v})
        /\ v \in FloatingViews => siblings = {}
        /\ next_focus \in NextFocus(v, siblings)
        /\ seat' = IF next_focus # NULL THEN SetFocus(reaped, next_focus) ELSE reaped

(* The views of a column moved into another one of the same workspace. *)
ColumnsMerged(w) ==
    /\ Cardinality(ViewsIn(seat, w) \ FloatingViews) > 1
    /\ seat' = ColumnDestroyed(seat, w)

(* The view that was fullscreen in the workspace is not any more. *)
Fullscreen(v) ==
    /\ v \in Mapped(seat) \cap FullscreenViews
    /\ seat.fullscreen[seat.pending[v]] # v
    /\ seat' = FullscreenWorkspace(seat, v)

FullscreenDisable(w) ==
    /\ seat.fullscreen[w] # NULL
    /\ seat' = [seat EXCEPT !.fullscreen[w] = NULL]

(* A click, a command or an activation focuses a view. *)
FocusView(v) ==
    /\ v \in Mapped(seat)
    /\ seat' = SetFocus(seat, v)

(* A click on a visible workspace beside its windows. *)
FocusWorkspace(w) ==
    /\ Visible(seat, w)
    /\ seat' = SetFocus(seat, w)

Switched(s, w) ==
    LET view == MostRecent(s, ViewsIn(s, w))
    IN  SetFocus(s, IF view # NULL THEN view ELSE w)

(* workspace_switch, of a workspace that may have to be created first. *)
WorkspaceSwitch(w) ==
    LET created == IF w \in Live(seat) THEN seat
                   ELSE [seat EXCEPT !.focus_stack = Append(@, w)]
    IN  seat' = Switched(created, w)

(* A keyboard whose configuration changed is told the focus again. *)
KeyboardReset ==
    LET layer == seat.focused_layer
        focus == GetFocus(seat)
    IN  seat' = IF focus # NULL THEN FocusAgain(seat, focus)
                ELSE IF layer # NULL THEN SetFocusLayer(LayerLosesFocus(seat), layer)
                ELSE SetFocusSurface(SetFocusSurface(seat, NULL, FALSE), seat.keyboard, FALSE)

----------------------------------------------------------------------------
(***************************************************************************)
(* Layer surfaces.                                                         *)
(***************************************************************************)

(* The topmost exclusive layer of output o. *)
Topmost(s, o) ==
    LET i == SelectLastInSeq(LayerStack,
                 LAMBDA l : /\ l \in TopLayers \cup OverlayLayers
                            /\ LayerOutput[l] = o
                            /\ s.interactive[l] = "exclusive")
    IN  IF i = 0 THEN NULL ELSE LayerStack[i]

ArrangeLayers(s, o) ==
    LET reset == [s EXCEPT !.has_exclusive_layer = FALSE]
        topmost == Topmost(s, o)
    IN  IF topmost # NULL THEN SetFocusLayer(reset, topmost)
        ELSE IF s.focused_layer # NULL /\ s.interactive[s.focused_layer] = "none"
        THEN LayerLosesFocus(reset)
        ELSE reset

(* A layer has a lower precedence than another one in a higher layer. *)
Precedence(l) ==
    CASE l \in OverlayLayers -> 2 [] l \in TopLayers -> 1 [] OTHER -> 0

HandleLayerMap(s, l) ==
    LET free == \/ s.focused_layer = NULL
                \/ Precedence(s.focused_layer) <= Precedence(l)
    IN  IF s.interactive[l] # "none" /\ l \in TopLayers \cup OverlayLayers
        THEN ArrangeLayers(IF free THEN SetFocusLayer(s, l) ELSE s, LayerOutput[l])
        ELSE s

HandleLayerUnmap(s, l) ==
    LET unmapped == [s EXCEPT !.interactive[l] = "unmapped",
                              !.keyboard = IF @ = l THEN NULL ELSE @]
    IN  IF s.focused_layer = l THEN LayerLosesFocus(unmapped) ELSE unmapped

(***************************************************************************)
(* A client commits a layer surface: it is mapped or unmapped, or changes  *)
(* its interactivity.  Then the layers of the output are arranged.         *)
(***************************************************************************)
LayerCommit(l, interactivity) ==
    LET set == [seat EXCEPT !.interactive[l] = interactivity]
        handled == IF interactivity = "unmapped" THEN HandleLayerUnmap(seat, l)
                   ELSE IF l \in MappedLayers(seat) THEN set
                   ELSE HandleLayerMap(set, l)
    IN  /\ interactivity \in Asks[l] \cup {"unmapped"}
        /\ interactivity # seat.interactive[l]
        /\ seat' = ArrangeLayers(handled, LayerOutput[l])

(***************************************************************************)
(* A client destroys a layer surface: another one of its overlay layers,   *)
(* on another output, is considered for the focus.                         *)
(***************************************************************************)
LayerDestroy(l) ==
    LET unmapped == HandleLayerUnmap(seat, l)
        considered == {k \in OverlayLayers \cap MappedLayers(unmapped) :
                          ClientOf[k] = ClientOf[l] /\ LayerOutput[k] # LayerOutput[l]}
        first == SelectInSeq(LayerStack, LAMBDA k : k \in considered)
        passed == IF considered = {} THEN unmapped
                  ELSE SetFocusLayer(unmapped, LayerStack[first])
    IN  /\ l \in MappedLayers(seat)
        /\ seat' = ArrangeLayers(passed, LayerOutput[l])

(* A click on a layer that accepts the keyboard. *)
LayerClick(l) ==
    /\ l \in MappedLayers(seat)
    /\ seat.interactive[l] # "none"
    /\ seat' = SetFocusLayer(seat, l)

(* An output is configured. *)
OutputConfigured(o) == seat' = ArrangeLayers(seat, o)

----------------------------------------------------------------------------
(***************************************************************************)
(* The session lock.                                                       *)
(***************************************************************************)
MappedSurfaces(s) == {o \in Outputs : s.surface[o] = "mapped"}

FocusLockSurface(s, o) == SetFocusSurface([s EXCEPT !.focused = o], o, FALSE)

(* seat_unfocus_unless_client *)
UnfocusUnlessClient(s, c) ==
    LET l == s.focused_layer
        layerless == IF l # NULL /\ ClientOf[l] # c THEN LayerLosesFocus(s) ELSE s
        focus == GetFocus(layerless)
    IN  IF focus \in Views /\ ClientOf[focus] # c
        THEN SetFocus(layerless, NULL) ELSE layerless

(* A client locks the session, or takes over from one that went away. *)
SessionLock(c) ==
    LET replaced == [seat EXCEPT !.locked = FALSE, !.abandoned = FALSE]
    IN  /\ seat.locked => seat.abandoned
        /\ seat' = [UnfocusUnlessClient(replaced, c) EXCEPT !.locked = TRUE]

LockSurfaceCreate(o) ==
    /\ seat.locked /\ ~seat.abandoned
    /\ seat.surface[o] = "none"
    /\ seat' = [seat EXCEPT !.surface[o] = "created"]

LockSurfaceMap(o) ==
    LET mapped == [seat EXCEPT !.surface[o] = "mapped"]
    IN  /\ seat.surface[o] = "created"
        /\ seat' = IF seat.focused = NULL THEN FocusLockSurface(mapped, o) ELSE mapped

(***************************************************************************)
(* refocus_output: another lock surface gets the focus of one that goes.   *)
(* Which is first in the list depends on when the outputs appeared.        *)
(***************************************************************************)
Candidates(s, o) ==
    IF MappedSurfaces(s) \subseteq {o} THEN {NULL} ELSE MappedSurfaces(s) \ {o}

LockSurfaceDestroy(o, next_focus) ==
    LET refocused == IF seat.focused = o THEN FocusLockSurface(seat, next_focus) ELSE seat
    IN  /\ seat.surface[o] # "none"
        /\ next_focus \in Candidates(seat, o)
        /\ seat' = [refocused EXCEPT !.surface[o] = "none"]

(* All the lock surfaces go, each leaving the focus to those that are left. *)
LockSurfacesGone(s) ==
    LET refocused == IF s.focused # NULL THEN FocusLockSurface(s, NULL) ELSE s
    IN  [refocused EXCEPT !.surface = [o \in Outputs |-> "none"]]

(* The client that locked the session goes away. *)
SessionAbandon ==
    /\ seat.locked /\ ~seat.abandoned
    /\ seat' = [LockSurfacesGone(seat) EXCEPT !.abandoned = TRUE]

(* The layers of every output are arranged, one output after the other. *)
Arranged(s) ==
    LET upto[i \in 0..Len(OutputList)] ==
            IF i = 0 THEN s ELSE ArrangeLayers(upto[i - 1], OutputList[i])
    IN  upto[Len(OutputList)]

SessionUnlock ==
    LET unlocked == [LockSurfacesGone(seat) EXCEPT !.locked = FALSE]
    IN  /\ seat.locked /\ ~seat.abandoned
        /\ seat' = Arranged(FocusAgain(unlocked, FocusInactive(unlocked)))

----------------------------------------------------------------------------
Next ==
    \/ \E v \in Views, w \in Workspaces, allowed, fullscreen \in BOOLEAN :
          Map(v, w, allowed, fullscreen)
    \/ \E v \in Views, next_focus \in Views \cup {NULL}, siblings \in SUBSET Views :
          Unmap(v, siblings, next_focus)
    \/ \E v \in Views : Fullscreen(v) \/ FocusView(v)
    \/ \E w \in Workspaces : FullscreenDisable(w) \/ ColumnsMerged(w)
    \/ \E w \in Workspaces : FocusWorkspace(w) \/ WorkspaceSwitch(w)
    \/ KeyboardReset
    \/ \E l \in Layers, i \in Interactivity : LayerCommit(l, i)
    \/ \E l \in Layers : LayerDestroy(l) \/ LayerClick(l)
    \/ \E o \in Outputs : OutputConfigured(o)
    \/ \E c \in Lockers : SessionLock(c)
    \/ \E o \in Outputs : LockSurfaceCreate(o) \/ LockSurfaceMap(o)
    \/ \E o \in Outputs, next_focus \in Outputs \cup {NULL} :
          LockSurfaceDestroy(o, next_focus)
    \/ SessionAbandon
    \/ SessionUnlock

Spec == Init /\ [][Next]_seat

----------------------------------------------------------------------------
(***************************************************************************)
(* The client that has the focus has the keyboard.  The focus is changed   *)
(* by removing nodes from the stack as much as by setting it, and the node *)
(* that comes to its top has to be told (seat.c:309).                      *)
(***************************************************************************)
KeyboardFollowsFocus ==
    /\ TypeOK
    /\ ~seat.locked =>
        /\ seat.focused_layer # NULL => seat.keyboard = seat.focused_layer
        /\ GetFocus(seat) \in Views => seat.keyboard = GetFocus(seat)

(***************************************************************************)
(* While the session is locked the keyboard stays on the focused surface   *)
(* of the lock screen, whatever is focused behind it; and it has a focused *)
(* surface as soon as and as long as one is mapped.                        *)
(***************************************************************************)
LockScreenHasKeyboard ==
    /\ seat.focused = NULL <=> MappedSurfaces(seat) = {}
    /\ seat.focused # NULL => seat.focused \in MappedSurfaces(seat)
                              /\ seat.keyboard = seat.focused

(***************************************************************************)
(* Every window is on a workspace that exists.  An empty workspace that no *)
(* output shows comes from no step while a node has the focus: whatever    *)
(* takes the last window of a workspace, or has its output show another    *)
(* one, destroys it (seat.c:1264, view.c:1157).  While a layer has the     *)
(* focus a step may leave one behind: a window that went fullscreen on a   *)
(* hidden workspace is next in the stack (container.c:1842), and comes to  *)
(* its top unnoticed when the window before it is unmapped.                *)
(***************************************************************************)
Forgotten(s) == {w \in Live(s) : ViewsIn(s, w) = {} /\ ~Visible(s, w)}

EmptyWorkspacesGo ==
    [][/\ \A v \in Mapped(seat') : seat'.pending[v] \in Live(seat')
       /\ seat.has_focus => Forgotten(seat') \subseteq Forgotten(seat)]_seat

(***************************************************************************)
(* "If the exclusive layer is set, views cannot receive keyboard focus"    *)
(* (seat.h:102): whatever is clicked, commanded, mapped or unmapped, and   *)
(* on whichever output layers are arranged.                                *)
(***************************************************************************)
ExclusiveBlocksViews ==
    seat.has_exclusive_layer => seat.locked \/ seat.keyboard \notin Views

(***************************************************************************)
(* What has the focus can be seen and is known to be there: no window      *)
(* behind a fullscreen one has it (seat.c:1168), however windows become    *)
(* fullscreen, are raised or inherit it; and seat->workspace, by which     *)
(* bars and commands know the focused workspace, exists and is that of     *)
(* what has the focus.  While a layer has it they may be behind: if the    *)
(* node at the top of the stack is destroyed then, the next one is raised  *)
(* by "setting focus_inactive" (seat.c:317), which sets no workspace.      *)
(***************************************************************************)
FocusInSight ==
    /\ seat.workspace \in Live(seat)
    /\ seat.has_focus => /\ seat.workspace = WorkspaceOf(seat, FocusInactive(seat))
                         /\ ~Obstructed(seat, FocusInactive(seat))
=============================================================================
