------------------------------- MODULE Cursor -------------------------------
(***************************************************************************)
(* The buttons, fingers and pens of a seat, and the clients that are told  *)
(* of them (sway/input/cursor.c with the operations of seatop_default.c    *)
(* and seatop_down.c).                                                     *)
(*                                                                         *)
(* The surfaces that do not understand fingers or pens are shown a mouse   *)
(* instead: what was pressed for them must be released for them, whatever  *)
(* operation the seat is in by then.  Positions are the surface they are   *)
(* over, NIL where there is none.  What the pointer drags is in module     *)
(* Pointer: a drag takes all buttons here and tells nobody.  Scrolling,    *)
(* the overview, the session lock and drag and drop are left out.          *)
(***************************************************************************)
EXTENDS Integers, FiniteSets

CONSTANTS Windows, Layers, Unmanaged,        \* surfaces: of windows, of layers, X11 menus
          TouchCapable, TabletCapable,       \* those that are told of fingers, and of pens
          Fingers, MaxToolButtons, MaxUses, NIL

Surfaces == Windows \union Layers \union Unmanaged
Buttons == {"left", "right"}

CursorAssumption ==
    /\ NIL \notin Surfaces /\ MaxToolButtons \in Nat /\ MaxUses \in Nat
    /\ TouchCapable \union TabletCapable \subseteq Surfaces /\ Fingers # {}

VARIABLE s

Maybe == Surfaces \union {NIL}

(* op is the surface of a seatop_down, points its touch points, combo the  *)
(* pressed_buttons of a seatop_default; focus and told are the surface the *)
(* pointer has entered and what its client takes to be pressed, contacts   *)
(* and tipOn what clients know of fingers and the pen.                     *)
States ==
    [ at       : Maybe,
      op       : {"default", "move", "resize"} \union Surfaces,
      points   : SUBSET Fingers,
      combo    : SUBSET Buttons,
      held     : SUBSET Buttons,              \* by the mouse: pressed_button_count
      focus    : Maybe,
      told     : SUBSET Buttons,
      hidden   : BOOLEAN,
      fingers  : SUBSET Fingers,
      touchId  : Fingers,
      contacts : [Fingers -> Maybe],
      simTouch : Fingers \union {NIL},        \* the finger a pointer is simulated from
      touchUp  : BOOLEAN,                     \* pointer_touch_up
      tip      : BOOLEAN,
      simTip   : BOOLEAN,
      tipOn    : Maybe,
      tools    : 0..MaxToolButtons,           \* tool_buttons
      simTool  : BOOLEAN,
      mixed    : BOOLEAN ]                    \* history: several were down at once

Init == s = [ at |-> NIL, op |-> "default", points |-> {}, combo |-> {}, held |-> {},
              focus |-> NIL, told |-> {}, hidden |-> FALSE, fingers |-> {},
              touchId |-> CHOOSE f \in Fingers : TRUE,
              contacts |-> [f \in Fingers |-> NIL], simTouch |-> NIL, touchUp |-> FALSE,
              tip |-> FALSE, simTip |-> FALSE, tipOn |-> NIL, tools |-> 0, simTool |-> FALSE,
              mixed |-> FALSE ]

(* How many of mouse, fingers and pen the user holds down, and the memory  *)
(* of having held several, or moved a pen away from where the pointer is.  *)
One(b) == IF b THEN 1 ELSE 0
Uses(t) == One(t.held # {}) + Cardinality(t.fingers) + One(t.touchUp) + One(t.tip) + One(t.tools > 0)
Strays(t) == t.op = "default" /\ t.focus \notin {NIL, t.at}
Idle(t) == Uses(t) = 0
Quiet(t) ==
    /\ t.told = {} /\ t.tipOn = NIL /\ t.simTouch = NIL /\ ~t.simTip /\ t.op = "default"
    /\ \A f \in Fingers : t.contacts[f] = NIL
Becomes(t) ==
    /\ Uses(t) <= MaxUses
    /\ s' = [t EXCEPT !.mixed = (@ /\ ~(Idle(t) /\ Quiet(t))) \/ Uses(t) > 1 \/ Strays(t)]

-----------------------------------------------------------------------------
(* The pointer enters a surface and leaves the one before, whose client    *)
(* forgets the buttons (wlr_seat_pointer_notify_enter, _clear_focus); and  *)
(* a button is told to the client it is in.                                *)
Enter(t, x) == IF t.focus = x THEN t ELSE [t EXCEPT !.focus = x, !.told = {}]
Notify(t, b, pressed) ==
    IF t.focus = NIL THEN t
    ELSE [t EXCEPT !.told = IF pressed THEN @ \union {b} ELSE @ \ {b}]

(* handle_rebase of seatop_default, the only operation that has one.       *)
Rebase(t) ==
    IF t.op # "default" \/ (t.at # NIL /\ t.hidden) THEN t ELSE Enter(t, t.at)

BeginDefault(t) == Rebase([t EXCEPT !.op = "default", !.points = {}, !.combo = {}])
Begin(t, op) == [t EXCEPT !.op = op, !.points = {}, !.combo = {}]

(* cursor_hide; cursor_unhide, in cursor_handle_activity_from_idle_source. *)
Hide(t) == Enter([t EXCEPT !.hidden = TRUE], NIL)
Active(t) == IF t.hidden THEN Rebase([t EXCEPT !.hidden = FALSE]) ELSE t

(* pointer_motion. *)
MoveTo(t, x) ==
    IF t.op = "default" THEN Enter([t EXCEPT !.at = x], x) ELSE [t EXCEPT !.at = x]

-----------------------------------------------------------------------------
(* dispatch_cursor_button.  handle_button of seatop_default may execute a  *)
(* binding, or press a button of a titlebar, and nobody is told; a border, *)
(* a titlebar or the modifier begin a drag.                                *)
PressInDefault(t, b, mouse) ==
    LET u == IF mouse /\ t.at \in Windows \union {NIL}
             THEN [t EXCEPT !.combo = @ \union {b}] ELSE t
    IN (IF t.at \in Windows \union {NIL} THEN {u, Begin(u, "move"), Begin(u, "resize")} ELSE {})
       \union {Notify(IF t.at \in Windows \union Layers THEN Begin(u, t.at) ELSE u, b, TRUE)}

ReleaseInDefault(t, b) ==
    LET u == [t EXCEPT !.combo = @ \ {b}]
    IN {Notify(u, b, FALSE)} \union (IF b \in t.combo THEN {u} ELSE {})

(* In seatop_down everything is told; it and a drag end when the last      *)
(* button of the mouse, or one of no mouse, is released.                   *)
ButtonInOther(t, b, pressed) ==
    LET u == IF t.op \in Surfaces THEN Notify(t, b, pressed) ELSE t
    IN IF t.held = {} THEN BeginDefault(u) ELSE u

Button(t, b, pressed, mouse) ==
    IF t.op # "default" THEN {ButtonInOther(t, b, pressed)}
    ELSE IF pressed THEN PressInDefault(t, b, mouse)
    ELSE ReleaseInDefault(t, b)

-----------------------------------------------------------------------------
(* handle_pointer_motion_relative and _absolute; handle_pointer_button.    *)
Motion(x) == Becomes(MoveTo(Active(s), x))

Press(b) ==
    /\ b \notin s.held
    /\ \E t \in Button(Active([s EXCEPT !.held = @ \union {b}]), b, TRUE, TRUE) : Becomes(t)
Release(b) ==
    /\ b \in s.held
    /\ \E t \in Button(Active([s EXCEPT !.held = @ \ {b}]), b, FALSE, TRUE) : Becomes(t)

(* cursor_notify_key_press and hide_notify, whose timer is not armed while *)
(* a button is held (cursor_get_timeout).                                  *)
KeyPress == ~s.hidden /\ Becomes(Hide(s))
HideTimer == s.held = {} /\ ~s.hidden /\ Becomes(Hide(s))

(* What is under the pointer changes (cursor_rebase_all, of a transaction  *)
(* or a layer); a surface goes away, and with it what it was told.         *)
SceneChanges(x) == Becomes(Rebase([s EXCEPT !.at = x]))
SurfaceGone(x, y) ==
    /\ x \in {s.at, s.op, s.focus, s.tipOn} \union {s.contacts[f] : f \in Fingers} /\ x # y
    /\ LET t == Enter([s EXCEPT !.at = IF @ = x THEN y ELSE @,
                                !.tipOn = IF @ = x THEN NIL ELSE @,
                                !.contacts = [f \in Fingers |-> IF @[f] = x THEN NIL ELSE @[f]]],
                      IF s.focus = x THEN NIL ELSE s.focus)
       IN IF s.op = x THEN Becomes(BeginDefault(t))
          ELSE \/ Becomes(Rebase(t))
               \/ s.op \in {"move", "resize"} /\ x \in Windows /\ Becomes(BeginDefault(t))

-----------------------------------------------------------------------------
(* handle_touch_down, of a finger over x: a surface that knows fingers is  *)
(* told, for the others the pointer is simulated from the first.           *)
AddPoint(t, f, x) ==
    [t EXCEPT !.points = @ \union {f}, !.contacts[f] = IF x \in TouchCapable THEN x ELSE NIL]
TouchInDefault(t, f, x) ==
    IF x \in TouchCapable THEN {AddPoint(Begin([t EXCEPT !.simTouch = NIL], x), f, x)}
    ELSE IF t.simTouch # NIL THEN {t}
    ELSE Button(MoveTo([t EXCEPT !.simTouch = f], x), "left", TRUE, FALSE)
TouchDown(f, x) ==
    /\ f \notin s.fingers
    /\ LET t == Hide([s EXCEPT !.fingers = @ \union {f}, !.touchId = f])
       IN \E u \in IF t.op = "default" THEN TouchInDefault(t, f, x)
                  ELSE {IF t.op = x THEN AddPoint(t, f, x) ELSE t} : Becomes(u)

(* handle_touch_up, and handle_touch_cancel with which the client forgets  *)
(* all fingers.  The finger is compared by the last one that came down.    *)
Lift(t, f, lost) ==
    LET u == [t EXCEPT !.points = @ \ {f},
                       !.contacts = [g \in Fingers |-> IF g \in lost THEN NIL ELSE @[g]]]
    IN IF t.op \notin Surfaces THEN t ELSE IF u.points = {} THEN BeginDefault(u) ELSE u
EndTouch(f, lost) ==
    /\ f \in s.fingers
    /\ LET t == [s EXCEPT !.fingers = @ \ {f}]
       IN IF t.simTouch = NIL THEN Becomes(Lift(t, f, lost))
          ELSE IF t.simTouch # t.touchId THEN Becomes(t)
          ELSE \E u \in Button([t EXCEPT !.touchUp = TRUE], "left", FALSE, FALSE) : Becomes(u)
TouchUp(f) == EndTouch(f, {f})
TouchCancel(f) == EndTouch(f, {g \in Fingers : s.contacts[g] = s.op})

TouchMotion(f, x) ==
    /\ f \in s.fingers /\ s.simTouch # NIL /\ s.touchId = s.simTouch
    /\ Becomes(MoveTo(s, x))

(* Mutant: the simulation is not ended. *)
FrameOnly(t) == [t EXCEPT !.touchUp = FALSE]

(* handle_touch_frame. *)
EndSimulation(t) == [t EXCEPT !.touchUp = FALSE, !.simTouch = NIL]
TouchFrame == s.simTouch # NIL /\ s.touchUp /\ Becomes(EndSimulation(s))

-----------------------------------------------------------------------------
(* handle_tool_tip, with handle_tablet_tool_tip of the operation: of a     *)
(* window that knows pens seatop_default makes a seatop_down or a drag.    *)
TipInDefault(t) ==
    {[(IF t.at \in Windows THEN Begin(t, t.at) ELSE t) EXCEPT !.tipOn = t.at]}
      \union (IF t.at \in Windows THEN {Begin(t, "move")} ELSE {})
TipDown ==
    /\ MaxToolButtons > 0 /\ ~s.tip
    /\ LET t == Active([s EXCEPT !.tip = TRUE])
       IN \E u \in IF t.at \notin TabletCapable
                     THEN Button([t EXCEPT !.simTip = TRUE], "left", TRUE, FALSE)
                  ELSE IF t.op # "default" THEN {t} ELSE TipInDefault(t) : Becomes(u)

TipUp ==
    /\ s.tip
    /\ LET t == Active([s EXCEPT !.tip = FALSE])
       IN IF t.simTip
          THEN \E u \in Button([t EXCEPT !.simTip = FALSE], "left", FALSE, FALSE) : Becomes(u)
          ELSE Becomes(CASE t.op = "default"  -> [t EXCEPT !.tipOn = NIL]
                         [] t.op \in Surfaces -> BeginDefault([t EXCEPT !.tipOn = NIL])
                         [] t.op = "move"     -> BeginDefault(t)
                         [] t.op = "resize"   -> t)

(* handle_tablet_tool_position: a surface that knows pens is told of its   *)
(* motion, and the pointer stays where it was.                             *)
TipMotion(x) ==
    LET t == Active(s)
    IN Becomes(IF ~t.simTip /\ (x \in TabletCapable \/ t.tipOn # NIL)
               THEN [t EXCEPT !.at = x] ELSE MoveTo(t, x))

(* handle_tool_button: all buttons of a pen are the right one, from the    *)
(* first that is pressed to the last that is released, if the first was    *)
(* pressed with the modifier or over a surface that does not know pens.    *)
Simulates(t, modifier) ==
    IF t.tools = 0 THEN modifier \/ t.at \notin TabletCapable ELSE t.simTool
ToolButton(pressed, modifier) ==
    /\ IF pressed THEN s.tools < MaxToolButtons ELSE s.tools > 0
    /\ LET simulates == Simulates(Active(s), modifier)
           t == [Active(s) EXCEPT !.simTool = simulates]
           told == simulates /\ (IF pressed THEN t.tools = 0 ELSE t.tools <= 1)
       IN \E u \in IF told THEN Button(t, "right", pressed, FALSE) ELSE {t} :
            Becomes([u EXCEPT !.tools = IF pressed THEN @ + 1 ELSE @ - 1])

Next ==
    \/ \E x \in Maybe : Motion(x) \/ SceneChanges(x) \/ TipMotion(x)
    \/ \E b \in Buttons : Press(b) \/ Release(b)
    \/ \E x \in Surfaces, y \in Maybe : SurfaceGone(x, y)
    \/ \E f \in Fingers : \/ \E x \in Maybe : TouchDown(f, x) \/ TouchMotion(f, x)
                          \/ TouchUp(f) \/ TouchCancel(f)
    \/ TouchFrame \/ TipDown \/ TipUp \/ KeyPress \/ HideTimer
    \/ \E pressed, modifier \in BOOLEAN : ToolButton(pressed, modifier)

Spec == Init /\ [][Next]_s

-----------------------------------------------------------------------------
(* When the user has let go of everything, every client has been told, no  *)
(* simulation and no operation goes on; unless two of the mouse, fingers   *)
(* and pen were down at once, when the code may lose a release.            *)
(* While they are not, an operation is only that of something held down,   *)
(* and clients know of fingers, pen and buttons only as long as they are   *)
(* there (handle_touch_up, handle_tool_tip, seatop_begin_default).         *)
CursorLetsGo ==
    /\ s \in States
    /\ Idle(s) /\ ~s.mixed => Quiet(s)
    /\ \A f \in Fingers : s.contacts[f] # NIL => f \in s.fingers \/ s.mixed
    /\ s.tipOn # NIL => s.tip \/ s.mixed
    /\ s.simTip => s.tip
=============================================================================
