------------------------------ MODULE BarInput ------------------------------
(***************************************************************************)
(* The pointer and the fingers on swaybar (swaybar/input.c) and the list   *)
(* of workspaces they act on (swaybar/ipc.c): scrolling and dragging ask   *)
(* the compositor for the next workspaces of an output, one by one, on the *)
(* word of a list that is refreshed only when the compositor says so.      *)
(***************************************************************************)
EXTENDS Integers, Sequences, SequencesExt, FiniteSets

CONSTANTS Outputs, Workspaces, Ids, NIL,
          Capabilities,      \* of the seat: "pointer", "touch"
          Slots,             \* 16 in the source
          Threshold,         \* SWAY_CONTINUOUS_SCROLL_THRESHOLD
          Values,            \* of the axis in one event
          Wrap,              \* config->wrap_scroll
          Bound,             \* <<button, released>> of the bindings of the bar
          MaxChanges         \* of the compositor's own, and of the outputs

InputAssumption ==
    /\ Workspaces \subseteq Nat /\ Ids \subseteq Nat /\ {0, NIL} \cap Outputs = {} /\ Values \subseteq Int
    /\ Slots \in Nat \ {0} /\ Threshold \in Nat \ {0} /\ Wrap \in BOOLEAN /\ MaxChanges \in Nat
    /\ Capabilities \subseteq {"pointer", "touch"} /\ Bound \subseteq {"up", "down", "left"} \X BOOLEAN

VARIABLE s

Gone == 0      \* an output that was freed, where a pointer to it is left
States ==
    [ at      : [Workspaces -> Outputs \union {NIL}],   \* in the compositor
      shown   : [Outputs -> Workspaces],
      focused : Outputs,
      news    : BOOLEAN,                                \* a workspace event is on its way
      list    : [Outputs -> Seq(Workspaces)],           \* output->workspaces
      visible : [Outputs -> Workspaces \union {NIL}],   \* the one marked so
      aim     : [Outputs -> Workspaces \union {NIL}],   \* history: where the steps since lead
      up      : SUBSET Outputs,
      current : Outputs \union {NIL, Gone},             \* pointer->current
      value   : Int, steps : Nat,                       \* of the vertical axis
      slots   : [1..Slots -> [id : Ids, output : Outputs \union {NIL, Gone}, way : Int]],
      fingers : [Ids -> Outputs \union {NIL}],          \* down, for the compositor
      changes : 0..MaxChanges,
      crash   : {"no", "no output", "freed output"} ]

Sorted(W) == SetToSortSeq(W, LAMBDA a, b : a < b)
At(t, o) == {w \in Workspaces : t.at[w] = o}

(* ipc_get_workspaces asks for the list and waits for it.                  *)
GetWorkspaces(t) ==
    LET V == [o \in Outputs |-> IF o \in t.up THEN t.shown[o] ELSE NIL]
    IN [t EXCEPT !.list = [o \in Outputs |-> IF o \in t.up THEN Sorted(At(t, o)) ELSE <<>>],
                 !.visible = V, !.aim = V]

(* ipc_send_workspace_command: the compositor has done it when it returns; *)
(* a workspace that is no longer there is made again, where the focus is.  *)
SendWorkspaceCommand(t, w) ==
    LET o == IF t.at[w] = NIL THEN t.focused ELSE t.at[w]
    IN [t EXCEPT !.at[w] = o, !.shown[o] = w, !.focused = o, !.news = TRUE]

(* workspace_next: what is asked for counts as visible at once.            *)
IndexOf(q, x) == CHOOSE i \in DOMAIN q : q[i] = x
NextIndex(q, i, left) ==
    CASE left /\ i = 1 -> IF Wrap THEN Len(q) ELSE 0
      [] ~left /\ i = Len(q) -> IF Wrap THEN 1 ELSE 0
      [] left /\ i # 1 -> i - 1
      [] ~left /\ i # Len(q) -> i + 1

(* Mutant: the mark waits for the event of the compositor.                 *)
WorkspaceNextUnmarked(t, o, left) ==
    LET q == t.list[o]
        i == IndexOf(q, t.visible[o])
        n == NextIndex(q, i, left)
    IN IF t.visible[o] \notin ToSet(q) THEN t
       ELSE IF n \in {0, i} THEN t ELSE SendWorkspaceCommand(t, q[n])
WorkspaceNext(t, o, left) ==
    LET q == t.list[o]
        i == IndexOf(q, t.visible[o])
        n == NextIndex(q, i, left)
    IN IF t.visible[o] \notin ToSet(q) THEN t
       ELSE IF n \in {0, i} THEN t ELSE [SendWorkspaceCommand(t, q[n]) EXCEPT !.visible[o] = q[n]]

-----------------------------------------------------------------------------
(* Steps of the wheel.  What is under the pointer may take them: a block   *)
(* of the status line everything, the button of a workspace only a click.  *)
ProcessHotspots(under, button) == under = "block" \/ (under # "nothing" /\ button = "left")
CheckBindings(button, released) == <<button, released>> \in Bound
AxisButton(v) == IF v < 0 THEN "up" ELSE "down"

ProcessDiscreteScroll(t, o, under, v) ==
    IF ProcessHotspots(under, AxisButton(v)) \/ CheckBindings(AxisButton(v), FALSE) \/ v = 0
       \/ t.list[o] = <<>> THEN t
    ELSE WorkspaceNext(t, o, v < 0)

(* Mutant: a step takes all of what was turned.                            *)
AfterStepAll(v) == 0
AfterStep(v) == IF v > 0 THEN v - Threshold ELSE v + Threshold
Size(v) == IF v < 0 THEN -v ELSE v
ProcessContinuousScroll(t, o, under) ==
    LET step[k \in 0..Size(t.value)] ==
          IF k = 0 THEN t
          ELSE LET u == step[k - 1]
               IN IF Size(u.value) <= Threshold THEN u
                  ELSE [ProcessDiscreteScroll(u, o, under, IF u.value > 0 THEN Threshold ELSE -Threshold)
                          EXCEPT !.value = AfterStep(@)]
    IN step[Size(t.value)]

(* What the steps of a frame should come to: so many places along the      *)
(* list, around it or as far as it goes.                                   *)
Moved(t, o, n) ==
    LET q == t.list[o]
        i == IndexOf(q, t.aim[o]) + n
        j == IF Wrap THEN 1 + ((i - 1) % Len(q)) ELSE IF i < 1 THEN 1 ELSE IF i > Len(q) THEN Len(q) ELSE i
    IN IF t.aim[o] \in ToSet(q) THEN q[j] ELSE t.aim[o]
Turned(v) == IF v > 0 THEN (v - 1) \div Threshold ELSE IF v < 0 THEN -((-v - 1) \div Threshold) ELSE 0
Sign(v) == IF v > 0 THEN 1 ELSE IF v < 0 THEN -1 ELSE 0
Aimed(t, under, v, n) ==
    IF under = "block" \/ <<AxisButton(v), FALSE>> \in Bound THEN t
    ELSE [t EXCEPT !.aim[t.current] = Moved(t, t.current, n)]

-----------------------------------------------------------------------------
(* The slot of a finger, or else the first that is free.                   *)
(* Mutant: the first that is free, or else that of the finger.             *)
FirstSlot(P(_)) == IF \E i \in 1..Slots : P(i) THEN CHOOSE i \in 1..Slots : P(i) /\ \A j \in 1..i-1 : ~P(j) ELSE 0
GetTouchSlotFree(t, id) ==
    LET mine == FirstSlot(LAMBDA i : t.slots[i].id = id)
        free == FirstSlot(LAMBDA i : t.slots[i].output = NIL)
    IN IF free # 0 THEN free ELSE mine
GetTouchSlot(t, id) ==
    LET mine == FirstSlot(LAMBDA i : t.slots[i].id = id)
        free == FirstSlot(LAMBDA i : t.slots[i].output = NIL)
    IN IF mine # 0 THEN mine ELSE free

(* A pointer to an output that is followed must be to one that lives.      *)
Followed(t, o, u) ==
    CASE o = NIL -> [t EXCEPT !.crash = "no output"]
      [] o = Gone -> [t EXCEPT !.crash = "freed output"]
      [] OTHER -> u

-----------------------------------------------------------------------------
On == s.crash = "no"

Init ==
    \E a \in [Workspaces -> Outputs \union {NIL}], S \in [Outputs -> Workspaces], o \in Outputs :
      /\ \A p \in Outputs : a[S[p]] = p
      /\ s = GetWorkspaces(
               [ at |-> a, shown |-> S, focused |-> o, news |-> FALSE,
                 list |-> [p \in Outputs |-> <<>>], visible |-> [p \in Outputs |-> NIL],
                 aim |-> [p \in Outputs |-> NIL], up |-> Outputs, current |-> NIL, value |-> 0, steps |-> 0,
                 slots |-> [i \in 1..Slots |-> [id |-> 0, output |-> NIL, way |-> 0]],
                 fingers |-> [i \in Ids |-> NIL], changes |-> 0, crash |-> "no" ])

(* The compositor: workspaces are shown, moved, emptied and made.          *)
Change ==
    /\ On /\ s.changes < MaxChanges
    /\ \/ \E w \in Workspaces : s' = [SendWorkspaceCommand(s, w) EXCEPT !.changes = @ + 1]
       \/ \E w \in Workspaces, o \in Outputs :
            /\ s.at[w] \notin {NIL, o} /\ s.shown[s.at[w]] # w
            /\ s' = [s EXCEPT !.at[w] = o, !.news = TRUE, !.changes = @ + 1]
       \/ \E w \in Workspaces :
            /\ s.at[w] # NIL /\ s.shown[s.at[w]] # w
            /\ s' = [s EXCEPT !.at[w] = NIL, !.news = TRUE, !.changes = @ + 1]
WorkspaceEvent == On /\ s.news /\ s' = [GetWorkspaces(s) EXCEPT !.news = FALSE]

(* The bar's surface on an output is closed.  What is down there stays     *)
(* down for the compositor until it hears that the surface is destroyed.   *)
OutputFree(o) ==
    /\ On /\ o \in s.up /\ s.changes < MaxChanges
    /\ s' = [s EXCEPT !.up = @ \ {o}, !.changes = @ + 1, !.list[o] = <<>>, !.visible[o] = NIL, !.aim[o] = NIL,
                      !.current = IF @ = o THEN Gone ELSE @,
                      !.slots = [i \in 1..Slots |-> IF @[i].output = o THEN [@[i] EXCEPT !.output = Gone] ELSE @[i]]]
Forgotten(id) ==
    On /\ s.fingers[id] \in Outputs \ s.up /\ s' = [s EXCEPT !.fingers[id] = NIL]

(* The pointer.  It leaves a surface that is closed before it does more.   *)
Enter(o) ==
    On /\ "pointer" \in Capabilities /\ s.current = NIL /\ o \in s.up /\ s' = [s EXCEPT !.current = o]
Leave == On /\ s.current # NIL /\ s' = [s EXCEPT !.current = NIL]
Button(w) ==
    /\ On /\ s.current \in Outputs /\ w \in ToSet(s.list[s.current])
    /\ s' = SendWorkspaceCommand(s, w)
Axis(v, late) ==
    /\ On /\ s.current \in Outputs /\ Size(s.value) <= Threshold
    /\ s' = [s EXCEPT !.value = IF late /\ s.steps = 0 THEN v ELSE @ + v]
AxisDiscrete(v, n) ==
    /\ On /\ s.current \in Outputs /\ s.steps = 0
    /\ s' = [s EXCEPT !.value = @ + v, !.steps = @ + n]
Frame(under) ==
    /\ On /\ s.current \in Outputs
    /\ LET o == s.current
           v == s.value
           n == [k \in 1..s.steps |-> k]
           rolled == FoldLeft(LAMBDA t, k : ProcessDiscreteScroll(t, o, under, v), s, n)
       IN s' = IF s.steps > 0 THEN Aimed([rolled EXCEPT !.value = 0, !.steps = 0], under, v, Sign(v) * s.steps)
               ELSE Aimed(ProcessContinuousScroll(s, o, under), under, v, Turned(v))

(* The fingers.                                                            *)
Down(id, o) ==
    /\ On /\ "touch" \in Capabilities /\ s.fingers[id] = NIL
    /\ LET i == GetTouchSlot(s, id)
           t == [s EXCEPT !.fingers[id] = o]
       IN s' = IF o \notin s.up \/ i = 0 THEN t
               ELSE [t EXCEPT !.slots[i] = [id |-> id, output |-> o, way |-> 0]]
(* A drag asks for one workspace when it passes a fifth of the output.     *)
Motion(id, d) ==
    /\ On /\ s.fingers[id] # NIL
    /\ LET i == GetTouchSlot(s, id)
           o == s.slots[i].output
           t == [s EXCEPT !.slots[i].way = @ + d]
       IN s' = IF i = 0 THEN s
               ELSE Followed(s, o,
                      IF Size(t.slots[i].way) \div 2 = Size(s.slots[i].way) \div 2 THEN t
                      ELSE [WorkspaceNext(t, o, d < 0) EXCEPT !.aim[o] = Moved(t, o, d)])
    /\ \A i \in 1..Slots : Size(s'.slots[i].way) <= 2
Up(id, tap) ==
    /\ On /\ s.fingers[id] # NIL
    /\ LET i == GetTouchSlot(s, id)
           t == [s EXCEPT !.fingers[id] = NIL]
       IN s' = IF i = 0 THEN t
               ELSE LET u == [t EXCEPT !.slots[i].output = NIL, !.slots[i].way = 0]
                    IN IF tap THEN Followed(t, s.slots[i].output, u) ELSE u
Cancel ==
    /\ On /\ \E id \in Ids : s.fingers[id] # NIL
    /\ s' = [s EXCEPT !.fingers = [id \in Ids |-> NIL],
                      !.slots = [i \in 1..Slots |-> [@[i] EXCEPT !.output = NIL, !.way = 0]]]

Next ==
    \/ Change \/ WorkspaceEvent \/ Leave \/ Cancel
    \/ \E o \in Outputs : OutputFree(o) \/ Enter(o)
    \/ \E w \in Workspaces : Button(w)
    \/ \E v \in Values, b \in BOOLEAN : Axis(v, b)
    \/ \E v \in {-1, 0, 1}, n \in 1..2 : AxisDiscrete(v, n)
    \/ \E under \in {"nothing", "workspace", "block"} : Frame(under)
    \/ \E id \in Ids : \/ Forgotten(id) \/ \E o \in Outputs : Down(id, o)
                       \/ \E d \in {-1, 1} : Motion(id, d)
                       \/ \E b \in BOOLEAN : Up(id, b)

-----------------------------------------------------------------------------
(* What is turned and dragged is what is asked for: after any number of    *)
(* steps in any number of frames, and whatever events lie between, the bar *)
(* marks the workspace that many places along its list, and nothing of     *)
(* less than a step is lost (workspace_next, process_continuous_scroll).   *)
StepsCount == \A o \in s.up : s.visible[o] = s.aim[o]

(* When no event is on its way the bar's list is the compositor's          *)
(* (ipc_get_workspaces).                                                   *)
ListIsTrue ==
    ~s.news => \A o \in s.up : s.visible[o] = s.shown[o] /\ s.list[o] = Sorted(At(s, o))

(* A finger has one slot, with the output it went down on, and no slot is  *)
(* another's (get_touch_slot).                                             *)
FingersApart ==
    On => \A i \in 1..Slots :
            s.slots[i].output \in Outputs =>
              /\ s.fingers[s.slots[i].id] = s.slots[i].output
              /\ \A j \in 1..Slots : s.slots[j].id = s.slots[i].id => s.slots[j].output = NIL \/ j = i

BarFollowsTheHand == StepsCount /\ ListIsTrue /\ FingersApart
=============================================================================
