------------------------------ MODULE Gestures ------------------------------
(***************************************************************************)
(* The gestures of a touchpad and what they are bound to                   *)
(* (common/gesture.c, the gesture handlers of sway/input/seatop_default.c, *)
(* sway/commands/gesture.c).                                               *)
(*                                                                         *)
(* Where a gesture goes, to the tracker or to the client, is decided when  *)
(* it begins; which binding it runs, if any, when it ends.  In between the *)
(* bindings may change, or another operation of the pointer may begin,     *)
(* with which the tracker is freed and which takes no gestures.  One       *)
(* gesture is on at a time.                                                *)
(***************************************************************************)
EXTENDS Integers, Sequences, FiniteSets, SequencesExt

CONSTANTS Devices, Bindable, MaxBindings, NIL

ANY == 0                    \* GESTURE_FINGERS_ANY

GesturesAssumption ==
    /\ NIL \notin Devices /\ "*" \notin Devices /\ MaxBindings \in Nat
    /\ \A b \in Bindable :
         /\ b.input \in Devices \union {"*"} /\ b.type \in {"hold", "pinch", "swipe"}
         /\ b.fingers \in 0..9 /\ b.exact \in BOOLEAN
         /\ b.directions \subseteq { "up", "down", "left", "right", "inward", "outward",
                                     "clockwise", "counterclockwise" }

VARIABLE s

Fingers == {3, 4}
Begun == {"hold", "pinch", "swipe"}

(* How far the fingers went along both axes, apart and around, as far as   *)
(* the thresholds of gesture_tracker_end tell it apart.                    *)
Ways == [dx : -1..1, dy : -1..1, scale : -1..1, rotation : -1..1]
Still == [dx |-> 0, dy |-> 0, scale |-> 0, rotation |-> 0]
Tracked == [type : Begun, fingers : Fingers, way : Ways]

(* hand is the gesture that the user makes, kept unless another operation  *)
(* began meanwhile; client is what the client takes to be on, "cut" if its *)
(* end was lost so.                                                        *)
States ==
    [ bindings : BoundedSeq(Bindable, MaxBindings),
      op       : {"default", "other"},
      tracker  : Tracked \union {NIL},
      hand     : [device : Devices, type : Begun, fingers : Fingers, kept : BOOLEAN] \union {NIL},
      client   : [Begun -> {"none", "open", "cut"}] ]

Init == s = [ bindings |-> <<>>, op |-> "default", tracker |-> NIL, hand |-> NIL,
              client |-> [t \in Begun |-> "none"] ]

Becomes(t) == s' = t

-----------------------------------------------------------------------------
(* What a gesture was when it ends.  Every pinch has one of the four       *)
(* directions of a swipe too, and a swipe always one: if it went nowhere   *)
(* it went up.                                                             *)
Directions(t) ==
    LET w == t.way
        turn == CASE w.rotation = 1 -> {"clockwise"} [] w.rotation = -1 -> {"counterclockwise"}
                  [] OTHER -> {}
        apart == CASE w.scale = 1 -> {"outward"} [] w.scale = -1 -> {"inward"} [] OTHER -> {}
        along == IF w.dx * w.dx > w.dy * w.dy
                 THEN (IF w.dx > 0 THEN {"right"} ELSE {"left"})
                 ELSE (IF w.dy > 0 THEN {"down"} ELSE {"up"})
    IN CASE t.type = "hold" -> {} [] t.type = "swipe" -> along
         [] t.type = "pinch" -> along \union apart \union turn

TrackerEnd(t) == [type |-> t.type, fingers |-> t.fingers, directions |-> Directions(t)]

Check(b, type, fingers) == b.type = type /\ b.fingers \in {ANY, fingers}

Match(b, g) ==
    /\ Check(b, g.type, g.fingers)
    /\ b.exact => b.directions = g.directions
    /\ b.directions \subseteq g.directions

BindingCheck(type, fingers, device) ==
    \E b \in ToSet(s.bindings) : Check(b, type, fingers) /\ b.input \in {"*", device}

(* gesture_binding_match: a binding replaces the one found before unless   *)
(* that is exact, names more directions, or the device; one of the device  *)
(* with all the directions ends the search.                                *)
BetterAnyway(b, current) ==
    \/ current = NIL
    \/ IF current.input = b.input
       THEN Cardinality(current.directions) <= Cardinality(b.directions)
       ELSE b.input # "*"
Better(b, current) ==
    \/ current = NIL
    \/ IF current.input = b.input
       THEN /\ b.exact \/ ~current.exact
            /\ Cardinality(current.directions) <= Cardinality(b.directions)
       ELSE b.input # "*"
BindingMatch(bindings, g, device) ==
    LET Full(b) == b.input = device /\ Cardinality(b.directions) = Cardinality(g.directions)
        Step(found, b) ==
            IF found # NIL /\ Full(found) THEN found
            ELSE IF Match(b, g) /\ b.input \in {"*", device} /\ Better(b, found) THEN b ELSE found
    IN FoldLeft(Step, NIL, bindings)

-----------------------------------------------------------------------------
(* The handlers of the operation seatop_default; others have none.         *)
TakesGestures == s.op = "default"

Begin(device, type, fingers) ==
    /\ s.hand = NIL
    /\ LET hand == [device |-> device, type |-> type, fingers |-> fingers,
                    kept |-> TakesGestures]
           t == [s EXCEPT !.hand = hand]
       IN Becomes(IF ~TakesGestures THEN t
                  ELSE IF BindingCheck(type, fingers, device)
                  THEN [t EXCEPT !.tracker = [type |-> type, fingers |-> fingers, way |-> Still]]
                  ELSE [t EXCEPT !.client[type] = "open"])

Steps(type) ==
    LET along == {[Still EXCEPT !.dx = d] : d \in {-1, 1}} \union {[Still EXCEPT !.dy = d] : d \in {-1, 1}}
        around == {[Still EXCEPT !.scale = d] : d \in {-1, 1}}
                    \union {[Still EXCEPT !.rotation = d] : d \in {-1, 1}}
    IN CASE type = "hold" -> {} [] type = "swipe" -> along [] type = "pinch" -> along \union around

(* The scale is told as a whole, the rest as what was added.  What is      *)
(* forwarded to a client changes nothing here.                             *)
Update(step) ==
    /\ s.hand # NIL /\ s.tracker # NIL /\ TakesGestures
    /\ s.tracker.type = s.hand.type
    /\ LET w == s.tracker.way
           way == [ dx |-> w.dx + step.dx, dy |-> w.dy + step.dy, scale |-> step.scale,
                    rotation |-> w.rotation + step.rotation ]
       IN way \in Ways /\ Becomes([s EXCEPT !.tracker.way = way])

(* Without its tracker the end is the client's.  A gesture that was not    *)
(* cancelled runs BindingMatch; the command may change the bindings or the *)
(* operation, which are steps of their own.                                *)
End ==
    /\ s.hand # NIL
    /\ LET h == s.hand
           t == [s EXCEPT !.hand = NIL]
       IN Becomes(IF ~TakesGestures THEN t
                  ELSE IF s.tracker = NIL \/ s.tracker.type # h.type
                  THEN [t EXCEPT !.client[h.type] = "none"]
                  ELSE [t EXCEPT !.tracker = NIL])

(* Another operation of the pointer begins, or ends: the data of the one   *)
(* before is freed with its tracker, and the new tracker is empty.         *)
Operation ==
    LET cut == [x \in Begun |-> IF s.client[x] = "open" THEN "cut" ELSE s.client[x]]
    IN Becomes([s EXCEPT !.op = IF @ = "default" THEN "other" ELSE "default", !.tracker = NIL,
                         !.client = cut, !.hand = IF @ = NIL THEN NIL ELSE [@ EXCEPT !.kept = FALSE]])

-----------------------------------------------------------------------------
(* bindgesture overwrites every equal binding, unbindgesture removes the   *)
(* first.  Commands are not told apart.                                    *)
Bind(b) ==
    /\ b \notin ToSet(s.bindings) /\ Len(s.bindings) < MaxBindings
    /\ Becomes([s EXCEPT !.bindings = Append(@, b)])

Unbind(b) ==
    /\ b \in ToSet(s.bindings)
    /\ Becomes([s EXCEPT !.bindings = RemoveFirst(@, b)])

Next ==
    \/ \E d \in Devices, type \in Begun, fingers \in Fingers : Begin(d, type, fingers)
    \/ s.hand # NIL /\ \E step \in Steps(s.hand.type) : Update(step)
    \/ End
    \/ Operation
    \/ \E b \in Bindable : Bind(b) \/ Unbind(b)

Spec == Init /\ [][Next]_s

-----------------------------------------------------------------------------
(* The gesture that runs a binding runs the one the manual names           *)
(* (gesture_binding_match, sway.5: "input device, then exact matches       *)
(* followed by matches with the highest number of matching directions"),   *)
(* save that an exact one loses to another of the device with all the      *)
(* directions that was bound before it.                                    *)
RunsTheBest ==
    s.tracker # NIL /\ s.hand # NIL =>
      LET g == TrackerEnd(s.tracker)
          device == s.hand.device
          matching == {b \in ToSet(s.bindings) : Match(b, g) /\ b.input \in {"*", device}}
          chosen == BindingMatch(s.bindings, g, device)
      IN IF matching = {} THEN chosen = NIL
         ELSE /\ chosen \in matching
              /\ chosen.input = "*" => \A b \in matching : b.input = "*"
              /\ \A b \in matching : b.input = chosen.input =>
                   /\ Cardinality(b.directions) <= Cardinality(chosen.directions)
                   /\ b.exact /\ ~chosen.exact =>
                        /\ chosen.input = device /\ chosen.directions = g.directions
                        /\ \E i, j \in DOMAIN s.bindings :
                               i < j /\ s.bindings[i] = chosen /\ s.bindings[j] = b

(* A gesture goes to the bindings or to the client from its begin to its   *)
(* end, whatever is bound meanwhile, and neither is left with one that the *)
(* user has ended, unless another operation of the pointer cut it.         *)
GesturesEnd ==
    /\ s \in States
    /\ s.tracker # NIL =>
         s.hand # NIL /\ s.op = "default" /\ s.hand.kept
           /\ s.tracker.type = s.hand.type /\ s.tracker.fingers = s.hand.fingers
    /\ s.hand # NIL /\ s.hand.kept => (s.tracker # NIL) # (s.client[s.hand.type] = "open")
    /\ \A type \in Begun : s.client[type] = "open" => s.hand # NIL /\ s.hand.type = type
    /\ RunsTheBest
=============================================================================
