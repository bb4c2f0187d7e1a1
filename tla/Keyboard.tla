------------------------------ MODULE Keyboard -------------------------------
(***************************************************************************)
(* The keys of one keyboard (sway/input/keyboard.c): which of them make a  *)
(* binding, on the press or on the release, which go to the focused        *)
(* client, to the input method or to the overview (sway/desktop/           *)
(* overview.c), and what each of them believes to be held down.            *)
(*                                                                         *)
(* Keycodes only: the two lists of keysyms are kept alike, and a group of  *)
(* keyboards handles its keys like one keyboard does.  A binding is its    *)
(* place in the configuration.  What the commands of the bindings do is    *)
(* reduced to what matters to the keys: the focus, the mode, the overview. *)
(***************************************************************************)
EXTENDS Integers, Sequences, SequencesExt, FiniteSets

CONSTANTS Keys,         \* integers above 0
          Symbol,       \* of a key: "mod", "tab", "enter", "digit", "escape" or "plain"
          Windows, NIL,
          Config        \* the bindings of the configuration, in their order

Modes == {"default", "other"}
KeyboardAssumption ==
    /\ Keys \subseteq Nat \ {0}
    /\ Symbol \in [Keys -> {"mod", "tab", "enter", "digit", "escape", "plain"}]
    /\ Range(Config) \subseteq
         [keys : SUBSET Keys, mods : SUBSET Keys, release : BOOLEAN, locked : BOOLEAN,
          inhibited : BOOLEAN, repeat : BOOLEAN, mode : Modes,
          command : {"overview", "focus", "mode", "other"}]

VARIABLE s

None == 0
Freed == -1                             \* a pointer to a binding that is gone
Pointers == DOMAIN Config \union {None, Freed}

(* pressed, last, lastmods and current are the sway_shortcut_state; sent   *)
(* is state_pressed_sent.                                                  *)
States ==
    [ down     : SUBSET Keys,           \* by the user
      pressed  : SUBSET Keys, last : Keys \union {0}, lastmods : SUBSET Keys, current : Keys \union {0},
      sent     : SUBSET Keys,
      held     : Pointers, repeat : Pointers,
      bound    : SUBSET DOMAIN Config,
      mode     : Modes,
      windows  : SUBSET Windows,
      focus    : Windows \union {NIL},
      told     : SUBSET Keys,           \* what the focused client holds to be down
      grab     : BOOLEAN, locked : BOOLEAN, inhibited : BOOLEAN,
      overview : BOOLEAN, thumbs : SUBSET Windows, tabbed : BOOLEAN, digits : 0..1,
      trigger  : SUBSET Keys,
      missed   : SUBSET Keys,           \* history: the overview took their release
      crash    : {"no", "freed binding", "freed window"} ]

Init == s = [ down |-> {}, pressed |-> {}, last |-> 0, lastmods |-> {}, current |-> 0, sent |-> {},
              held |-> None, repeat |-> None, bound |-> DOMAIN Config, mode |-> "default",
              windows |-> {}, focus |-> NIL, told |-> {}, grab |-> FALSE, locked |-> FALSE,
              inhibited |-> FALSE, overview |-> FALSE, thumbs |-> {}, tabbed |-> FALSE,
              digits |-> 0, trigger |-> {}, missed |-> {}, crash |-> "no" ]

BecomesOneOf(S) == s.crash = "no" /\ s' \in S
Becomes(t) == BecomesOneOf({t})

-----------------------------------------------------------------------------
(* seat_keyboard_notify_enter: the client is told of the keys that were    *)
(* sent to the one before, and are still down.                             *)
FocusOn(t, w) == IF w = t.focus THEN t
                 ELSE [t EXCEPT !.focus = w, !.told = IF w = NIL THEN {} ELSE t.sent]

(* The modifiers before the event.                                         *)
Modifiers(t) == {k \in t.down : Symbol[k] = "mod"}

(* update_shortcut_state, with state_add_key and state_erase_key: when the *)
(* modifiers have changed the last key was one, or is taken for one.       *)
UpdateShortcutState(t, k, press) ==
    LET m == Modifiers(t)
        kept == IF m # t.lastmods THEN t.pressed \ {t.last} ELSE t.pressed
    IN IF press THEN [t EXCEPT !.lastmods = m, !.pressed = kept \union {k}, !.current = k, !.last = k]
       ELSE [t EXCEPT !.lastmods = m, !.pressed = kept \ {k}, !.current = 0]

(* get_active_binding.                                                     *)
Matches(t, b, m, release) ==
    /\ b.mods = m /\ b.release = release /\ b.mode = t.mode
    /\ t.locked => b.locked
    /\ t.inhibited => b.inhibited
    /\ IF Cardinality(t.pressed) = Cardinality(b.keys) THEN t.pressed = b.keys
       ELSE b.keys = {t.current}
Preferred(t, b, c) ==
    /\ <<b.locked, b.inhibited>> # <<c.locked, c.inhibited>>
    /\ c.locked # t.locked
    /\ c.locked = b.locked => c.inhibited # t.inhibited
ActiveBinding(t, m, release) ==
    FoldLeft(LAMBDA c, i : IF /\ i \in t.bound /\ Matches(t, Config[i], m, release)
                              /\ c = None \/ Preferred(t, Config[i], Config[c])
                           THEN i ELSE c,
             None, [i \in DOMAIN Config |-> i])

-----------------------------------------------------------------------------
(* The overview: a thumbnail for every window there is when it opens, and  *)
(* the window is looked at when the thumbnail is chosen.                   *)
Toggle(t) ==
    IF t.overview THEN [t EXCEPT !.overview = FALSE, !.thumbs = {}]
    ELSE [t EXCEPT !.overview = TRUE, !.thumbs = t.windows, !.tabbed = FALSE, !.digits = 0,
                   !.trigger = Modifiers(t)]
Chosen(t) ==
    IF t.thumbs = {} THEN {Toggle(t)}
    ELSE {IF w \in t.windows THEN Toggle(FocusOn(t, w)) ELSE [t EXCEPT !.crash = "freed window"]
            : w \in t.thumbs}

(* overview_handle_key: what it does not know goes on to the bindings.     *)
OverviewTakes(t, k) == t.overview /\ Symbol[k] \in {"tab", "enter", "digit", "escape"}
OverviewHandleKey(t, k) ==
    CASE Symbol[k] = "tab"    -> {[t EXCEPT !.tabbed = @ \/ t.thumbs # {}]}
      [] Symbol[k] = "enter"  -> Chosen(t)
      [] Symbol[k] = "escape" -> {Toggle(t)}
      [] Symbol[k] = "digit"  -> IF t.digits = 0 THEN {[t EXCEPT !.digits = 1]}
                                 ELSE Chosen(t) \union {Toggle(t)}

(* overview_handle_key_release: the modifier that was held with Tab. *)
OverviewTakesRelease(t, k) ==
    t.overview /\ t.tabbed /\ Symbol[k] = "mod" /\ (t.trigger = {} \/ k \in t.trigger)

-----------------------------------------------------------------------------
(* seat_execute_command. *)
ExecuteCommand(t, i) ==
    IF i = Freed THEN {[t EXCEPT !.crash = "freed binding"]}
    ELSE CASE Config[i].command = "overview" -> {Toggle(t)}
           [] Config[i].command = "focus"    -> {FocusOn(t, w) : w \in t.windows \union {t.focus}}
           [] Config[i].command = "mode"     -> {[t EXCEPT !.mode = m] : m \in Modes \ {t.mode}}
           [] Config[i].command = "other"    -> {t}

(* Mutant: the release is forgotten when nobody would be told of it.       *)
DeliverFocused(t, k, press, handled) ==
    IF press
      THEN IF handled \/ t.grab THEN t
           ELSE [t EXCEPT !.sent = @ \union {k}, !.told = IF t.focus = NIL THEN @ ELSE @ \union {k}]
    ELSE IF t.focus = NIL THEN t
    ELSE [t EXCEPT !.sent = @ \ {k}, !.told = @ \ {k}, !.missed = @ \ {k}]

(* The end of handle_key_event: whoever was sent the press, the client or  *)
(* the input method, gets the release.                                     *)
Deliver(t, k, press, handled) ==
    IF press
      THEN IF handled \/ t.grab THEN t
           ELSE [t EXCEPT !.sent = @ \union {k}, !.told = IF t.focus = NIL THEN @ ELSE @ \union {k}]
    ELSE [t EXCEPT !.sent = @ \ {k}, !.told = @ \ {k}, !.missed = @ \ {k}]

(* handle_key_event, with the bindings: a binding of the release is held   *)
(* from the press on, and runs when it is no longer active.                *)
Bindings(t, k, press) ==
    LET m == Modifiers(t)
        released == ActiveBinding(t, m, TRUE)
        over == t.held # None /\ released # t.held /\ ~press
        Held(u) == [u EXCEPT !.held = IF released # @ /\ ~(press /\ released # None) THEN None
                                      ELSE IF press THEN released ELSE @]
        Pressed(u) ==
            LET b == IF press THEN ActiveBinding(u, m, FALSE) ELSE None
                v == [u EXCEPT !.repeat = IF b # None /\ Config[b].repeat THEN b ELSE None]
            IN {Deliver(w, k, press, over \/ b # None) : w \in IF b = None THEN {v} ELSE ExecuteCommand(v, b)}
    IN UNION {Pressed(Held(u)) : u \in IF over THEN ExecuteCommand(t, t.held) ELSE {t}}

HandleKeyEvent(k, press) ==
    LET t == UpdateShortcutState(s, k, press)
        after == IF press /\ OverviewTakes(t, k) THEN OverviewHandleKey(t, k)
                 ELSE IF ~press /\ OverviewTakesRelease(t, k)
                        THEN {[u EXCEPT !.missed = @ \union {k}] : u \in Chosen(t)}
                 ELSE Bindings(t, k, press)
    IN BecomesOneOf({[u EXCEPT !.down = IF press THEN @ \union {k} ELSE @ \ {k}] : u \in after})

KeyPress(k) == k \notin s.down /\ HandleKeyEvent(k, TRUE)
KeyRelease(k) == k \in s.down /\ HandleKeyEvent(k, FALSE)

(* handle_keyboard_repeat. *)
KeyRepeat == s.repeat # None /\ BecomesOneOf(ExecuteCommand(s, s.repeat))

(* A reload, from its idle callback, frees all bindings and makes them     *)
(* again; the keyboards are told to forget the one they repeat.            *)
Reload == Becomes([s EXCEPT !.bound = DOMAIN Config, !.repeat = None, !.mode = "default",
                            !.held = IF @ = None THEN @ ELSE Freed])

(* unbindsym, from a client of the IPC socket, of one binding per reload.  *)
Unbind(i) ==
    /\ i \in s.bound /\ s.bound = DOMAIN Config
    /\ Becomes([s EXCEPT !.bound = @ \ {i}, !.held = IF @ = i THEN Freed ELSE @,
                         !.repeat = IF @ = i THEN Freed ELSE @])

(* Windows, the lock screen, the input method and inhibitors come and go,  *)
(* the last three one at a time.                                           *)
Open(w) == w \notin s.windows /\ Becomes(FocusOn([s EXCEPT !.windows = @ \union {w}], w))
Close(w) ==
    /\ w \in s.windows
    /\ LET t == [s EXCEPT !.windows = @ \ {w}]
       IN BecomesOneOf(IF s.focus # w THEN {t} ELSE {FocusOn(t, x) : x \in t.windows \union {NIL}})
Refocus(w) == w \in s.windows \union {NIL} /\ w # s.focus /\ Becomes(FocusOn(s, w))
Lock == ~s.grab /\ ~s.inhibited /\ Becomes([FocusOn(s, NIL) EXCEPT !.locked = ~@])
Inhibit == ~s.grab /\ ~s.locked /\ Becomes([s EXCEPT !.inhibited = ~@])
Grab == ~s.locked /\ ~s.inhibited /\ Becomes([s EXCEPT !.grab = ~@])

Next ==
    \/ \E k \in Keys : KeyPress(k) \/ KeyRelease(k)
    \/ KeyRepeat \/ Reload \/ Lock \/ Inhibit \/ Grab
    \/ \E i \in DOMAIN Config : Unbind(i)
    \/ \E w \in Windows : Open(w) \/ Close(w)
    \/ \E w \in Windows \union {NIL} : Refocus(w)

Spec == Init /\ [][Next]_s

-----------------------------------------------------------------------------
(* The focused client holds for down just the keys that were sent and not  *)
(* yet released, wherever the focus, the bindings, the input method and    *)
(* the overview took the events between; no key stays down for it that the *)
(* user has let go of, and no binding goes on repeating, unless it is the  *)
(* overview that took the release (handle_key_event).                      *)
KeysAgree ==
    /\ s \in States
    /\ s.crash = "no" =>
         /\ s.focus # NIL => s.told = s.sent
         /\ s.sent \subseteq s.down \union s.missed
         /\ s.pressed \subseteq s.down
         /\ s.repeat \in DOMAIN Config => Config[s.repeat].keys \subseteq s.down \union s.missed
=============================================================================
