------------------------------ MODULE MCParts -------------------------------
(***************************************************************************)
(* Parts of the project that share no state with each other: the launch    *)
(* contexts, the keys, the keyboards, the text inputs, the settings of the *)
(* outputs, the windows of X11 clients, the requests of windows, the       *)
(* widths of columns, fingers, pens, pointer constraints and gestures, the *)
(* rules for windows, and the bar with its status line, its tray and what  *)
(* the pointer does to it, which is another process.  A behaviour is one of*)
(* one part, chosen at the start; what the others do meanwhile cannot      *)
(* matter to it, so that one variable holds the state of the part.         *)
(***************************************************************************)
EXTENDS Integers, Sequences, TLC

CONSTANTS NIL, Root, p1, p2, c1, c2, v1, v2, n1, o1, o2

VARIABLES part, s

vars == <<part, s>>

(* Two contexts, a Wayland and an X11 window, an output. *)
L == INSTANCE Launcher WITH Contexts <- {c1, c2}, Views <- {v1, v2},
        XwaylandViews <- {v2}, Spaces <- {1, 2}, Names <- {n1}, Outputs <- {o1}

(* The bar has one output and may be configured for another, with one of   *)
(* two status commands or none.                                            *)
BarConfig(mode, outputs, command, tray_hidden, workspace_buttons) ==
    [ mode |-> mode, hidden_state |-> "hide", outputs |-> outputs, status_command |-> command,
      tray_hidden |-> tray_hidden, workspace_buttons |-> workspace_buttons ]
ThreeConfigs ==
    { BarConfig("dock", {}, c1, FALSE, TRUE), BarConfig("hide", {}, c2, TRUE, FALSE),
      BarConfig("invisible", {o2}, NIL, FALSE, TRUE) }
B == INSTANCE SwayBar WITH Outputs <- {o1}, Names <- {o1, o2}, Commands <- {c1, c2},
        Fds <- {1, 2, 3, 4, 5, 6, 7}, Configs <- ThreeConfigs

(* Two programs with two icons each, none the beginning of another's name. *)
T == INSTANCE Tray WITH Apps <- {c1, c2}, Paths <- {p1, p2}, NamePrefixes <- {},
        MaxInbox <- 2, MaxMoves <- 1

(* A modifier, a key the overview knows and one it does not care for, with *)
(* a repeating binding, one of the release, and one of two keys.           *)
Binding(combination, mods, release, locked, repeat, mode, command) ==
    [ keys |-> combination, mods |-> mods, release |-> release, locked |-> locked, inhibited |-> FALSE,
      repeat |-> repeat, mode |-> mode, command |-> command ]
FourBindings ==
    << Binding({2}, {1}, FALSE, FALSE, TRUE, "default", "overview"),
       Binding({3}, {1}, TRUE, FALSE, FALSE, "default", "focus"),
       Binding({3}, {1}, FALSE, TRUE, TRUE, "other", "mode"),
       Binding({2, 3}, {}, FALSE, TRUE, TRUE, "default", "mode") >>
K == INSTANCE Keyboard WITH Keys <- {1, 2, 3}, Symbol <- <<"mod", "tab", "digit">>,
        Windows <- {v1}, Config <- FourBindings

(* A client with two windows and two text inputs, another with a lock      *)
(* surface and one, and a popup of the input method.                       *)
R == INSTANCE TextInput WITH Surfaces <- {v1, v2, n1}, LockSurfaces <- {n1},
        TextInputs <- {c1, c2, o1}, Popups <- {p1},
        ClientOf <- [x \in {v1, v2, c1, c2, n1, o1} |-> IF x \in {n1, o1} THEN "other" ELSE "one"]

(* Two outputs that the backend cannot light both at their best.           *)
FiveChanges ==
    { <<"enabled", "no">>, <<"mode", 1>>, <<"depth", 10>>, <<"sync", TRUE>>, <<"power", "off">> }
O == INSTANCE OutputConfig WITH Outputs <- {o1, o2},
        ModesOf <- (o1 :> <<3, 1>>) @@ (o2 :> <<2>>), Formats <- (o1 :> {8, 10}) @@ (o2 :> {6, 8}),
        SyncOutputs <- {o1}, Bandwidth <- 38, Changes <- FiveChanges, MaxCommands <- 2

(* Two keyboards and a virtual one, and two seats. *)
SixLines ==
    { <<"seat", "seat1", "attach", v1>>, <<"seat", "seat1", "fallback", TRUE>>, <<"seat", "seat0", "fallback", FALSE>>,
      <<"seat", "*", "grouping", "none">>, <<"input", v1, "xkb_layout", "de">>,
      <<"input", "type:keyboard", "xkb_layout", "de">> }
TwoFiles ==
    { << >>, << <<"input", v1, "xkb_layout", "de">>, <<"seat", "seat1", "fallback", TRUE>> >> }
D == INSTANCE Devices WITH Keyboards <- {v1, v2}, VirtualKeyboards <- {n1},
        SeatNames <- {"seat0", "seat1"}, DefaultSeat <- "seat0", Keymaps <- {"us", "de"},
        DefaultKeymap <- "us", Lines <- SixLines, Files <- TwoFiles, MaxCommands <- 2

(* A window, a menu of it and a menu of another process. *)
X == INSTANCE XwaylandSurfaces WITH Windows <- {v1, v2, n1},
        ParentOf <- (v1 :> NIL) @@ (v2 :> v1) @@ (n1 :> v2), WantFocus <- {v1, v2},
        ProcessOf <- (v1 :> 1) @@ (v2 :> 1) @@ (n1 :> 2)

(* An X11 and a Wayland window on two workspaces. *)
Q == INSTANCE Requests WITH Windows <- {v1, v2}, X11 <- {v1}, Workspaces <- {1, 2},
        Policies <- {"smart", "urgent", "focus", "none"}, UrgentTimeouts <- {0, 500}

(* Three windows of which one asks for a least and one for a greatest      *)
(* width.  Three columns of the least widths fit into both workspaces.     *)
W == INSTANCE Columns WITH Windows <- {v1, v2, n1}, Widths <- {22, 32}, Gaps <- {2},
        Limits <- (v1 :> {<<0, 0>>, <<13, 0>>}) @@ (v2 :> {<<0, 0>>, <<0, 7>>}) @@ (n1 :> {<<0, 0>>}),
        DefaultPercent <- 50, MinPercent <- 20, Deltas <- {-3, 5}

(* Two fingers on a window that is shown a mouse, and a layer that is not. *)
F == INSTANCE Cursor WITH Windows <- {v1}, Layers <- {o1}, Unmanaged <- {}, TouchCapable <- {o1},
        TabletCapable <- {v1}, Fingers <- {1, 2}, MaxToolButtons <- 0, MaxUses <- 2

(* A pen with two buttons, a window that knows pens and an X11 menu that   *)
(* does not.                                                               *)
P == INSTANCE Cursor WITH Windows <- {v1}, Layers <- {}, Unmanaged <- {o1}, TouchCapable <- {o1},
        TabletCapable <- {v1}, Fingers <- {1}, MaxToolButtons <- 2, MaxUses <- 2

(* Two windows, one of which hints where the pointer is, and a layer. *)
A == INSTANCE PointerConstraints WITH Windows <- {v1, v2}, Layers <- {o1}, Images <- {n1},
        Hinting <- {v1}

(* Bindings of all devices and of one, exact and not. *)
GestureBinding(input, type, fingers, directions, exact) ==
    [ input |-> input, type |-> type, fingers |-> fingers, directions |-> directions, exact |-> exact ]
FiveGestures ==
    { GestureBinding("*", "swipe", 3, {"up"}, TRUE), GestureBinding("*", "swipe", 0, {"up"}, FALSE),
      GestureBinding(v1, "swipe", 3, {"up"}, FALSE), GestureBinding(v1, "swipe", 3, {"up"}, TRUE),
      GestureBinding("*", "pinch", 0, {"inward"}, FALSE) }
G == INSTANCE Gestures WITH Devices <- {v1}, Bindable <- FiveGestures, MaxBindings <- 3

(* Rules whose commands mark and float windows, which other rules are      *)
(* about, two that say where windows open, and one that is wrong.          *)
Rule(type, text, line, target) == [type |-> type, text |-> text, line |-> line, target |-> target]
List(criteria, commands) == [criteria |-> criteria, commands |-> commands]
SixRules ==
    << Rule("command", << <<"title", c1>> >>,
            << List(<<>>, << <<"mark", p1, FALSE, FALSE>>, <<"nop">> >>) >>, NIL),
       Rule("command", << <<"con_mark", p1>> >>,
            << List(<<>>, << <<"floating">> >>),
               List(<< <<"title", c2>>, <<"urgent", "latest">> >>, << <<"mark", p2, TRUE, TRUE>> >>) >>, NIL),
       Rule("command", << <<"title", "bad">> >>, <<>>, NIL),
       Rule("no_focus", << <<"workspace", "1">>, <<"title", "any">> >>, <<>>, NIL),
       Rule("assign_output", << <<"all", NIL>> >>, <<>>, o2),
       Rule("assign_workspace", << <<"title", c2>>, <<"tiling", NIL>> >>, <<>>, "2") >>
OneRule == Rule("command", << <<"con_id", "__focused__">> >>, << List(<<>>, << <<"floating">> >>) >>, NIL)
FourLines ==
    { << List(<< <<"title", "__focused__">> >>, << <<"mark", p2, FALSE, TRUE>> >>) >>,
      << List(<<>>, << <<"mark", p1, TRUE, FALSE>>, <<"unknown">>, <<"unmark", NIL>> >>) >>,
      << List(<<>>, << <<"unmark", p2>> >>), List(<< <<"floating", NIL>> >>, << <<"focus">> >>) >>,
      << List(<< <<"con_id", "__focused__">> >>, << <<"unmark", NIL>> >>) >> }
U == INSTANCE Rules WITH Windows <- {v1, v2}, Workspaces <- {"1", "2"}, WantFloating <- {v2},
        Titles <- {c1, c2}, Marks <- {p1, p2}, Addresses <- 1..13, MaxChanges <- 1,
        File <- SixRules, Later <- {OneRule}, Lines <- FourLines, ActiveWorkspace <- [o \in {o1} |-> "1"]

(* A program that asks for clicks and writes in pieces, one that does not  *)
(* and breaks off, and one that is not an i3bar.                           *)
TwoBlocks == << "array", << [name |-> TRUE], [name |-> FALSE] >> >>
Block == << "array", << [name |-> TRUE] >> >>
ThreeScripts ==
    { << <<"clicks">>, <<"[">>, <<"part">>, TwoBlocks, <<",">>, <<" ">>, Block >>,
      << <<"header">>, <<"[">>, Block, <<",">>, <<"object">>, <<",">>, <<"junk">> >>,
      << <<"part">>, <<"clicks">> >> }
Y == INSTANCE StatusLine WITH Outputs <- {o1}, Addresses <- 1..6, Scripts <- ThreeScripts,
        MaxClicks <- 2, MaxRestarts <- 1

(* A wheel over three workspaces of an output and a binding of what it     *)
(* does upwards, and three fingers in two slots.                             *)
I == INSTANCE BarInput WITH Outputs <- {o1}, Workspaces <- {1, 2, 3}, Ids <- {0}, Slots <- 1,
        Capabilities <- {"pointer"}, Threshold <- 2, Values <- {-3, 5}, Wrap <- TRUE,
        Bound <- { <<"up", TRUE>> }, MaxChanges <- 2
H == INSTANCE BarInput WITH Outputs <- {o1}, Workspaces <- {1, 2}, Ids <- {0, 1, 2}, Slots <- 2,
        Capabilities <- {"touch"}, Threshold <- 2, Values <- {}, Wrap <- FALSE, Bound <- {}, MaxChanges <- 1

ASSUME L!LauncherAssumption /\ B!BarAssumption /\ T!TrayAssumption
ASSUME K!KeyboardAssumption /\ R!TextInputAssumption /\ O!OutputConfigAssumption /\ D!DevicesAssumption
ASSUME X!XwaylandAssumption /\ Q!RequestsAssumption /\ W!ColumnsAssumption
ASSUME F!CursorAssumption /\ P!CursorAssumption /\ A!ConstraintsAssumption /\ G!GesturesAssumption
ASSUME U!RulesAssumption /\ Y!StatusAssumption /\ I!InputAssumption /\ H!InputAssumption

Init ==
    \/ part = "launcher" /\ L!Init
    \/ part = "bar" /\ B!Init
    \/ part = "tray" /\ T!Init
    \/ part = "keys" /\ K!Init
    \/ part = "relay" /\ R!Init
    \/ part = "heads" /\ O!Init
    \/ part = "seats" /\ D!Init
    \/ part = "x11" /\ X!Init
    \/ part = "requests" /\ Q!Init
    \/ part = "columns" /\ W!Init
    \/ part = "touch" /\ F!Init
    \/ part = "pen" /\ P!Init
    \/ part = "constraints" /\ A!Init
    \/ part = "gestures" /\ G!Init
    \/ part = "rules" /\ U!Init
    \/ part = "status" /\ Y!Init
    \/ part = "wheel" /\ I!Init
    \/ part = "fingers" /\ H!Init

Next ==
    \/ part = "launcher" /\ L!Next /\ UNCHANGED part
    \/ part = "bar" /\ B!Next /\ UNCHANGED part
    \/ part = "tray" /\ T!Next /\ UNCHANGED part
    \/ part = "keys" /\ K!Next /\ UNCHANGED part
    \/ part = "relay" /\ R!Next /\ UNCHANGED part
    \/ part = "heads" /\ O!Next /\ UNCHANGED part
    \/ part = "seats" /\ D!Next /\ UNCHANGED part
    \/ part = "x11" /\ X!Next /\ UNCHANGED part
    \/ part = "requests" /\ Q!Next /\ UNCHANGED part
    \/ part = "columns" /\ W!Next /\ UNCHANGED part
    \/ part = "touch" /\ F!Next /\ UNCHANGED part
    \/ part = "pen" /\ P!Next /\ UNCHANGED part
    \/ part = "constraints" /\ A!Next /\ UNCHANGED part
    \/ part = "gestures" /\ G!Next /\ UNCHANGED part
    \/ part = "rules" /\ U!Next /\ UNCHANGED part
    \/ part = "status" /\ Y!Next /\ UNCHANGED part
    \/ part = "wheel" /\ I!Next /\ UNCHANGED part
    \/ part = "fingers" /\ H!Next /\ UNCHANGED part

Spec == Init /\ [][Next]_vars

(* Every launch context has one owner and points at something that exists, *)
(* whatever ends first (launcher_ctx_consume, ctx_handle_node_destroy).    *)
ContextsOwned == part = "launcher" => L!ContextsOwned

(* The bar is shown, and its status command runs, exactly when wanted, and *)
(* every entry of its event loop is for an object that lives               *)
(* (determine_bar_visibility, loop_remove_fd and the callbacks); its       *)
(* status line is the last that has come whole, and clicks reach blocks    *)
(* that live (i3bar_handle_readable, i3bar_block_unref); steps of the      *)
(* wheel and of fingers lead as many workspaces further, and every finger  *)
(* has a slot of its own (workspace_next, get_touch_slot).                 *)
BarServes ==
    /\ part = "bar" => B!LoopServesTheLiving /\ B!ShownAsWanted
    /\ part = "status" => Y!StatusShown
    /\ part = "wheel" => I!BarFollowsTheHand
    /\ part = "fingers" => H!BarFollowsTheHand

(* The icons of the tray are those of the watcher (handle_sni_registered,  *)
(* handle_sni_unregistered, handle_lost_service).                          *)
TrayAgrees == part = "tray" => T!TrayAgrees

(* The focused client, the bindings and the keyboard agree on which keys   *)
(* are down (handle_key_event).                                            *)
KeysAgree == part = "keys" => K!KeysAgree

(* The input method serves the text input of the focused surface           *)
(* (sway_input_method_relay_set_focus, relay_send_im_state).               *)
ImeServesTheFocused == part = "relay" => R!ImeServesTheFocused

(* The outputs are as they were last configured, as far as the backend     *)
(* allows (store_output_config, apply_stored_output_configs).              *)
OutputsAsConfigured == part = "heads" => O!OutputsAsConfigured

(* Every keyboard is with the seats, in the group and with the keymap it   *)
(* is configured for (input_manager_apply_seat_config).                    *)
KeyboardsPlaced == part = "seats" => D!KeyboardsPlaced

(* Every X11 window has the object of its kind, listening where it must,   *)
(* and the keyboard is with a window that may have it                      *)
(* (handle_override_redirect, unmanaged_handle_unmap).                     *)
WindowsServed == part = "x11" => X!WindowsServed

(* Clients, taskbars and urgency timers are left with the truth            *)
(* (view_set_urgent, workspace_minimized_hide).                            *)
RequestsTold == part = "requests" => Q!RequestsTold

(* Columns get what they need of the workspace, which is filled            *)
(* (workspace_arrange_columns, workspace_fix_overflow).                    *)
RowServesAll == part = "columns" => W!RowServesAll

(* Nothing is left pressed for a client when the user has let go of the    *)
(* mouse, the fingers and the pen (simulated_tool_tip, handle_touch_up).   *)
CursorLetsGo == (part = "touch" => F!CursorLetsGo) /\ (part = "pen" => P!CursorLetsGo)

(* A constraint in force exists and is of the surface with the keyboard    *)
(* (sway_cursor_constrain).                                                *)
PointerIsWhereTheKeysAre == part = "constraints" => A!PointerIsWhereTheKeysAre

(* A gesture is the bindings' or the client's to its end, and runs the     *)
(* best binding (gesture_binding_match).                                   *)
GesturesEnd == part = "gestures" => G!GesturesEnd

(* Every rule runs for every window it is about, and a mark names one      *)
(* (view_execute_criteria, cmd_mark).                                      *)
RulesObeyed == part = "rules" => U!RulesObeyed
=============================================================================
