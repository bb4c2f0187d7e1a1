------------------------------- MODULE Devices --------------------------------
(***************************************************************************)
(* The keyboards of the seats (sway/input/input-manager.c, the device part *)
(* of sway/input/seat.c, and sway/input/keyboard.c from                    *)
(* sway_keyboard_group_remove on): which seats a device is attached to,    *)
(* the group of keyboards it belongs to there, its keymap, and the         *)
(* keyboard a seat last heard of, through commands and reloads.            *)
(*                                                                         *)
(* A keyboard is one object of the backend, which every seat it is         *)
(* attached to has its own record of; it is in one group at most.  Repeat  *)
(* rates, locked modifiers, the other kinds of devices and their mapping   *)
(* to outputs are left out.                                                *)
(***************************************************************************)
EXTENDS Integers, Sequences, SequencesExt, FiniteSets, FiniteSetsExt

CONSTANTS Keyboards, VirtualKeyboards, SeatNames, DefaultSeat, Keymaps, DefaultKeymap,
          Lines,         \* commands: <<"seat" or "input", name, field, value>>
          Files,         \* configurations: sequences of Lines
          MaxCommands, NIL

All == "*"
Type == "type:keyboard"
Devices == Keyboards \union VirtualKeyboards
Groups == 1..Cardinality(Keyboards)
DevicesAssumption ==
    /\ DefaultSeat \in SeatNames /\ DefaultKeymap \in Keymaps /\ MaxCommands \in Nat
    /\ Files # {} /\ \A file \in Files : Range(file) \subseteq Lines
    /\ Lines \subseteq
         ({"seat"} \X SeatNames \X {"attach"} \X (Keyboards \union {All}))
         \union ({"seat"} \X SeatNames \X {"fallback"} \X BOOLEAN)
         \union ({"seat"} \X (SeatNames \union {All}) \X {"grouping"} \X {"none", "smart"})
         \union ({"input"} \X (Keyboards \union {All, Type}) \X {"xkb_layout"} \X Keymaps)

VARIABLE s

NoSeatConfig == [fallback |-> NIL, attach |-> {}, grouping |-> NIL]
SeatConfigs == [ fallback : BOOLEAN \union {NIL}, attach : SUBSET (Keyboards \union {All}),
                 grouping : {"none", "smart", NIL} ]
States ==
    [ devices  : Seq(Devices),             \* lists have the newest first
      seats    : Seq(SeatNames),
      attached : [SeatNames -> Seq(Devices)],
      keymap   : [SeatNames -> [Devices -> Keymaps \union {NIL}]],   \* sway_keyboard::keymap
      groups   : [Groups -> {NIL} \union [seat : SeatNames, keymap : Keymaps, members : SUBSET Keyboards]],
      active   : [SeatNames -> Devices \union Groups \union {NIL}],  \* keyboard_state.keyboard
      seatconf : [SeatNames \union {All} -> SeatConfigs \union {NIL}],
      inputs   : [Keyboards \union {All, Type} -> {NIL} \union [keymap : Keymaps, typed : BOOLEAN]],
      commands : 0..MaxCommands ]

-----------------------------------------------------------------------------
(* merge_seat_config, and store_seat_config of n. *)
MergeSeat(dst, src) ==
    [ fallback |-> IF src.fallback # NIL THEN src.fallback ELSE dst.fallback,
      attach |-> dst.attach \union src.attach,
      grouping |-> IF src.grouping # NIL THEN src.grouping ELSE dst.grouping ]
StoreSeat(t, n, sc) ==
    LET old == t.seatconf
        base == IF old[n] # NIL THEN old[n] ELSE IF old[All] # NIL THEN old[All] ELSE NoSeatConfig
    IN [t EXCEPT !.seatconf = [m \in DOMAIN old |->
          IF m = n THEN MergeSeat(base, sc)
          ELSE IF n = All /\ old[m] # NIL THEN MergeSeat(old[m], sc) ELSE old[m]]]

(* store_input_config of n: a new configuration starts as that of the type *)
(* of a device that is there, or else as that of all; only one that did    *)
(* not start as that of all knows its type.                                *)
StoreInput(t, n, keymap) ==
    LET old == t.inputs
        there == n \in Range(t.devices)
        typed == IF old[n] # NIL THEN old[n].typed
                 ELSE there /\ (old[Type] # NIL \/ old[All] = NIL)
    IN [t EXCEPT !.inputs = [m \in DOMAIN old |->
          IF m = n THEN [keymap |-> keymap, typed |-> typed]
          ELSE IF old[m] # NIL /\ (n = All \/ (n = Type /\ old[m].typed))
            THEN [old[m] EXCEPT !.keymap = keymap]
          ELSE old[m]]]

(* apply_input_type_config: the device's own configuration stays on top.   *)
ApplyInputType(t, d) ==
    IF d \in Keyboards /\ t.inputs[Type] # NIL /\ t.inputs[d] # NIL
    THEN [t EXCEPT !.inputs[d].typed = TRUE] ELSE t

(* input_device_get_config. *)
Keymap(t, d) ==
    LET found == SelectSeq(<<d, Type, All>>, LAMBDA n : t.inputs[n] # NIL)
    IN IF found = << >> THEN DefaultKeymap ELSE t.inputs[Head(found)].keymap

(* The grouping of a seat (seat_get_config, seat_get_config_by_name).      *)
Grouping(t, n) ==
    LET sc == IF t.seatconf[n] # NIL THEN t.seatconf[n] ELSE t.seatconf[All]
    IN IF sc = NIL \/ sc.grouping = NIL THEN "smart" ELSE sc.grouping

-----------------------------------------------------------------------------
GroupOf(t, d) == {g \in Groups : t.groups[g] # NIL /\ d \in t.groups[g].members}

(* sway_keyboard_group_remove: an empty group is destroyed, with its       *)
(* keyboard.                                                               *)
GroupRemove(t, d) ==
    LET g == CHOOSE h \in GroupOf(t, d) : TRUE
        n == t.groups[g].seat
    IN IF GroupOf(t, d) = {} THEN t
       ELSE IF t.groups[g].members # {d} THEN [t EXCEPT !.groups[g].members = @ \ {d}]
       ELSE [t EXCEPT !.groups[g] = NIL, !.active[n] = IF @ = g THEN NIL ELSE @]

(* Mutant: a keyboard stays in its group whatever its keymap becomes.      *)
RemoveOnlyUngrouped(t, n, d) == IF Grouping(t, n) = "none" THEN GroupRemove(t, d) ELSE t

(* sway_keyboard_group_remove_invalid. *)
GroupRemoveInvalid(t, n, d) ==
    IF Grouping(t, n) = "none" \/ \E g \in GroupOf(t, d) : t.groups[g].keymap # t.keymap[n][d]
    THEN GroupRemove(t, d) ELSE t

(* sway_keyboard_group_add. *)
GroupAdd(t, n, d) ==
    LET fits == {g \in Groups : t.groups[g] # NIL /\ t.groups[g].seat = n
                                 /\ t.groups[g].keymap = t.keymap[n][d]}
        fresh == Min({g \in Groups : t.groups[g] = NIL})
    IN IF Grouping(t, n) = "none" THEN t
       ELSE IF fits # {} THEN [t EXCEPT !.groups[Min(fits)].members = @ \union {d}]
       ELSE [t EXCEPT !.groups[fresh] = [seat |-> n, keymap |-> t.keymap[n][d], members |-> {d}]]

(* sway_keyboard_set_layout. *)
SetLayout(t, n, d) ==
    LET u == GroupRemoveInvalid([t EXCEPT !.keymap[n][d] = Keymap(t, d)], n, d)
    IN IF GroupOf(u, d) = {} THEN GroupAdd(u, n, d) ELSE u

(* sway_keyboard_configure. *)
Configure(t, n, d) ==
    LET u == IF d \in Keyboards THEN SetLayout(t, n, d) ELSE t
    IN [u EXCEPT !.active[n] = IF @ = NIL THEN d ELSE @]

(* sway_keyboard_destroy, seat_device_destroy, seat_remove_device. *)
RemoveDevice(t, n, d) ==
    IF d \notin Range(t.attached[n]) THEN t
    ELSE LET u == GroupRemove(t, d)
         IN [u EXCEPT !.active[n] = IF @ = d THEN NIL ELSE @, !.keymap[n][d] = NIL,
                      !.attached[n] = SelectSeq(@, LAMBDA e : e # d)]

(* seat_add_device, seat_configure_device. *)
AddDevice(t, n, d) ==
    Configure(IF d \in Range(t.attached[n]) THEN t ELSE [t EXCEPT !.attached[n] = <<d>> \o @], n, d)
ConfigureDevice(t, n, d) == IF d \in Range(t.attached[n]) THEN Configure(t, n, d) ELSE t

-----------------------------------------------------------------------------
SeatCreate(t, n) == [t EXCEPT !.seats = <<n>> \o @]
GetSeat(t, n) == IF n \in Range(t.seats) THEN t ELSE SeatCreate(t, n)

(* handle_seat_destroy. *)
SeatDestroy(t, n) ==
    [FoldLeft(LAMBDA u, d : RemoveDevice(u, n, d), t, t.attached[n])
        EXCEPT !.seats = SelectSeq(@, LAMBDA m : m # n), !.active[n] = NIL]

(* Where a device belongs: to the seats it is attached to, or else to the  *)
(* fallback seats (seat_config_get_attachment).                            *)
Attaches(t, n, d) == t.seatconf[n] # NIL /\ {d, All} \intersect t.seatconf[n].attach # {}
Places(t, d) ==
    LET attaching == {n \in Range(t.seats) : Attaches(t, n, d)}
    IN IF attaching # {} THEN attaching
       ELSE {n \in Range(t.seats) : t.seatconf[n] # NIL /\ t.seatconf[n].fallback = TRUE}

(* seat_apply_config, and input_manager_apply_seat_config of n. *)
SeatApplyConfig(t, n) == FoldLeft(LAMBDA u, d : Configure(u, n, d), t, t.attached[n])
ApplySeatConfig(t, n) ==
    LET u == IF n = All THEN FoldLeft(SeatApplyConfig, t, t.seats) ELSE SeatApplyConfig(GetSeat(t, n), n)
        Place(v, d) == FoldLeft(LAMBDA w, m : IF m \in Places(v, d) THEN AddDevice(w, m, d)
                                              ELSE RemoveDevice(w, m, d),
                                v, v.seats)
    IN FoldLeft(Place, u, u.devices)

(* input_manager_verify_fallback_seat. *)
VerifyFallbackSeat(t) ==
    IF \E n \in Range(t.seats) : t.seatconf[n] # NIL /\ t.seatconf[n].fallback # NIL THEN t
    ELSE ApplySeatConfig(StoreSeat(GetSeat(t, DefaultSeat), DefaultSeat,
                                   [NoSeatConfig EXCEPT !.fallback = TRUE]),
                         DefaultSeat)

(* input_manager_apply_input_config of n. *)
ApplyInputConfig(t, n) ==
    LET matching == SelectSeq(t.devices, LAMBDA d : n \in {d, Type, All})
    IN FoldLeft(LAMBDA u, d : FoldLeft(LAMBDA v, m : ConfigureDevice(v, m, d), u, u.seats), t, matching)

-----------------------------------------------------------------------------
(* handle_new_input. *)
NewInput(d) ==
    /\ d \in Keyboards \ Range(s.devices)
    /\ LET t == VerifyFallbackSeat(ApplyInputType([s EXCEPT !.devices = <<d>> \o @], d))
       IN s' = FoldLeft(LAMBDA u, n : IF n \in Places(t, d) THEN AddDevice(u, n, d) ELSE u, t, t.seats)

(* handle_virtual_keyboard: for a seat, or for the default one. *)
NewVirtualKeyboard(d, n) ==
    /\ d \in VirtualKeyboards \ Range(s.devices) /\ n \in Range(s.seats) \union {DefaultSeat}
    /\ s' = AddDevice(GetSeat([s EXCEPT !.devices = <<d>> \o @], n), n, d)

(* handle_device_destroy. *)
DeviceDestroy(d) ==
    /\ d \in Range(s.devices)
    /\ LET t == FoldLeft(LAMBDA u, n : RemoveDevice(u, n, d), s, s.seats)
       IN s' = [t EXCEPT !.devices = SelectSeq(@, LAMBDA e : e # d)]

(* handle_transient_seat_manager_create_seat; the client lets it go. *)
NewTransientSeat(n) == n \notin Range(s.seats) /\ s.seatconf[n] = NIL /\ s' = SeatCreate(s, n)
TransientSeatDestroy(n) ==
    n \in Range(s.seats) \ {DefaultSeat} /\ s.seatconf[n] = NIL /\ s' = SeatDestroy(s, n)

(* handle_key_event, handle_keyboard_group_key: the seat hears of the      *)
(* group of a keyboard, or else of the keyboard.                           *)
KeyEvent(d) ==
    /\ d \in Range(s.devices)
    /\ s' = [s EXCEPT !.active = [n \in SeatNames |->
               IF \E g \in GroupOf(s, d) : s.groups[g].seat = n THEN CHOOSE g \in GroupOf(s, d) : TRUE
               ELSE IF GroupOf(s, d) = {} /\ d \in Range(s.attached[n]) THEN d
               ELSE @[n]]]

(* cmd_seat and cmd_input, when run, and when read from a file. *)
Stored(t, line) ==
    IF line[1] = "input" THEN StoreInput(t, line[2], line[4])
    ELSE StoreSeat(t, line[2], IF line[3] = "attach" THEN [NoSeatConfig EXCEPT !.attach = {line[4]}]
                               ELSE [NoSeatConfig EXCEPT ![line[3]] = line[4]])
Command(line) ==
    /\ s.commands < MaxCommands
    /\ LET t == Stored([s EXCEPT !.commands = @ + 1], line)
       IN s' = IF line[1] = "input" THEN ApplyInputConfig(t, line[2]) ELSE ApplySeatConfig(t, line[2])

(* input_manager_reset_all_inputs. *)
ResetAllInputs(t) ==
    FoldLeft(LAMBDA u, d : FoldLeft(LAMBDA v, n : ConfigureDevice(v, n, d), u, u.seats),
             [t EXCEPT !.active = [n \in SeatNames |-> NIL]], t.devices)

(* load_main_config, destroy_removed_seats. *)
Empty(t) == [t EXCEPT !.seatconf = [n \in DOMAIN @ |-> NIL], !.inputs = [n \in DOMAIN @ |-> NIL]]
LoadMainConfig(t, file) ==
    LET read == VerifyFallbackSeat(FoldLeft(Stored, ResetAllInputs(Empty(t)), file))
        Known(conf) == SetToSeq({n \in DOMAIN conf : conf[n] # NIL})
        applied == FoldLeft(ApplySeatConfig, FoldLeft(ApplyInputConfig, read, Known(read.inputs)),
                            Known(read.seatconf))
        removed == {n \in Range(applied.seats) : t.seatconf[n] # NIL /\ applied.seatconf[n] = NIL}
    IN FoldSet(LAMBDA n, u : SeatDestroy(u, n), applied, removed)
Reload(file) == s' = LoadMainConfig(s, file)

(* At the start there are no devices yet.                                  *)
Nothing ==
    [ devices |-> << >>, seats |-> << >>, attached |-> [n \in SeatNames |-> << >>],
      keymap |-> [n \in SeatNames |-> [d \in Devices |-> NIL]], groups |-> [g \in Groups |-> NIL],
      active |-> [n \in SeatNames |-> NIL], seatconf |-> [n \in SeatNames \union {All} |-> NIL],
      inputs |-> [n \in Keyboards \union {All, Type} |-> NIL], commands |-> 0 ]
Init == \E file \in Files : s = LoadMainConfig(Nothing, file)

Next ==
    \/ \E d \in Devices : NewInput(d) \/ DeviceDestroy(d) \/ KeyEvent(d)
    \/ \E d \in Devices, n \in SeatNames : NewVirtualKeyboard(d, n)
    \/ \E n \in SeatNames : NewTransientSeat(n) \/ TransientSeatDestroy(n)
    \/ \E line \in Lines : Command(line)
    \/ \E file \in Files : Reload(file)

Spec == Init /\ [][Next]_s

-----------------------------------------------------------------------------
(* After every handler a keyboard is attached to just the seats it belongs *)
(* to, with the keymap it is configured for (input_manager_apply_seat_     *)
(* config); every group has members, all attached to its seat, that agree  *)
(* with its keymap, and no second group of the seat has that keymap        *)
(* (sway_keyboard_group_add); and the keyboard a seat last heard of is one *)
(* it can look up (the assertion of seat_keyboard_notify_enter).           *)
KeyboardsPlaced ==
    /\ s \in States
    /\ \A d \in Keyboards \intersect Range(s.devices) :
         /\ {n \in SeatNames : d \in Range(s.attached[n])} = Places(s, d)
         /\ \A n \in Places(s, d) : s.keymap[n][d] = Keymap(s, d)
    /\ \A g \in Groups : s.groups[g] # NIL =>
         LET n == s.groups[g].seat
         IN /\ s.groups[g].members # {} /\ Grouping(s, n) # "none"
            /\ \A d \in s.groups[g].members :
                 d \in Range(s.attached[n]) /\ s.keymap[n][d] = s.groups[g].keymap /\ GroupOf(s, d) = {g}
            /\ \A h \in Groups \ {g} : s.groups[h] # NIL /\ s.groups[h].seat = n =>
                                          s.groups[h].keymap # s.groups[g].keymap
    /\ \A n \in SeatNames :
         s.active[n] \in {NIL} \union Range(s.attached[n])
                           \union {g \in Groups : s.groups[g] # NIL /\ s.groups[g].seat = n}
=============================================================================
