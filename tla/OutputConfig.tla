----------------------------- MODULE OutputConfig -----------------------------
(***************************************************************************)
(* The configuration of the outputs (sway/config/output.c, and the         *)
(* handlers of sway/desktop/output.c): what is stored of the commands, how *)
(* it is matched to the outputs, and the search for settings the backend   *)
(* takes when it refuses those that were asked for.                        *)
(*                                                                         *)
(* A setting is a render format (by its bits), a mode and adaptive sync;   *)
(* the fields of a configuration that no test depends on are left out, and *)
(* so are non-desktop outputs and identifiers that two outputs share.      *)
(***************************************************************************)
EXTENDS Integers, Sequences, SequencesExt, FiniteSets, FiniteSetsExt

CONSTANTS Outputs,
          ModesOf,      \* of an output, a sequence of numbers, the preferred mode first
          Formats,      \* of an output, a set of bits
          SyncOutputs,  \* those that support adaptive sync
          Bandwidth,    \* of the backend, for all outputs together
          Changes,      \* <<field, value>> of the commands
          MaxCommands, NIL

Bits == {6, 8, 10}
Values == [ enabled |-> {"yes", "no"}, power |-> {"on", "off"}, mode |-> Nat \ {0},
            depth |-> Bits, sync |-> BOOLEAN ]
OutputConfigAssumption ==
    /\ ModesOf \in [Outputs -> Seq(Nat \ {0}) \ {<< >>}]
    /\ Formats \in [Outputs -> SUBSET Bits] /\ SyncOutputs \subseteq Outputs
    /\ \A c \in Changes : c[1] \in DOMAIN Values /\ c[2] \in Values[c[1]]
    /\ Bandwidth \in Nat /\ MaxCommands \in Nat

VARIABLE s

(* A configuration is for all outputs, for the name or for the identifier  *)
(* of one.                                                                 *)
All == <<"all", NIL>>
Name(o) == <<"name", o>>
Id(o) == <<"id", o>>
Names == {All} \union {<<k, o>> : k \in {"name", "id"}, o \in Outputs}
NoFields == [f \in DOMAIN Values |-> NIL]
One(field, value) == [NoFields EXCEPT ![field] = value]

Off == [format |-> 0, mode |-> 0, sync |-> FALSE]
States ==
    [ outputs   : Seq(Outputs),         \* root->all_outputs, the newest first
      enabled   : SUBSET Outputs,       \* sway_output::enabled, and in the layout
      lit       : [Outputs -> [format : Bits \union {0}, mode : Nat, sync : BOOLEAN]],
      stored    : Seq([name : Names, set : [DOMAIN Values -> {NIL} \union UNION {Values[f] : f \in DOMAIN Values}]]),
      modeset   : BOOLEAN,              \* server.delayed_modeset
      unapplied : BOOLEAN,              \* history: a change was stored, or its modeset taken back
      latest    : [Outputs -> [DOMAIN Values -> {NIL} \union UNION {Values[f] : f \in DOMAIN Values}]],
      commands  : 0..MaxCommands ]

Init == s = [ outputs |-> << >>, enabled |-> {}, lit |-> [o \in Outputs |-> Off], stored |-> << >>,
              modeset |-> FALSE, unapplied |-> FALSE, latest |-> [o \in Outputs |-> NoFields],
              commands |-> 0 ]

Plugged == Range(s.outputs)

-----------------------------------------------------------------------------
(* merge_output_config and supersede_output_config. *)
Merge(dst, src) == [f \in DOMAIN Values |-> IF src[f] # NIL THEN src[f] ELSE dst[f]]
Supersede(dst, src) == [f \in DOMAIN Values |-> IF src[f] # NIL THEN NIL ELSE dst[f]]

(* Mutant: an identifier is not superseded by the name of its output.      *)
StoreByName(stored, name, set) ==
    LET Changed(old) ==
            IF old.name = name THEN [old EXCEPT !.set = Merge(@, set)]
            ELSE IF name = All THEN [old EXCEPT !.set = Supersede(@, set)]
            ELSE old
        changed == [i \in DOMAIN stored |-> Changed(stored[i])]
    IN IF \E i \in DOMAIN stored : stored[i].name = name THEN changed
       ELSE Append(changed, [name |-> name, set |-> set])

(* store_output_config. *)
Store(stored, name, set) ==
    LET Changed(old) ==
            IF old.name = name THEN [old EXCEPT !.set = Merge(@, set)]
            ELSE IF name = All \/ \E o \in Plugged : name = Name(o) /\ old.name = Id(o)
              THEN [old EXCEPT !.set = Supersede(@, set)]
            ELSE old
        changed == [i \in DOMAIN stored |-> Changed(stored[i])]
    IN IF \E i \in DOMAIN stored : stored[i].name = name THEN changed
       ELSE Append(changed, [name |-> name, set |-> set])

(* find_output_config_from_list. *)
Find(configs, o) ==
    FoldLeft(LAMBDA c, name : FoldLeft(LAMBDA d, oc : IF oc.name = name THEN Merge(d, oc.set) ELSE d,
                                       c, configs),
             NoFields, <<All, Name(o), Id(o)>>)

-----------------------------------------------------------------------------
(* output_config_is_disabling. *)
Disabling(c) == c.enabled = "no" \/ c.power = "off"

(* get_config_render_bit_depth, set_mode and queue_output_config.          *)
Depth(c) == IF c.depth # NIL THEN c.depth ELSE 8
Preferred(o) == Head(ModesOf[o])
Manual(o, c) == IF c.mode \in Range(ModesOf[o]) THEN c.mode ELSE Preferred(o)
Queued(o, c) ==
    IF Disabling(c) THEN Off
    ELSE [format |-> Depth(c), mode |-> IF c.mode # NIL THEN Manual(o, c) ELSE Preferred(o),
          sync |-> o \in SyncOutputs /\ c.sync = TRUE]

(* What search_render_format, search_mode and search_adaptive_sync try, in *)
(* their order.                                                            *)
Tried(o, c) ==
    LET formats == SelectSeq(<<10, 8, 6>>, LAMBDA b : b <= Depth(c) /\ b \in Formats[o])
        modes == IF c.mode # NIL THEN <<Manual(o, c)>> ELSE ModesOf[o]
        syncs == IF o \in SyncOutputs /\ c.sync = TRUE THEN <<TRUE, FALSE>> ELSE <<FALSE>>
        Settings(b) == FlattenSeq([i \in DOMAIN modes |->
                         [j \in DOMAIN syncs |-> [format |-> b, mode |-> modes[i], sync |-> syncs[j]]]])
    IN FlattenSeq([i \in DOMAIN formats |-> Settings(formats[i])])

(* wlr_output_swapchain_manager_prepare: the test of the backend.          *)
Load(setting) == setting.format * setting.mode + (IF setting.sync THEN 1 ELSE 0)
Takes(states) ==
    /\ \A o \in Outputs : states[o] = Off \/ states[o].format \in Formats[o]
    /\ MapThenSumSet(LAMBDA o : Load(states[o]), Outputs) <= Bandwidth

(* search_valid_config from the k-th output on, with search_finish: the    *)
(* later outputs are tested switched off.  << >> when nothing is found.    *)
RECURSIVE SearchFrom(_, _, _, _, _)
SearchFrom(order, k, config, degrade, states) ==
    IF k > Len(order) THEN <<states>>
    ELSE LET o == order[k]
             tried == (IF Disabling(config[o]) THEN << >> ELSE Tried(o, config[o]))
                      \o (IF degrade \/ Disabling(config[o]) THEN <<Off>> ELSE << >>)
             later == {order[j] : j \in (k + 1)..Len(order)}
             With(setting) == [p \in Outputs |-> IF p = o THEN setting
                                                 ELSE IF p \in later THEN Off ELSE states[p]]
             Finish(setting) == IF ~Takes(With(setting)) THEN << >>
                                ELSE SearchFrom(order, k + 1, config, degrade, With(setting))
         IN FoldLeft(LAMBDA found, setting : IF found # << >> THEN found ELSE Finish(setting),
                     << >>, tried)

(* compare_matched_output_config_priority; outputs that compare equal come *)
(* in any order.                                                           *)
Priority(o, c) == IF Disabling(c) THEN 3 ELSE IF o \in s.enabled THEN 1 ELSE 2
Orders(config) ==
    {q \in SetToSeqs(Plugged) : \A i, j \in DOMAIN q :
        i < j => Priority(q[i], config[q[i]]) <= Priority(q[j], config[q[j]])}

(* apply_resolved_output_configs: what was queued if the backend takes it, *)
(* and what the search finds otherwise.                                    *)
Resolved(config, degrade) ==
    LET queued == [o \in Outputs |-> IF o \in Plugged THEN Queued(o, config[o]) ELSE Off]
    IN IF Takes(queued) THEN {<<queued>>}
       ELSE {SearchFrom(q, 1, config, degrade, queued) : q \in Orders(config)}

(* The commit, with finalize_output_config: an output that was switched    *)
(* off to make the others work is enabled in the layout all the same.      *)
Committed(t, config, states) ==
    [t EXCEPT !.lit = states, !.enabled = {o \in Plugged : config[o].enabled # "no"}]

Configs(list) == [o \in Outputs |-> Find(list, o)]

(* apply_stored_output_configs. *)
Modeset(t) ==
    LET config == Configs(t.stored)
    IN {IF found = << >> THEN [t EXCEPT !.modeset = FALSE, !.unapplied = TRUE]
        ELSE Committed([t EXCEPT !.modeset = FALSE, !.unapplied = FALSE], config, found[1])
          : found \in Resolved(config, TRUE)}

-----------------------------------------------------------------------------
(* handle_new_output, begin_destroy. *)
NewOutput(o) ==
    o \notin Plugged /\ s' = [s EXCEPT !.outputs = <<o>> \o @, !.modeset = TRUE]
OutputDestroy(o) ==
    /\ o \in Plugged
    /\ s' = [s EXCEPT !.outputs = SelectSeq(@, LAMBDA p : p # o), !.enabled = @ \ {o},
                      !.lit[o] = Off, !.modeset = TRUE]

(* History: of each output, the latest of what was said that is for it.    *)
Said(latest, name, set) ==
    [o \in Outputs |-> IF name \in {All, Name(o), Id(o)} THEN Merge(latest[o], set) ELSE latest[o]]

(* An output is not called by its name while it is unplugged and has been  *)
(* called by its identifier: the older identifier would win.               *)
Stored(name, set) ==
    /\ s.commands < MaxCommands
    /\ \A o \in Outputs \ Plugged : name = Name(o) => \A i \in DOMAIN s.stored : s.stored[i].name # Id(o)
    /\ s' = [s EXCEPT !.stored = Store(@, name, set), !.latest = Said(@, name, set),
                      !.modeset = TRUE, !.commands = @ + 1]

(* cmd_output, output_cmd_toggle, output_cmd_power,                        *)
(* handle_output_power_manager_set_mode.                                   *)
Output(name, change) == Stored(name, One(change[1], change[2]))
Toggle(o) ==
    /\ o \in Plugged
    /\ Stored(Name(o), One("enabled", IF Find(s.stored, o).enabled # "no" THEN "no" ELSE "yes"))
PowerToggle(o) ==
    o \in Plugged /\ Stored(Name(o), One("power", IF o \in s.enabled /\ s.lit[o] = Off THEN "on" ELSE "off"))

(* handle_request_state: the backend's window was resized.                 *)
RequestState(o, mode) ==
    /\ o \in Plugged /\ s.commands < MaxCommands
    /\ LET set == One("mode", mode)
       IN s' \in Modeset([s EXCEPT !.stored = Store(@, Name(o), set), !.latest = Said(@, Name(o), set),
                                   !.commands = @ + 1])

(* A reload reads a configuration that says nothing of the outputs.        *)
Reload ==
    s' = [s EXCEPT !.stored = << >>, !.latest = [o \in Outputs |-> NoFields], !.modeset = TRUE]

(* timer_modeset_handle, force_modeset. *)
TimerModeset == s.modeset /\ s' \in Modeset(s)

(* output_manager_apply: a test, too, takes back the modeset that waits    *)
(* for its timer.                                                          *)
ManagerApply(heads, test_only) ==
    /\ s.commands < MaxCommands /\ Plugged # {} /\ DOMAIN heads = Plugged
    /\ LET news == [i \in DOMAIN s.outputs |-> [name |-> Name(s.outputs[i]), set |-> heads[s.outputs[i]]]]
           config == Configs(s.stored \o news)
           stored == FoldLeft(LAMBDA l, oc : Store(l, oc.name, oc.set), s.stored, news)
           latest == FoldLeft(LAMBDA l, oc : Said(l, oc.name, oc.set), s.latest, news)
           t == [s EXCEPT !.modeset = FALSE, !.commands = @ + 1]
       IN \E found \in Resolved(config, FALSE) :
            s' = IF found = << >> THEN [s EXCEPT !.commands = @ + 1]
                 ELSE IF test_only THEN [t EXCEPT !.unapplied = @ \/ s.modeset]
                 ELSE Committed([t EXCEPT !.stored = stored, !.latest = latest,
                                          !.unapplied = Configs(stored) # config], config, found[1])

Heads == UNION {[P -> {One("enabled", "no")} \union
                      {[One("enabled", "yes") EXCEPT !.mode = m] : m \in UNION {Range(ModesOf[o]) : o \in P}}]
                  : P \in SUBSET Outputs}

Next ==
    \/ \E o \in Outputs : NewOutput(o) \/ OutputDestroy(o) \/ Toggle(o) \/ PowerToggle(o)
    \/ \E name \in Names, change \in Changes : Output(name, change)
    \/ \E o \in Outputs : \E mode \in Range(ModesOf[o]) : RequestState(o, mode)
    \/ Reload \/ TimerModeset
    \/ \E heads \in Heads, test_only \in BOOLEAN : ManagerApply(heads, test_only)

Spec == Init /\ [][Next]_s

-----------------------------------------------------------------------------
(* Of what was said of an output the latest counts, however it was named;  *)
(* the backend is never left in a state it does not take; and when no      *)
(* modeset is pending every output is enabled if it should be, lit with    *)
(* settings it was configured for, and switched off unconfigured only if   *)
(* the backend takes none of them with the other outputs                   *)
(* (store_output_config, search_valid_config).                             *)
OutputsAsConfigured ==
    /\ \A o \in Outputs : Find(s.stored, o) = s.latest[o]
    /\ Takes(s.lit)
    /\ ~s.modeset /\ ~s.unapplied =>
         \A o \in Plugged :
            LET c == Find(s.stored, o)
            IN /\ o \in s.enabled <=> c.enabled # "no"
               /\ s.lit[o] # Off => ~Disabling(c) /\ s.lit[o] \in Range(Tried(o, c))
               /\ s.lit[o] = Off => Disabling(c) \/ \A setting \in Range(Tried(o, c)) :
                                                     ~Takes([s.lit EXCEPT ![o] = setting])
=============================================================================
