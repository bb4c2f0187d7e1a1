------------------------------ MODULE SwayBar -------------------------------
(***************************************************************************)
(* swaybar: the event loop (common/loop.c) and what its callbacks do to    *)
(* the bar (swaybar/bar.c, ipc.c, status_line.c, i3bar.c): outputs and     *)
(* their layer surfaces, visibility, the status command and the tray.      *)
(*                                                                         *)
(* The loop keeps two arrays side by side, descriptors for poll() and      *)
(* callbacks, and dispatches by index while the callbacks remove and add   *)
(* entries, close descriptors and open others with the same numbers.       *)
(***************************************************************************)
EXTENDS Integers, Sequences, SequencesExt

CONSTANTS Outputs, Names,   \* outputs that come and go, and those a configuration names
          Commands, Fds, NIL,
          Configs           \* the bar configurations the compositor may send

Owners == {"display", "ipc", "status", "tray"}

BarAssumption ==
    /\ Fds \subseteq Nat /\ Outputs \subseteq Names /\ NIL \notin Fds \union Outputs \union Commands
    /\ Configs \subseteq [mode : {"dock", "hide", "invisible"}, hidden_state : {"hide", "show"},
                          outputs : SUBSET Names, status_command : Commands \union {NIL},
                          tray_hidden : BOOLEAN, workspace_buttons : BOOLEAN]

VARIABLE s

States ==
    [ fds       : Seq([fd : Fds, rev : {"idle", "in", "hup"}]),
      events    : Seq(Owners),                  \* whose callback
      i         : Nat,                          \* entry to dispatch, 0 to poll
      open      : [Fds -> Owners \union {NIL}],
      ready     : [Owners -> {"idle", "in", "hup"}],
      running   : BOOLEAN, ended : BOOLEAN,
      config    : Configs,
      visible   : BOOLEAN,
      by        : SUBSET {"modifier", "urgency", "mode"},
      output    : [Outputs -> {"absent", "new", "used", "unused", "closed"}],
      surface   : SUBSET Outputs, layer : SUBSET Outputs,
      protocol  : {NIL, "undef", "text", "i3bar", "error"},   \* NIL: no status line
      read_fd   : Fds \union {NIL}, write_fd : Fds \union {NIL},
      process   : {"none", "starting", "running", "stopped", "exited"},
      tray_fd   : Fds \union {NIL},
      crash     : {"no", "no surface", "callback without its object", "reader spins"} ]

-----------------------------------------------------------------------------
(* The loop and the descriptors.  A new descriptor is the lowest free one. *)
FreeFds(t) == {f \in Fds : t.open[f] = NIL}
Lowest(S) == CHOOSE f \in S : \A g \in S : f <= g
Opened(t, f, o) == [t EXCEPT !.open[f] = o, !.ready[o] = "idle"]
Closed(t, f) ==
    IF f = NIL THEN t ELSE [t EXCEPT !.open[f] = NIL, !.ready[t.open[f]] = "idle"]

AddFd(t, f, o) == [t EXCEPT !.fds = Append(@, [fd |-> f, rev |-> "idle"]), !.events = Append(@, o)]

(* Mutant: the callbacks are not shifted with the descriptors.             *)
RemoveFdLast(t, f) ==
    LET K == {k \in DOMAIN t.fds : t.fds[k].fd = f}
    IN IF K = {} THEN t
       ELSE [t EXCEPT !.fds = RemoveAt(@, Lowest(K)), !.events = Front(@)]

RemoveFd(t, f) ==
    LET K == {k \in DOMAIN t.fds : t.fds[k].fd = f}
    IN IF K = {} THEN t
       ELSE [t EXCEPT !.fds = RemoveAt(@, Lowest(K)), !.events = RemoveAt(@, Lowest(K))]

(* The status command: two pipes, of which the bar keeps the read end of   *)
(* the first and the write end of the second.                              *)
StatusLineInit(t) ==
    LET f == Lowest(FreeFds(t))
        w == CHOOSE g \in FreeFds(t) : \E a, b \in FreeFds(t) :
                f < a /\ a < b /\ b < g /\ \A x \in FreeFds(t) : x < g => x \in {f, a, b}
    IN [Opened(Opened(t, f, "status"), w, "status") EXCEPT
          !.read_fd = f, !.write_fd = w, !.protocol = "undef", !.process = "starting"]

StatusLineCloseFds(t) ==
    LET u == IF t.read_fd = NIL THEN t ELSE RemoveFd(Closed(t, t.read_fd), t.read_fd)
    IN [Closed(u, t.write_fd) EXCEPT !.read_fd = NIL, !.write_fd = NIL]
StatusError(t) == [StatusLineCloseFds(t) EXCEPT !.protocol = "error"]

(* The process is continued, terminated and waited for.                    *)
StatusLineFree(t) == [StatusLineCloseFds(t) EXCEPT !.protocol = NIL, !.process = "none"]

CreateTray(t) ==
    LET f == Lowest(FreeFds(t)) IN [Opened(t, f, "tray") EXCEPT !.tray_fd = f]
DestroyTray(t) == [Closed(t, t.tray_fd) EXCEPT !.tray_fd = NIL]

-----------------------------------------------------------------------------
(* determine_bar_visibility.  A signal to a process group that does not    *)
(* exist yet, or no longer, is lost.                                       *)
WantsVisible(t) ==
    /\ t.config.mode # "invisible"
    /\ t.config.mode = t.config.hidden_state => t.by # {}
Signalled(t, v) ==
    IF t.protocol = NIL \/ t.process \notin {"running", "stopped"} THEN t
    ELSE [t EXCEPT !.process = IF v THEN "running" ELSE "stopped"]
UsedOutputs(t) == {o \in Outputs : t.output[o] = "used"}

DetermineVisibility(t, moving) ==
    LET v == WantsVisible(t)
        kept == IF ~v \/ moving THEN t.layer \ UsedOutputs(t) ELSE t.layer
        u == [t EXCEPT !.layer = IF v THEN kept \union UsedOutputs(t) ELSE kept]
    IN IF v /\ ~(UsedOutputs(t) \subseteq t.surface) THEN [t EXCEPT !.crash = "no surface"]
       ELSE IF v = t.visible THEN u ELSE Signalled([u EXCEPT !.visible = v], v)

(* ipc_get_workspaces: only the workspaces of the bar's outputs count.     *)
GetWorkspaces(t, urgent) ==
    DetermineVisibility(
        [t EXCEPT !.by = (@ \ {"urgency"}) \union
                         (IF urgent /\ UsedOutputs(t) # {} THEN {"urgency"} ELSE {})], FALSE)

Uses(c, o) == c.outputs = {} \/ o \in c.outputs

(* xdg_output_handle_done, layer_surface_closed, handle_global_remove and  *)
(* a pointer button on a block of the status line.                         *)
OutputDone(t, o, urgent) ==
    IF ~Uses(t.config, o) THEN [t EXCEPT !.output[o] = "unused"]
    ELSE LET u == DetermineVisibility([t EXCEPT !.output[o] = "used", !.surface = @ \union {o}], FALSE)
         IN IF t.config.workspace_buttons THEN GetWorkspaces(u, urgent) ELSE u

OutputFree(t, o, left) ==
    [t EXCEPT !.output[o] = left, !.surface = @ \ {o}, !.layer = @ \ {o}]

DisplayEvents(t, urgent) ==
    {t} \union
    {[t EXCEPT !.output[o] = "new"] : o \in {x \in Outputs : t.output[x] = "absent"}} \union
    {OutputDone(t, o, urgent) : o \in {x \in Outputs : t.output[x] = "new"}} \union
    {OutputFree(t, o, "closed") : o \in t.layer} \union
    {OutputFree(t, o, "absent") : o \in {x \in Outputs : t.output[x] \in {"used", "unused"}}} \union
    {[t EXCEPT !.output[o] = "absent"] : o \in {x \in Outputs : t.output[x] = "closed"}} \union
    (IF t.protocol = "i3bar" THEN {StatusError(t)} ELSE {})

(* handle_barconfig_update. *)
OutputsMoved(t, c) ==
    LET unused == {o \in UsedOutputs(t) : ~Uses(c, o)}
        used == {o \in Outputs : t.output[o] = "unused" /\ Uses(c, o)}
    IN [t EXCEPT !.layer = @ \ unused,
                 !.output = [o \in Outputs |-> IF o \in unused THEN "unused"
                                               ELSE IF o \in used THEN "used" ELSE t.output[o]]]
StatusUpdated(t, c, old) ==
    LET u == IF t.protocol # NIL /\ c.status_command # old.status_command THEN StatusLineFree(t) ELSE t
        v == StatusLineInit(u)
    IN IF u.protocol = NIL /\ c.status_command # NIL THEN AddFd(v, v.read_fd, "status") ELSE u
TrayUpdated(t, c, old) ==
    LET u == CreateTray(t)
    IN IF old.tray_hidden /\ ~c.tray_hidden THEN AddFd(u, u.tray_fd, "tray")
       ELSE IF t.tray_fd # NIL /\ c.tray_hidden THEN DestroyTray(RemoveFd(t, t.tray_fd)) ELSE t

HandleBarconfigUpdate(t, c, urgent) ==
    LET old == t.config
        u == TrayUpdated(StatusUpdated(OutputsMoved([t EXCEPT !.config = c], c), c, old), c, old)
        v == IF c.workspace_buttons THEN GetWorkspaces(u, urgent) ELSE u
    IN DetermineVisibility(v, old.mode # c.mode)

HandleBarStateUpdate(t, modifier) ==
    DetermineVisibility(
        [t EXCEPT !.by = IF modifier THEN {"modifier"} ELSE @ \ {"modifier"}], FALSE)

IpcEvents(t, urgent) ==
    {t, GetWorkspaces(t, urgent)} \union
    {DetermineVisibility([t EXCEPT !.by = b], FALSE) : b \in {t.by \union {"mode"}, t.by \ {"mode"}}} \union
    {HandleBarStateUpdate(t, m) : m \in BOOLEAN} \union
    {HandleBarconfigUpdate(t, c, urgent) : c \in Configs}

(* status_handle_readable: everything there is is read; what it says may   *)
(* be wrong.  At the end of the stream the readers do not stop.            *)
HandleReadable(t) ==
    IF t.ready["status"] = "hup" THEN {[t EXCEPT !.crash = "reader spins"]}
    ELSE {StatusError(t)} \union
         {[t EXCEPT !.protocol = p, !.ready["status"] = "idle"] :
             p \in IF t.protocol = "undef" THEN {"text", "i3bar"} ELSE {t.protocol}}

-----------------------------------------------------------------------------
(* The callbacks, for the descriptor f they were called with.              *)
DisplayIn(t, rev, urgent) ==
    IF rev = "hup" THEN {[t EXCEPT !.running = FALSE]}
    ELSE DisplayEvents([t EXCEPT !.ready["display"] = "idle"], urgent)
IpcIn(t, rev, urgent) ==
    IF rev = "hup" THEN {[t EXCEPT !.running = FALSE]}
    ELSE IpcEvents([t EXCEPT !.ready["ipc"] = "idle"], urgent)
StatusIn(t, rev, f) ==
    IF t.protocol = NIL THEN {[t EXCEPT !.crash = "callback without its object"]}
    ELSE IF rev = "hup" THEN {RemoveFd(StatusError(t), f)}
    ELSE IF t.protocol = "error" THEN {t} ELSE HandleReadable(t)
TrayIn(t, rev) ==
    IF rev = "hup" THEN {[t EXCEPT !.running = FALSE]}
    ELSE IF t.tray_fd = NIL THEN {[t EXCEPT !.crash = "callback without its object"]}
    ELSE {[t EXCEPT !.ready["tray"] = "idle"]}

Called(t, o, e, urgent) ==
    CASE o = "display" -> DisplayIn(t, e.rev, urgent)
      [] o = "ipc"     -> IpcIn(t, e.rev, urgent)
      [] o = "status"  -> StatusIn(t, e.rev, e.fd)
      [] o = "tray"    -> TrayIn(t, e.rev)

(* bar_setup and the start of bar_run.                                     *)
Setup(c, W) ==
    LET blank == [ fds |-> <<>>, events |-> <<>>, i |-> 0,
                   open |-> [f \in Fds |-> IF f = 1 THEN "ipc" ELSE IF f = 2 THEN "display" ELSE NIL],
                   ready |-> [o \in Owners |-> "idle"],
                   running |-> TRUE, ended |-> FALSE, config |-> c, visible |-> TRUE, by |-> {},
                   output |-> [o \in Outputs |-> IF o \notin W THEN "absent"
                                                 ELSE IF Uses(c, o) THEN "used" ELSE "unused"],
                   surface |-> {o \in W : Uses(c, o)}, layer |-> {}, protocol |-> NIL,
                   read_fd |-> NIL, write_fd |-> NIL, process |-> "none",
                   tray_fd |-> NIL, crash |-> "no" ]
        a == IF c.status_command # NIL THEN StatusLineInit(blank) ELSE blank
        b == IF c.tray_hidden THEN a ELSE CreateTray(a)
        d == AddFd(AddFd(DetermineVisibility(b, FALSE), 2, "display"), 1, "ipc")
        e == IF d.protocol # NIL THEN AddFd(d, d.read_fd, "status") ELSE d
    IN IF e.tray_fd # NIL THEN AddFd(e, e.tray_fd, "tray") ELSE e

Init == \E c \in Configs, W \in SUBSET Outputs : s = Setup(c, W)

On == ~s.ended /\ s.crash = "no"

(* poll(): what is ready now.                                              *)
Poll ==
    /\ On /\ s.i = 0 /\ s.running
    /\ \E k \in DOMAIN s.fds : s.ready[s.open[s.fds[k].fd]] # "idle"
    /\ s' = [s EXCEPT !.i = 1,
                      !.fds = [k \in DOMAIN @ |-> [@[k] EXCEPT !.rev = s.ready[s.open[s.fds[k].fd]]]]]

Dispatch ==
    /\ On /\ s.i \in DOMAIN s.fds
    /\ IF s.fds[s.i].rev = "idle" THEN s' = [s EXCEPT !.i = @ + 1]
       ELSE \E urgent \in BOOLEAN : \E t \in Called(s, s.events[s.i], s.fds[s.i], urgent) :
               s' = [t EXCEPT !.i = @ + 1]
Dispatched == On /\ s.i > Len(s.fds) /\ s' = [s EXCEPT !.i = 0, !.fds = [k \in DOMAIN @ |-> [@[k] EXCEPT !.rev = "idle"]]]

(* bar_teardown. *)
Teardown ==
    /\ On /\ s.i = 0 /\ ~s.running
    /\ LET t == DestroyTray(s)
           u == [t EXCEPT !.output = [o \in Outputs |-> "absent"], !.surface = {}, !.layer = {},
                          !.open[1] = NIL]
           v == IF u.protocol = NIL THEN u ELSE StatusLineFree(u)
       IN s' = [v EXCEPT !.ended = TRUE]

(* The other side: the compositor, the bus and the status command.  What   *)
(* arrives while the loop dispatches is seen by the next poll: it arrives  *)
(* just before that.  Only the status command is read until it is empty.   *)
Arrive(o) ==
    /\ On /\ (s.i = 0 \/ o = "status") /\ s.running /\ o \in Range(s.open) /\ s.ready[o] = "idle"
    /\ o = "status" => s.process = "running" /\ s.read_fd # NIL
    /\ s' = [s EXCEPT !.ready[o] = "in"]
Hangup(o) ==
    /\ On /\ s.i = 0 /\ s.running /\ o \in {"display", "ipc", "tray"} \cap Range(s.open) /\ s.ready[o] # "hup"
    /\ s' = [s EXCEPT !.ready[o] = "hup"]
ProcessStarts == On /\ s.process = "starting" /\ s' = [s EXCEPT !.process = "running"]
ProcessExits ==
    /\ On /\ s.process = "running"
    /\ s' = [s EXCEPT !.process = "exited",
                      !.ready["status"] = IF s.read_fd = NIL THEN @ ELSE "hup"]

Next ==
    \/ Poll \/ Dispatch \/ Dispatched \/ Teardown
    \/ \E o \in Owners : Arrive(o) \/ Hangup(o)
    \/ ProcessStarts \/ ProcessExits

Spec == Init /\ [][Next]_s

-----------------------------------------------------------------------------
(* Every entry of the loop is for an object that lives, by the descriptor  *)
(* it has now, and every object that can be read has one entry, however    *)
(* callbacks close, open and reuse descriptors while the loop walks the    *)
(* arrays (loop_remove_fd, status_line_close_fds, handle_barconfig_update).*)
FdOf(o) == CASE o = "display" -> 2 [] o = "ipc" -> 1 [] o = "status" -> s.read_fd [] o = "tray" -> s.tray_fd
LoopServesTheLiving ==
    On => /\ s.crash # "callback without its object"
          /\ Len(s.fds) = Len(s.events)
          /\ \A k \in DOMAIN s.fds : s.fds[k].fd = FdOf(s.events[k]) /\ s.open[s.fds[k].fd] = s.events[k]
          /\ \A o \in Owners : FdOf(o) # NIL => \E k \in DOMAIN s.events : s.events[k] = o
          /\ \A k, l \in DOMAIN s.events : s.events[k] = s.events[l] => k = l

(* The bar is shown exactly when the configuration and the events call for *)
(* it, on the outputs it uses, and a shown bar never has a stopped status  *)
(* command (determine_bar_visibility and its seven callers).               *)
ShownAsWanted ==
    On => /\ s.visible = WantsVisible(s)
          /\ s.layer = IF s.visible THEN UsedOutputs(s) ELSE {}
          /\ s.visible => s.process # "stopped"
=============================================================================
