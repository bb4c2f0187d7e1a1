# Swirl in TLA+

Swirl is a scrolling, tiling Wayland compositor derived from sway. This
directory holds TLA+ models of it, TLC runs that check them on small instances,
and proofs about them checked by TLAPS. Every definition is translated from the
sources under `src/`; `PROJECT.json` maps each one to the lines it models.

1. [The system](#the-system)
2. [The modules](#the-modules)
3. [The layout transactions](#the-layout-transactions)
4. [The focus](#the-focus)
5. [The tree and the pointer](#the-tree-and-the-pointer)
6. [The IPC server](#the-ipc-server)
7. [The parts](#the-parts)
8. [The runs](#the-runs)
9. [The proofs](#the-proofs)
10. [What the models say of the code](#what-the-models-say-of-the-code)
11. [What is not modelled](#what-is-not-modelled)

## The system

The compositor is one process with one thread. `wl_event_loop` calls a handler
for every request of a client, input event, output event, IPC message and timer,
and a handler runs to its end before the next one starts. What interleaves is
therefore whole handlers: everything hard in this code is about what one handler
leaves behind for a later one, in an order that clients, devices and timers
choose. `swaybar`, `swaynag` and `swaymsg` are separate processes.

### Components

**Layout transactions** (`sway/desktop/transaction.c`). State:
`server.dirty_nodes`, `server.pending_transaction`, `server.queued_transaction`;
in each node `dirty`, `destroying`, `ntxnrefs`, `instruction`; in each container
`pending` and `current`. Operations: mark a node dirty, commit the dirty nodes
(as the server's request or a client's), an awaited client answers, the timer
fires. Every other component of the tree calls it, and it is what frees nodes
and views. Correct when the screen only shows whole layouts, the newest state of
each node wins, waiting ends, and memory is released once, not too early and
always.

**Nodes** (`sway/tree/node.c`). A tagged union of root, output, workspace and
container with the fields above. Everything but `node_set_dirty` is a query.

**Views** (`sway/tree/view.c`, `xdg_shell.c`, `xwayland.c`). State: `surface`,
`container`, `geometry`, `destroying`, `saved_surface_tree`, cached size
constraints. Operations: create, map, commit, request (fullscreen, maximize,
minimize, move, resize, configure), unmap, destroy. A view can be unmapped and
mapped again with a new container while its old one still waits in
transactions. Correct when a mapped view has a live container pointing back at
it and is freed after every container.

**Containers and columns** (`container.c`, `column.c`, `layout.c`). State: the
tree of `pending.parent`, `pending.children`, `pending.workspace`, focus and
fullscreen pointers, fractions. Operations: attach, detach, split, flatten,
replace, swap, float, fullscreen, mark, reap an empty column, destroy. Correct
when parents and children agree, a container is in one list of one workspace,
fullscreen pointers name a live container, and a view's container goes only
with the view.

**Workspaces** (`workspace.c`). State: tiling and floating lists, the minimize
pool, the fullscreen container, the output and its priority list, the viewport.
Operations: create, switch, rename, move to an output, insert, wrap, consider
destroying, merge columns that do not fit. Correct when a workspace is
destroyed as soon as and only when it is empty, hidden and not focused.

**Outputs in the tree** (`tree/output.c`, `desktop/output.c`). State: the list
of workspaces of an output, the fallback output. Operations: enable, evacuate,
destroy, restore workspaces by priority, schedule frames. Correct when no
workspace is lost while outputs come and go.

**Scratchpad and minimize pools** (`root.c`). State: `root->scratchpad`, a
`scratchpad` flag on containers that may be hidden (no workspace) or shown, and
the per-workspace list `minimized`. Correct when a hidden window is in exactly
one list and can come back.

**Viewport and columns** (`viewport.c`, `arrange.c`). Pure arithmetic: column
widths from fractions, minimum and maximum widths, the scroll offset that
brings the focused column into view. Correct when widths add up, respect their
limits, and the focused column is visible.

**Seat focus** (`input/seat.c`). State: the focus stack with one entry per node,
`has_focus`, the focused layer, exclusive clients. Operations: set focus, node
destroyed, layer focus, lock focus. Correct when focus names a live node, keyboard
focus follows it, and nothing but the lock screen has it while locked.

**Pointer operations** (`seatop_*.c`). A state machine per seat (default, down,
move, resize) that holds a pointer to a container across events. Correct when
the operation ends before its container does.

**Session lock** (`lock.c`). State: `server.session_lock.lock`, `abandoned`, one
surface per output, `focused`. Operations: lock, surface mapped or destroyed,
output added or removed, unlock, client dies, a new client replaces it.
Correct when a locked session is covered on every output until unlocked.

**Layer shell** (`layer_shell.c`). Surfaces per layer, keyboard interactivity,
exclusive zones. Correct when the exclusive layer gets and returns the focus.

**IPC server** (`ipc-server.c`). State per client: pending header and payload
length, write buffer, subscriptions. Operations: readable, writable, hang-up,
broadcast an event, run a command. Correct when messages keep their order and
framing, and a client is used only while it is in the list.

**Commands** (`commands.c`, `commands/`). 178 files that parse arguments and
call operations of the tree, then commit.

**Launcher contexts** (`launcher.c`, `xdg_activation_v1.c`). A context is owned
by an activation token, then by a view, and remembers a node that may go first.

**Configuration** (`config.c`, `config/`). Parsed settings, including a search
for an output configuration that the backend accepts.

**Event loop of the clients** (`common/loop.c`). Arrays of descriptors and a
list of timers, changed by the very callbacks they dispatch.

**swaybar** (`swaybar/`). The status line protocol, its signals to the status
command, the tray.

**Devices** (`input-manager.c`, `keyboard.c`, `cursor.c`, `text_input.c`,
`common/gesture.c`). Which keyboards belong to which seat and group, which keys
are held by which binding, which client a finger, a pen, a gesture, a constraint
or the input method belongs to. Correct when whoever was told of a beginning is
told of the end, and everything is where the configuration puts it.

**Criteria and rules** (`criteria.c`, `commands.c`). Rules that run commands for
windows, whose commands change windows and so run rules. Correct when each rule
runs for each window it is about, once.

**Others.** Idle inhibitors, overview, decorations, swaynag, swaymsg, string and
drawing helpers: see the component list of `PROJECT.json`.

### How they interact

    command / input / client request
       |  changes pending states of containers, workspaces, outputs
       |  node_set_dirty for each                              (tree -> transactions)
       |  *_begin_destroy: the node is dirty, then destroying
       v
    transaction_commit_dirty
       |  view_configure for every view whose size changes     (transactions -> clients)
       |  view_save_buffer for every view on screen
       v
    wait: surface commits of the awaited clients, or the timer (clients -> transactions)
       |  pending states become current; frames thaw
       |  *_destroy of the nodes nobody holds any more         (transactions -> tree)
       v
    the transaction committed meanwhile

`seat.c` follows the nodes through their destroy signal, `lock.c` and
`layer_shell.c` take the focus from it, `root.c` and `output.c` move workspaces
and windows between lists, and `ipc-server.c` reports each change.

### What is hard

* A node may be dirty, in the pending and in the queued transaction at once, in
  any combination, when it is destroyed; three places decide whether to free it.
* Answers arrive late, twice, or after the timer, when their transaction is gone
  and the next one has its own instruction for the same node.
* A client's surface commit may itself change the layout and so commit a
  transaction in the middle of the handler that is about to answer one.
* Handlers that forget to commit leave their dirty nodes to an unrelated one.
* Reaping: removing a window may destroy a column, then a workspace, while the
  caller still holds pointers to them.
* Lists changed while they are walked: workspaces during evacuation, IPC clients
  during a broadcast, descriptors during dispatch, rules while they run.
* Something begins in one place and ends in another: a drag whose window is
  closed, a key whose binding is gone, a finger whose surface does not know
  fingers, a click on a block that has been replaced.
* A node that is destroyed brings another one to the top of the focus stack,
  which thereby has the focus without anybody having given it.

`PROJECT.json` lists these under "hazards", each at the line where it bites with
the properties that cover it.

## The modules

| Module | Models | Checked by | Proved in |
|---|---|---|---|
| `AtomicLayout` | what transactions promise | `windows` (as `AtomicUpdates`) | `Transaction_proofs` |
| `Transaction` | `transaction.c` and the life of nodes and views | `windows`, `remap`, `liveness`, `x11` | `Transaction_proofs`, `TransactionClosing_proofs` |
| `Focus` | `seat.c`, `lock.c`, `layer_shell.c` | `focus`, `fullscreen` | `Focus_proofs`, with `SequenceLemmas` |
| `Tree` | `container.c`, `workspace.c`, `output.c`, `root.c` | `tree`, `outputs`, `lost` | `Tree_proofs` (`OutputsServed`), `TreeLists_proofs` and `TreeLinked_proofs` (`Linked`, `Pooled`, `OutputsKeepWindows`), with `SequenceLemmas` |
| `Pointer` (on top of `Tree`) | `seatop_*.c` | `drag` | |
| `IpcService` | what the IPC server promises | `ipc` (as `ServesInOrder`) | `IpcServer_proofs` |
| `IpcServer` | `ipc-server.c` | `ipc` | `IpcServer_proofs`, with `SequenceLemmas` |
| the modules of [the parts](#the-parts) | everything that shares no state with these | `parts` | |

`MCTransaction`, `MCFocus`, `MCTree`, `MCPointer`, `MCIpcServer` and `MCParts`
give the constants their values for TLC. `Pointer` is a composition: it EXTENDS
`Tree` and each of its steps is an operation of the pointer or an operation of
the tree, which ends or redirects what the pointer does. `Transaction` and
`IpcServer` are shown to implement their abstract specifications by INSTANCE
with a refinement mapping.

Everywhere the state is one record with the fields of the C structures, and a
function of the code is an operator from record to record. A handler runs to
its end before the next one starts, so an action is the composition of the
operators of the calls the handler makes, in their order.

What is left to do, in order of importance: the last part of the structural
invariant of `Tree` as a theorem (`FullscreenAgrees`);
outputs that come and go while the session is locked.

## The layout transactions

`AtomicLayout` says what is promised without nodes being dirty, views, timers or
reference counts: three layouts, *committed*, *inflight* and *shown*. A commit
changes only *committed*; a layout gets in flight only when the one before is
shown; what is shown is always a layout that was committed as a whole.

`Transaction` models the code. `server` is one record with the fields of the C
structures, under their names; `client` is what each client has acknowledged.
Because a handler is atomic, each function of `transaction.c` is an operator
from record to record, and an action composes them in the order of the calls:

| Code | Module |
|---|---|
| `node_set_dirty` | `NodeSetDirty` |
| `transaction_add_node` for each dirty node | `AddNodes` |
| `should_configure`, `view_is_visible` | `ShouldConfigure`, `Hidden` |
| `transaction_commit` | `Commit` |
| `transaction_apply`, `apply_container_state` | `Apply`, `Thawed` |
| `transaction_destroy` | `Released`, `Destroy` |
| `transaction_commit_pending`, `transaction_progress` | `CommitPending`, `Progress` |
| `_transaction_commit_dirty` | `CommitDirty` |
| `set_instruction_ready`, `transaction_notify_view_ready_by_*` | `SetInstructionReady`, `IsReady` |
| `handle_timeout` | action `Timeout` |
| `handle_map`, `view_map` | action `Map` |
| `view_unmap`, `container_begin_destroy` | action `Unmap` |
| `handle_destroy`, `view_begin_destroy` | action `ViewBeginDestroy` |
| `handle_commit` of xdg and X11 views | action `ClientCommit` |
| `handle_request_configure` of a mapped X11 window | actions `FloatingRequest`, `TiledRequest` |
| any handler that arranges and commits | action `Relayout` |
| `workspace_begin_destroy`, `output_begin_destroy` | action `OtherBeginDestroy` |
| handlers that leave nodes dirty (`seat_set_focus_surface`, `view_on_constraints_changed`) | actions `RelayoutUncommitted`, `OtherBeginDestroyUncommitted` |

Abstractions, and why they lose nothing the properties look at:

* A box is a position in half pixels and a width. Positions are doubles in the
  layout and whole pixels for X11; half pixels are the least that tells them
  apart. Height is treated as width is.
* The state of nodes without a view (workspaces, outputs, columns) is left out:
  no decision of `transaction.c` reads it. They are counted, dirtied, merged and
  freed like the others.
* `transaction_progress` and `transaction_commit_pending` call each other. The
  pending transaction is taken before the second call and nothing commits in
  between, so the chain ends after one more transaction. The operators spell
  this out and need no recursion.
* `instruction` is the set of nodes whose instruction pointer is set. It always
  points into the queued transaction: `node->instruction` is only set by
  `transaction_commit` and cleared with the transaction.
* A handler that dirties many nodes is a few steps of `RelayoutUncommitted` and
  one of `Relayout`; a handler that commits twice is two steps. The model allows
  other handlers in between, so it has more behaviours than the code, never fewer.
* What `view_is_visible` answers is chosen by the handlers: it depends on the
  tree, the stacking and the workspaces, which the transactions do not look at.
* `debug.noatomic` is the outcome of a failed timer. `debug.txn_wait`, which
  inflates the counter on purpose, is not modelled. A failed allocation of a
  transaction or an instruction is not modelled.
* Outside the model: the container of a mapped view begins its destruction only
  when the view is unmapped. Two paths of the tree may break this: a column that
  holds a view directly can be destroyed by `workspace_fix_overflow` (after
  `split none`), and minimizing the last window of a hidden workspace destroys
  the workspace it is pooled in (run `lost`). Both are steps of `Tree`.

## The focus

`Focus` models one seat. `seat` is a record of the fields of `struct sway_seat`
that the focus is about, of the surface that gets the keys, and of what the
focus depends on: the workspace of each window, the fullscreen window of each
workspace, the keyboard interactivity of each layer surface, and the session
lock. The functions of `seat.c` are operators from record to record:

| Code | Module |
|---|---|
| `seat_set_raw_focus`, `seat_node_destroy` | `SetRawFocus`, `SeatNodeDestroy` |
| `seat_set_workspace_focus` | `SetWorkspaceFocus` |
| `seat_set_focus`, `seat_set_focus_raw` | `SetFocus` |
| `seat_set_focus_layer` | `SetFocusLayer`, with NULL `LayerLosesFocus` |
| `seat_set_focus_surface`, `seat_unfocus_unless_client` | `SetFocusSurface`, `UnfocusUnlessClient` |
| `handle_seat_node_destroy` | `ContainerDestroyed`, `WorkspaceDestroyed` |
| `workspace_consider_destroy`, `container_reap_empty` | `ConsiderDestroy`, `ColumnDestroyed` |
| `arrange_layers` (its end) | `ArrangeLayers` |
| `view_map` with `should_focus`, `view_unmap` | actions `Map`, `Unmap` |
| `container_set_fullscreen` | actions `Fullscreen`, `FullscreenDisable` |
| `workspace_switch`, clicks, commands | actions `WorkspaceSwitch`, `FocusWorkspace`, `FocusView`, `LayerClick` |
| commit and destruction of a layer surface | actions `LayerCommit`, `LayerDestroy` |
| `lock.c` | actions `SessionLock`, `LockSurface...`, `SessionAbandon`, `SessionUnlock` |
| a keyboard is configured, an output is configured | actions `KeyboardReset`, `OutputConfigured` |

`seat_set_focus` and `seat_set_focus_layer` call each other. The inner call
always finds `focused_layer` NULL already, so two operators without recursion
say the same: `SetFocusNoLayer` is the inner one, `SetFocus` the outer one.

Abstractions:

* Columns are not nodes of the stack: they never have the focus, and what the
  code looks for in them is a view. Which views share a column is chosen when
  one of them is unmapped, and so is the neighbour that `view_unmap` prefers.
* A lock surface goes by the name of its output, and the outputs stay. When a
  lock client goes away its surfaces go with it.
* `keyboard` is NULL also when the surface that had it is not mapped any more.
* A new window or workspace is put at the end of the stack, as `new_node` does.
* `Asks`, `FullscreenViews` and `Lockers` bound what clients ask for.

Not in the model: several seats, drags and popups that grab the keyboard, X11
override-redirect windows, sticky windows and the scratchpad, transient windows
(which a fullscreen window does not obstruct), fullscreen over all outputs,
layer surfaces that change their layer, and the minimize pools.

## The tree and the pointer

`Tree` models the tree of outputs, workspaces, columns and windows with the
scratchpad and the minimize pools. The same fact is kept several times in the
code: a window points at its column and its workspace and both list it,
fullscreen is a mode of the window and a pointer of the workspace or of the root,
minimized is a flag and an entry in a pool. `s` holds all copies and each
operator changes the ones its function changes.

| Code | Module |
|---|---|
| `container_detach`, `container_add_child`, `container_add_sibling`, `container_reap_empty` | `Detach`, `AddChild`, `AddSibling`, `Reap` |
| `workspace_create`, `workspace_consider_destroy`, `workspace_fix_overflow`, `workspace_add_tiling` | `WorkspaceCreate`, `WorkspaceConsiderDestroy`, `FixOverflow`, `AddTiling` |
| `container_set_floating`, `container_set_fullscreen`, `container_handle_fullscreen_reparent` | `FloatingEnable`, `FloatingDisable`, `Fullscreen`, `FullscreenReparent` |
| `root_scratchpad_*`, `workspace_minimized_*` | `ScratchpadAdd`, `ScratchpadShow`, `ScratchpadHide`, `MinimizedHide`, `MinimizedShow` |
| `output_evacuate`, `restore_workspaces`, `workspace_move_to_output`, the priorities | `Evacuate`, `RestoreWorkspaces`, `MoveToOutput`, `OutputRaisePriority` |
| `container_end_mouse_operation`, `seatop_unref` | `EndMouseOperation` |
| `view_map`, `view_unmap` | actions `Map`, `Unmap` |
| commands on windows and workspaces | actions `SetFloating`, `SetFullscreen`, `MoveContainer`, `MoveInDirection`, `Unsplit`, `MoveToScratchpad`, `ShowScratchpad`, `Minimize`, `Restore`, `Switch`, `MoveWorkspace` |
| the overview's swap and pull | actions `OverviewSwap`, `OverviewPull` |
| `output_enable`, `begin_destroy` of an output, `workspace_destroy` | actions `OutputEnable`, `OutputDisable`, `WorkspaceDestroy` |
| `seatop_begin_*`, `handle_motion_postthreshold`, `finalize_move` (module `Pointer`) | actions `Press`, `Request`, `MotionTiling`, `MotionFloating`, `Release` |

Focus is reduced to the order in which workspaces were last used; where the code
asks which window was used last, any may be the answer. A window is `MinWidth`
columns wide and a workspace has a `Capacity`, which is all that overflow needs.

`Pointer` adds the operation of the pointer: a window held down, dragged as a
tile, dragged floating, or resized, the target it is over and the column a resize
started from. Its steps begin, continue, end and abort an operation, and every
step of `Tree` runs beside it.

Left out of both: `container_swap`, sticky windows, `wrap_children`, moving a
fullscreen window to the next output, the layout of columns (any column may be
split, tabbed or stacked), and commands on parked windows that dereference the
workspace they do not have. `FullscreenAgrees` leaves out the mode "workspace"
implying the pointer of the workspace, which a column with a window that is
fullscreen over all outputs loses when it is moved (`container.c:2020`).

## The IPC server

`IpcService` promises three things of each client, without buffers: commands are
run in the order they were sent, each message is delivered whole and once, in
order, and a client that is gone hears nothing more. `IpcServer` has what the
code has: a stream that may be read in pieces with the remembered header, a
write buffer that grows and is moved to the socket as far as there is room, the
list of clients that is walked while an event is sent, and the nested run of the
event loop in `sway_terminate`, in which other callbacks run while the command
"exit" waits. `ServesInOrder` says that it implements `IpcService`.

A command is two units of header and one of body, a message two units, and
`Capacity`, `InitialSize` and `MaxSize` are in these units: one message does not
fit the socket at once, and two do not fit the first buffer (a buffer starts no
larger than its limit, as 128 bytes and 4 MB are). A message is cut into its
header and its payload. A failed allocation is not modelled; the many query
commands are alike. The loops over the clients and the doubling of the buffer
are `Repeated`: a step of the loop, so many times.

Fairness: `FairSpec` assumes that a readable or writable descriptor is served
(the event loop returns to each ready source), and that clients read what they
are sent. Without the last a client that does not read is disconnected, which
the safety part covers.

## The parts

`MCParts` puts together components that share no state with each other: a
behaviour of it is a behaviour of one part, chosen at the start, and one
variable holds its state. What one part does cannot matter to another.

| Module | State and steps | What is correct |
|---|---|---|
| `Launcher` | launch contexts with token, view, seat and node; all of these end in any order and destroy each other | `ContextsOwned`: a context has one owner and points at what exists |
| `Keyboard` | keys, the pressed lists of bindings, held and repeating binding, what the client, the input method and the overview believe to be down | `KeysAgree`: they agree, and no binding that is gone is used |
| `Devices` | keyboards, records of seats, groups, keymaps, the lines of input and seat configuration, reload | `KeyboardsPlaced`: each keyboard is with the seats, in the group and with the keymap it is configured for |
| `TextInput` | the relay, text inputs and their pending surfaces, the input method, its popups | `ImeServesTheFocused`: the input method serves the text input of the focused surface |
| `OutputConfig` | stored configurations, heads, the delayed modeset, the search that degrades settings until the backend accepts | `OutputsAsConfigured`: outputs are as configured last, as far as the backend allows |
| `XwaylandSurfaces` | managed and unmanaged X11 windows, which turn into each other | `WindowsServed`: each has the object of its kind, and the keyboard is with one that may have it |
| `Requests` | minimizing, activation, urgency with its timer, what clients and taskbars were told | `RequestsTold`: they were told the truth |
| `Columns` | the columns of a workspace with fractions, limits and minimum widths; resizing, taking, dropping, overflow | `RowServesAll`: columns get what they need and fill the workspace |
| `Cursor` | buttons, fingers, a pen, the operation of the seat, what is simulated | `CursorLetsGo`: nothing is left pressed for a client |
| `PointerConstraints` | constraints, the one in force, cursor images and listeners | `PointerIsWhereTheKeysAre`: the one in force is of the surface with the keyboard |
| `Gestures` | tracker, bindings, what the client was told | `GesturesEnd`: a gesture is the bindings' or the client's to its end, and runs the best binding |
| `Rules` | rules, executed rules, marks, command lists that run rules | `RulesObeyed`: each rule runs once for each window it is about, and a mark names one window |
| `SwayBar` | the arrays of the event loop, outputs, visibility, the status command | part of `BarServes`: callbacks are for objects that live, the bar is shown and the command runs as wanted |
| `StatusLine` | blocks and their references, the parser over pieces, frames, clicks | part of `BarServes`: the last whole line is shown, and clicks reach blocks that live |
| `BarInput` | the wheel, fingers and their slots, the list of workspaces | part of `BarServes`: as many steps as the hand makes, a slot for each finger |
| `Tray` | the session bus, watcher and hosts | `TrayAgrees`: the icons are those of the watcher |

Bounds of each part are in the comments of `MCParts`: two actors of each kind
where two can disagree, and one more where a third can come between. What the
modules leave out is named in their first comment. The rest:

* `Launcher`: one seat; names of workspaces are one.
* `Keyboard`: keycodes only, one window, one lock, inhibitor or grab at a time.
* `TextInput`: the text itself and the geometry of popups are left out.
* `Devices`: only keyboards; two commands between reloads.
* `OutputConfig`: two outputs and a bandwidth both cannot use fully, two commands.
* `Requests`: scratchpad windows and workspaces that go are left out.
* `Columns`: three windows, two widths; a double is a number of sixtieths.
* `Cursor`: each device is used twice; two fingers, or a pen with two buttons.
* `Gestures`: one gesture at a time.
* `Rules`: two windows, none minimized; memory is reused first-fit; `move`, `kill`,
  back-and-forth and launch contexts are left out.
* `SwayBar`: data arrives while the bar polls (it is looked at there only);
  allocation failures and timers, which no client uses, are left out.
* `StatusLine`: one output, two clicks, one change of the command; at the end of
  the file readers spin in the code and not here.
* `BarInput`: one axis; larger instances with two outputs passed as well.
* `Tray`: two programs with two icons; replies about properties of an icon are
  left out.

## The runs

There are as many runs as questions; the time of each is within a few minutes.

| Run | Instance | Checks |
|---|---|---|
| `windows` | two tiled xdg views, one workspace, at most 3 events each | `RefCounts`, `WaitsForTheSilent`, `FrozenWhileAwaited`, `CommittedIsLatest`, `AtomicUpdates`, `ClosingFrameKept` |
| `remap` | one floating X11 view, three containers, timers that may fail | `NoUseAfterFree`, `NothingLeaks`, `ViewFreedLast` |
| `liveness` | one tiled X11 view that may never answer and asks for sizes, mapped twice | `EveryCommitIsShown`, `EveryDestructionEnds` |
| `x11` | a floating X11 view that answers, half pixels | `NoTimeoutNeeded` |
| `focus` | two tiled windows of two clients, either of which may lock the session | `KeyboardFollowsFocus`, `LockScreenHasKeyboard`, `ExclusiveBlocksViews` |
| `fullscreen` | a tiled and a floating window, both may become fullscreen; no lock | `FocusInSight`, `EmptyWorkspacesGo` |
| `tree` | three windows, two workspaces, one output; every operation on one of the windows | `Linked`, `Pooled`, `FullscreenAgrees` |
| `outputs` | two windows, three workspaces, two outputs that come and go, minimizing | `OutputsServed`, `OutputsKeepWindows` |
| `lost` | the same | `NoWindowLost`, violated |
| `drag` | two windows, two workspaces, one output, every operation of the pointer | `OperationHoldsTheLiving` |
| `ipc` | two clients, one of which may leave or exit the compositor | `ServesInOrder`, `EveryListenerTold`, `EveryCommandAnswered` |
| `parts` | see [the parts](#the-parts) | the invariants listed there |

The type invariants are parts of the properties: `KeyboardFollowsFocus`,
`Linked`, `ServesInOrder` and those of the parts include them; that of
`Transaction` is a theorem (`TypeCorrect`).

**Transactions.** `CHECK_DEADLOCK FALSE` is set because the bounds end every run:
once each view has been sent `MaxSerial` configure events no handler commits any
more. Containers are interchangeable, and so are the nodes without a view; where
all views are alike they are, too. Symmetry is used only in runs without
liveness. Two views are enough for one to answer while the other is silent, and
for one transaction to hold some nodes of the next. Three events per view allow
a mapping, a queued transaction and a pending one that configures again. Two containers per view show a view mapped again
while its old container waits; three show two old ones, in both transactions.
One node without a view suffices: it is only ever counted, dirtied and freed.
`MaxUncommitted` 1 leaves one dirty node between handlers, and a node dirtied
by the next handler joins it.

The only thing the compositor schedules itself is its timer, so `FairSpec`
assumes of it alone that it fires when it stays armed:
`wl_event_source_timer_update` guarantees this. Clients are assumed nothing.
`TimerFairness` is weak fairness of `Timeout` written out. `ResponsiveSpec` adds
what `NoTimeoutNeeded` is about: clients that answer what they are told, at the
size they are told, and stay, and handlers that commit what they change. The
timer is not assumed there, and never needed. All properties of liveness hold at
the bound as well: when no handler may commit any more, what has been committed
still has to be shown, thawed and freed.

**Focus.** Two outputs, one with two workspaces, and one layer surface on each,
in the TOP and in the OVERLAY layer. The state space is finite without any
counter, and the runs explore it completely. A workspace that is hidden needs
another one on its output; an output that shows what the focus is not on needs a
second output. Two windows are enough for one to be closed away from the focus.
Two layer surfaces on two outputs let the flag `has_exclusive_layer` be
recomputed for the wrong output. Two clients let the lock be taken over and the
window of the locking client keep the focus. The lock and fullscreen windows are
explored in separate runs; the proofs have both at once.

**Tree and pointer.** Windows stop when all are gone and the bounds of the
columns are reached, hence `CHECK_DEADLOCK FALSE`. Three windows make a column of
two and another beside it; two workspaces on one output make one hidden;
`Capacity` 2 makes the third column overflow. A step is only taken while a
column is left for a new one (`Next`): as no column is empty, one is whenever
there are more columns than windows. A workspace is moved to another output, and
an output enabled, only while there are numbers left for the workspaces that may
have to be made, one for each output that gives some away (`MoveWorkspace`,
`OutputEnable`); the code takes the next number. With outputs, three workspaces on
two outputs with a memory of two priorities each (`FewPriorities`) let a
workspace come back to an output of which it is not the only guest. The windows
that nothing tells apart are interchangeable, and so are the outputs. With one
output nothing depends on which outputs a workspace remembers, so run `tree` takes
two states that differ only in that for one (`VIEW ButPriorities`).

**IPC.** `CHECK_DEADLOCK FALSE` since the server stops. Every kind of command is
sent. Two commands let those of one client wait behind each other while an event
passes between, or both clients listen when one changes something; a subscriber
that does not read is over its limit after an event or two, and is removed while
the list is walked for the other. The proofs have any number of each.
`WF_s` of the callbacks says that the event loop serves each source that is
ready; that of `Push` and `ClientRead` that a client finishes the command it
began and reads what it is sent.

**Parts.** Some parts end (a program that a step would crash, all programs gone),
hence `CHECK_DEADLOCK FALSE`.

## The proofs

### Transactions

The only assumption is `ConstantsAssumption`: the nodes are finite sets, boxes
have natural coordinates and NULL is none of the values. The number of views,
containers, boxes and events is arbitrary, and so are the kinds of the views.

`Transaction_proofs` proves the inductive invariant `Inv`, and from it
`TypeOK`, `RefCounts`, `NoUseAfterFree`, `NothingLeaks`, `WaitsForTheSilent` and
`FrozenWhileAwaited`. None of these is inductive alone. `Inv` is the conjunction
of `TypeOK` and of

* `Consistent`, which holds after every call of a handler: reference counts,
  what is reachable is not freed, instructions point into the queue, containers
  have views, a destroying node is dirty or held by a transaction, frozen views
  belong to the transaction in line, awaited views are frozen, and the counter is
  the number of silent ones or zero;
* `AtRest`, which holds between handlers only: nothing is pending unless
  something is queued, and what is queued waits for somebody;
* `Shown`, about the mapped views and their live containers.

The split follows the code. Each function of `transaction.c` has a lemma of the
form "if the record it gets is consistent, so is the one it returns"; those that
end a handler also establish `AtRest`. `Frees` is what a handler may do to the
life of nodes: only free destroying ones, which keeps `Shown`. An action then
cites the lemmas of the functions it calls, in order.

Its last part adds `Latest`, that what was committed of a clean
container is its pending state, to the invariant (`LInv`), and proves
`CommittedIsLatest` and the refinement `AtomicUpdates`. The lemmas follow the
calls again: committing starts a layout when nothing is in flight, finishing
shows the one in flight, and `MovesTwice` puts two steps of one handler together
(a surface commit may commit a transaction and then answer one).

`TransactionClosing_proofs` proves the action properties `ViewFreedLast` and
`ClosingFrameKept`, about windows that close. A view that is mapped again before
its old container is released has a *former* container, and whether the view is
freed under it depends on where the two stand in the transactions. `CInv` adds
to `Inv`

* `Ordered`: a former container is not dirty any more, is in the queued
  transaction or in the pending one before the current container, never behind
  it, and the indexes of the pending transaction are at most the number of its
  nodes, so that what is appended comes last (`AddNodesAppends`);
* `Owned`: a live container is the current one of a mapped view, and the
  container of a view that is not mapped is being destroyed;
* `Clean`: between two handlers no container being destroyed is dirty, since the
  handler that begins a destruction also commits.

These are not invariants of the calls in between, so the lemmas are about
`Good(s, S, K)`: `S` are the views that will be mapped when the handler ends,
and `K` the views whose frame has to survive it. A closing view is *Leaving*
while its only container is destroyed and, if pending, the view is frozen: then
no commit copies from its surface again (`FramesDone`).

### Focus

All five properties of `Focus` are theorems, for any number of windows,
workspaces, outputs, layers and clients. The only assumption is
`FocusAssumption`: the constants are of their kinds and disjoint, every output
has a workspace at the start, and the initial stack names each node once.

`Focus_proofs` proves the inductive invariant `IInv` (`FocusInvariant`), which
TLC has checked as an invariant of both instances of `MCFocus`, and from it
`KeyboardFollowsFocus`, `LockScreenHasKeyboard`, `ExclusiveBlocksViews` and
`FocusInSight`. Its parts:

* `Placed`: the stack holds the windows that are mapped and the workspaces that
  exist, each once, every output has a workspace, and what a workspace says is
  fullscreen is on it.
* `TopFirst` and `WorkspaceKnown`: the workspace of the first node is the first
  workspace of the stack, and the one the seat knows while a node is focused.
* `FrontClear`: of the windows in front of every workspace in the stack none is
  hidden by a fullscreen one further behind. This is what makes `FocusInSight`
  inductive: when the first node is destroyed, or a layer passes the focus on,
  one of these windows comes to the top and nobody asks whether it is obstructed
  (`seat.c:309`).
* a focused layer excludes a focused node, and the seat's workspace exists;
* `Keyed`: who has the keyboard, by who has the focus;
* `LockInv`: the focused lock surface is a mapped one, and none are mapped
  without a lock.

`StackInv` has a parameter, the window whose node is destroyed while it is still
on its workspace: `view_unmap` passes through such a state, and the lemmas of the
functions it calls are stated for it. Each function of `seat.c` has a lemma on
what it makes of the parts (`FocusSet`, `LayerLost`, `SetFocusKeeps`, ...). The
stack is only looked at through `MostRecent`, whose lemmas (`MostRecentWithout`,
`MostRecentAppend`, ...) rest on `SequenceLemmas`: what the first element found
in a sequence is, and that removing an element shifts the ones behind.

The last part of `Focus_proofs` proves the action property `EmptyWorkspacesGo`
(`NoneForgotten`): of each function it says which workspaces it takes out of
sight, and that it leaves none behind that is empty (`Forgets`); `view_unmap`
needs most of it, as it empties a workspace, may destroy it and may show others.

### IPC

`IpcServer_proofs` proves both safety properties of `IpcServer`, for any clients,
commands, subscriptions and sizes of buffers (`IpcAssumption`): the refinement
`ServesInOrder` and the action property `EveryListenerTold`. The inductive
invariant `IInv` (`Invariance`), which TLC has checked on the instance of
`MCIpcServer`, says besides the types that

* `Listed`, `Roomy`: the list has the open clients once each, no write buffer is
  full or beyond its limit, no socket over capacity;
* `Dormant`: a client that is not accepted yet has nothing under way, and of a
  removed one nothing is kept;
* `WellFormed`: what a client has written and is still to write is a row of whole
  commands, after the body of the remembered header if there is one. Without it
  a header could be mistaken for a body, and a command for none;
* `OneExit`: one command to exit at most is sent and not handled, or waits for
  the nested run of the event loop, and then no other is under way.

What `IpcService` sees of a client is a function of `s` and the client:
`AskedOf` the commands and `Mail` the messages, both sequences with elements
left out (`Chosen`, whose lemmas say what it makes of a concatenation). Each
function of the server has a lemma on both: `SendReply` appends a message or
removes the client, `SendEvent` does so for each listener (`SendEventInv`, by
induction over the walk: those before the index are served and those behind
untouched), `HandleCommand` answers the first command that is not "exit", and
`HandleWritable` moves bytes and changes nothing that is seen. `OneServed` says
that a step of the server is one that `Serve` allows, `ClientStep` the same of
the clients; `NextInv` puts the actions together.

### Tree

`Tree_proofs` proves `OutputsServed`, that every output shows a workspace and no
workspace is on an output that is gone, for any windows, columns, workspaces and
outputs. `TreeAssumption` says that the constants are of their kinds and
disjoint, that there are finitely many windows and workspaces, and that the
fallback output is not one of the others.

It is not inductive alone. The invariant is `Sound` (`TreeSound`), which TLC has
checked on the instances of `MCTree`: the state is in `States`, and `Served`

* a workspace has an output exactly as long as it lives: `workspace_consider_destroy`
  asks the output which workspace it shows, and would spare or destroy the wrong
  one if a dying workspace kept its link;
* a workspace that lives is in the order of focus: otherwise an output with a
  workspace would show none (`ActiveOn`), and `seat_get_focused_workspace` would
  find none to create the next one beside (`FocusedWsLive`);
* a workspace that lives is on an output that is there, or on the fallback one
  while there is none;
* each output that is there has a workspace, and is listed once: an output
  listed twice would not go when it is disabled (`RemoveFirstInjective`).

`Served` has two parameters, for the states inside a handler. `N` are outputs
that have no workspace for now: `workspace_move_to_output` and
`restore_workspaces` take the last one of an output before they make another,
and `output_enable` begins with an output without any. `E` are outputs that have
workspaces although they are not there: the one `output_disable` has taken out
of the list and not evacuated yet, and the fallback output while its guests are
restored. `CreateServed` is how an output leaves `N`, and the lemma of each loop
says that it empties `N` or `E`: `EvacuateServed` that one round takes exactly
one workspace off the output, `OutputDisabledSound` that after as many rounds as
it had none is left, `OutputEnabledSound` that the numbers that were free suffice
for all rounds. `TreeTyped` gives `TypeOK`.

Most operators touch no workspace, and have a lemma that says so and that they
keep the types (`Same`). Those that may destroy workspaces on the way go through
`ConsiderServed`: `workspace_consider_destroy` spares what is shown. `Keeps` adds
that no container comes to life, so that the column a later step of the handler
takes is still free; `Roomy` is that there is one. Loops are `Rounds`, a function
from the number of the round to the state, about which `RoundsKeep` and
`RoundsReach` are proved once.

`TreeLists_proofs` and `TreeLinked_proofs` prove `Linked` (`TreeLinked`). What is
inductive is `Sound` and `Wired(s, {}, {})`, which TLC has checked on the
instance of `tree`. `Wired` is about every state a function of `container.c` or
`workspace.c` passes through, and has four parts:

* `Listed`: no list names anything twice; a window is in the children of a column
  exactly when the column is its parent; and a container is in a list of a
  workspace, tiling or floating, exactly when it has no parent and that is its
  workspace. From one side `Linked` follows, from the other that a container is
  never in two lists;
* `Pointers`: a column has no parent; a window in a column is on its workspace,
  and the column is alive; what is destroyed has no links; and a workspace that
  something is on lives, or `workspace_consider_destroy` would have freed it
  under a window;
* `PutAway`: a column that lives is on a workspace, and a window that is in no
  list is in the scratchpad or minimized. A hidden scratchpad window has no
  parent, and one that is minimized too remembers that it floated: otherwise
  restoring it would put a scratchpad window among the tiled ones;
* `Filled`: a column that lives has a child, unless a window was lost.

It has two parameters again. `X` are the containers a handler has taken out of
the lists and not put back yet, `E` the columns that may be empty for now: those
whose last child was taken, and a new one without a child. Every function says
what it does to both: `Detach` adds to `X` the container and to `E` its parent
(`DetachWired`), `OntoWorkspace` and `IntoColumn` take from them, `Reap` and
`DestroyWired` empty `E`. An operation ends with both empty, and the lemma of
each (`MapWired` to `OutputDisabledWired`) is that the sets the calls leave cancel
out. No workspace is destroyed twice: what `workspace_begin_destroy` is called
with lives, by `Pointers` or because an output showed it (`Served`).
`StillWired` and `AlikeWired` are for the functions that
leave lists and pointers alone, among them all that concern outputs, fullscreen
and focus.

`OutputsKeepAll` proves `OutputsKeepWindows`, the action property about outputs
that come and go. Only `OutputEnabled` and `OutputDisabled` change the list
(`NextOutputs`, from what each operator's lemma says of `outs`). What the two
handlers do is `Spared`: the same containers live on the same workspaces, no pool
changes, and a workspace that lived and is not empty still lives. That holds of
one `workspace_consider_destroy` (`ConsiderSpared`), of a new, empty workspace
(`CreateSpared`) and of two steps in a row (`SparedTwice`), hence of the rounds of
`output_evacuate` and `restore_workspaces`. A workspace with a window is not empty
because the window, or the column it is in, is in a list of that workspace: that
is `Wired` (`NotEmpty`).

`TreePooled` proves `Pooled`, about the scratchpad and the minimize pools. It is not
inductive as it stands: it speaks of the pools of living workspaces and is silent
about a workspace that comes back to life, and it does not hold in the middle of a
handler, which marks a window minimized before it takes it out of the tree and
puts it in a pool last. What is inductive, together with `Sound` and `Wired`, is
`Running => Stowed(s, {})`, which TLC has checked on the instances of `tree` and
`outputs`:

* a workspace on an output lives, and its pool holds minimized windows alone;
* no window is in the pools of two such workspaces;
* a workspace that is gone for good has an empty pool, so that one created in its
  place starts without windows;
* a minimized window is in the scratchpad or in some pool, if only that of a
  workspace which is ending.

The parameter `X` are the windows that are minimized and in no pool yet, which is
only ever the one that `container_minimized_hide` is about
(`MinimizedHideWired`). `Kept` says that an operator keeps all that for every `X`,
unless a window is lost on the way; nearly all lemmas of `Tree_proofs` conclude it,
most of them through `Plain`, which says that pools, minimized windows and
workspaces are left alone. The operators that do more are `container_minimized_show`
(`RestoredKept`: the window leaves the pool it was in), a window that is destroyed,
workspaces that go to another output (`MovedKept`: the pool goes with its
workspace), and `workspace_destroy`, which empties the pool in rounds
(`DestroyRounds`, `WorkspaceDestroySound`). The condition on `lost` is the one of
`Running`: what the finding of run `lost` does to the tree is the end of what the
invariants speak of.

### What is not proved

Liveness (`EveryCommitIsShown`, `EveryDestructionEnds`, `EveryCommandAnswered`,
`NoTimeoutNeeded`, which is stated under fairness of clients) is beyond the
prover. Of `Tree`, `FullscreenAgrees` is model-checked only: it
is about the fullscreen links, which neither `Wired` nor `Stowed` says anything
of. So are `Pointer`, which has its own state beside
`Tree`, and the parts, whose composition `MCParts` reaches modules with
RECURSIVE operators.

The provers cannot instantiate library theorems that have an operator as a
parameter, so induction over data is done with `LeastNatural`: a least
counterexample. Operators built on `SelectInSeq` can be used when their
definitions are expanded; where a proof is about `SelectSeq` or a fold, the
model uses a definition without them: `RemoveFirst`, and the recursive functions
`Arranged`, `Repeated` and `Chosen`, which are proved to exist
(`ArrangedExists`, `RepeatedExists`, `ChosenExists`).

## What the models say of the code

Known divergences, between what a doc or comment says and what the code does, or
between what a reader would expect and what the models find. One is kept as a run
(`lost`, in `PROJECT.json` under "findings"); for the others the properties are
stated so that they say what does hold, and the condition is named there.

**Transactions**

* The comment in `transaction.h` says a commit notifies all affected clients. A
  commit made for a client's own resize does not configure anybody, and dirty
  nodes left by another handler get into it (`xdg_shell.c:337`). That tiled
  window is then shown in a box its client was never told.
* A floating X11 window that asks for a size is configured at once and left
  dirty. The next commit compares with the current state, which is still the old
  one, sends the same configure again and waits for an answer that the comment
  in `should_configure` says does not come; the layout waits for the timer.
* A window mapped again may lose the frozen frame of its previous life when the
  old container goes; `ClosingFrameKept` speaks of views with one container.

**Focus**

* `has_exclusive_layer` is one flag per seat, and `arrange_layers` recomputes it
  for the layers of one output: a layer with exclusive interactivity on one output
  loses the keyboard to the next window that is mapped after anything is arranged
  on another one. What holds is `ExclusiveBlocksViews`.
* `view_unmap` focuses a neighbour of any tiled window it unmaps, though
  `handle_seat_node_destroy` leaves the focus alone when the window did not have
  it. The neighbour may be on a hidden workspace, which is then shown.
* `workspace_switch` may ask for a focus that is denied: the most recent window
  of a workspace may be behind a fullscreen one, its sibling closed there while
  the focus was elsewhere.
* While a layer has the focus, unmapping the window before it takes the branch
  "setting focus_inactive" (`seat.c:317`). If a window went fullscreen on another
  workspace in between, it comes to the top of the stack and its output shows its
  workspace; `seat->workspace` still names the old one until the layer goes, and
  the workspace shown before is not reaped if it is empty.
* Focus that falls to an empty workspace while nothing had the focus leaves the
  keyboard where it was.

**Tree and pointer**

* Minimizing the last window of a hidden workspace loses it (run `lost`).
  Minimizing a hidden scratchpad window parks it in no pool.
* With `split none` a column may hold a view directly: merging into it
  dereferences its missing children, `workspace_fix_overflow` destroys the
  container of a mapped window.
* `seatop_resize_tiling` asks only about the window when containers go
  (`seat.h:350` says any it holds): the column of the resize may dangle.
* Dropping a window at the bottom of a tabbed column inserts one place after the
  end; dropping it onto a hidden workspace whose only window it is destroys the
  workspace and then uses it; a drag whose window or target is minimized
  meanwhile finds no workspace. A tiled window moved next to a floating one
  floats without ending the drag.

**IPC server.** Handlers use a client after `ipc_send_event`, or a nested run of
the event loop, may have freed it (the field `crash`). The reply to "exit" may be
overtaken by replies to later commands, and events of the shutdown are flushed
only as far as the sockets have room.

**Launcher.** When its node is the root, `launcher_ctx_get_workspace` creates a
workspace of the saved name even if there is one (`launcher.c:135`).

**Keyboard and overview**

* The held binding survives a reload, and `unbindsym` may free a held or
  repeating one; a binding that unbinds itself is used after.
* Bindings without `--locked` that are repeating or held go on after the session
  is locked.
* The overview returns early on the release of its modifier, which the client
  then never hears; its thumbnails point at windows that close while it is open.
* A single-key binding that is listed first wins over a matching one of several
  keys, despite the comment.

**Devices**

* Moving a keyboard to a newer seat visits that seat first: the record of the old
  seat is removed from the group it has just been put in (`sway-input.5:287`).
* A seat that drops a keyboard removes it from the group of another seat.
* Configurations read at startup have no type, so a later `input type:...` skips
  them; in the file a later `*` overrides an identifier despite the precedence
  the manual gives. Any `seat` command moves virtual keyboards to fallback seats.

**Text input**

* Focus on a workspace does not tell the relay (`text_input.h:18` says it is
  told), so a text input may stay entered on a surface that goes.
* Two text inputs of one client are entered both ("at most one" in the comment);
  a popup shown for an unmapped window looks into its missing container.

**Outputs**

* A successful *test* of an output manager cancels a pending modeset.
* An identifier configuration overrides what a client applied, but supersedes it
  only at the next modeset; a name configuration that was set while the output was
  unplugged loses to an older identifier configuration.
* An output degraded to "off" counts as enabled at the next modeset, despite the
  comment on priorities.

**X11 windows and requests**

* `unmanaged_handle_unmap` may give the keyboard to a parent that is not mapped or
  not focused. After the last view is unmapped the keyboard stays on its surface.
* A minimized window that asks for activation or urgency, or an urgent one that is
  minimized, makes `workspace_detect_urgent` look into no workspace
  (`workspace.c:868`).
* A window that is maximized keeps pointers to containers that may go
  (`container.c:506`).

**Columns.** A minimum width that arrives late makes a row overflow although the
minima fit; swapping, dropping, taking and changed gaps may leave a row wider
than its workspace until the next arrangement.

**Cursor and constraints**

* Lifting and moving fingers compare with the last finger put down: the lift of
  the first of two fingers is lost, and the button simulated for it stays down.
  A surface that knows fingers under the second one ends the simulation without a
  release.
* A pen whose button began a drag loses its tip up.
* `pointer_constraint disable` disables first and then asks to release the
  constraint, which does nothing any more.

**Gestures.** Of the bindings of a device an exact one loses to one that is not
exact when that was bound before with all directions (`sway.5.scd:573`);
`--exact pinch:inward` and `hold:up` never match.

**Rules**

* Executed rules are remembered by address, and a reload frees rules: one of the
  next configuration at the same address counts as executed.
* `con_mark="__focused__"` compares with no pattern; `workspace=__focused__` looks
  into no workspace when none is focused; `urgent` looks into an empty list.
* Marks of minimized windows are not found, so two windows may hold one
  (`sway.5.scd:826`); the exception for the first window of a workspace
  (`sway.5.scd:847`) never applies to tiled windows.

**swaybar**

* A click on a place of the frame before a reload that removed the status command
  finds no status line (`i3bar.c:274`); after it was replaced the click may go to
  the new program; a click after the program exited ends the bar by a signal.
* A text line that arrives in pieces is shown in fragments, and what is unread is
  dropped when the program hangs up.
* The tray compares names by prefix: when the program ":1.1" goes, so do the icons
  of ":1.10".
* A finger on an output that goes keeps pointing at it; slots of fingers that the
  compositor forgot stay taken; a drag over several fifths of the bar in one motion
  asks for one workspace only.

## What is not modelled

Drawing (`arrange_root` and below in `transaction.c`, the scene graph, titles,
decorations, the overview's screen, the rendering of swaybar, swaynag), text and
IPC formatting (`ipc-json.c`), the reading of configuration files with includes
and validation, switches, tablet pads and libinput settings, idle inhibitors,
process start, `swaynag` and `swaymsg`, popups, drag and drop, several seats
outside `Devices`, and failed allocations except those of the transaction timer.
`PROJECT.json` lists each component with what is missing of it.

Wayland and X11 clients are external: `Answer` and `Redraw` of `Transaction` are
how a well-behaved client uses the handlers, and in `Spec` a client may commit
any size having acknowledged any event, in order.
