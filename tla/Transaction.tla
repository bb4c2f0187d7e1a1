---------------------------- MODULE Transaction ----------------------------
(***************************************************************************)
(* The layout transactions of the compositor: sway/desktop/transaction.c,  *)
(* with the handlers of view.c, container.c, node.c, xdg_shell.c and       *)
(* xwayland.c that feed it.                                                *)
(*                                                                         *)
(* Every node of the tree has a pending state, which the handlers change,  *)
(* and a current state, which the screen shows.  A handler marks the nodes *)
(* it changed dirty and commits them: their pending states are copied into *)
(* the pending transaction.  At most one transaction is queued: its views  *)
(* are sent the size they are to have and their last frame is frozen on    *)
(* screen until all of them have drawn at that size, or a timer fires.     *)
(* Then all the states of the transaction become current together, and     *)
(* the transaction pending meanwhile is queued in its turn.                *)
(*                                                                         *)
(* The compositor is single threaded: a handler runs to its end.  The      *)
(* state it works on is one record, and the functions of transaction.c are *)
(* operators from a record to a record, so that an action reads like the   *)
(* handler it models.  A node that handlers may still reach is "live"; it  *)
(* is "destroying" from its begin_destroy call to the release of its       *)
(* memory, when it becomes "freed".                                        *)
(***************************************************************************)
EXTENDS Naturals, Sequences, FiniteSets, Functions

CONSTANTS
    Containers,     \* the containers that hold a view, each allocated once
    Others,         \* nodes without a view: workspaces, outputs, columns
    Views,          \* the windows of the clients
    XwaylandViews,  \* the views that are X11 windows, the rest are xdg toplevels
    FloatingViews,  \* the views whose container floats
    Boxes,          \* the content boxes a layout may give a node
    NULL,           \* no view, no container
    TimerOutcomes,  \* whether creating a timer may succeed, may fail
    MaxSerial,      \* bound: configure events sent to each view
    MaxUncommitted  \* bound: dirty nodes left behind for a later commit

Nodes == Containers \cup Others

(***************************************************************************)
(* A box is a position, in half pixels because sway computes positions in  *)
(* doubles and X11 truncates them to whole pixels, and a width, which      *)
(* stands for both dimensions.  A node that no transaction has reached yet *)
(* is current at NoBox (calloc).                                           *)
(***************************************************************************)
NoBox == [x |-> 0, w |-> 0]
Widths == {b.w : b \in Boxes}
NodeState == [x : {b.x : b \in Boxes} \cup {0}, w : Widths \cup {0}]

(***************************************************************************)
(* A transaction is its list of instructions, at most one for a node:      *)
(* index is the position in the list, state the copy of the node's pending *)
(* state, serial the configure event to be acknowledged (0: none).  A      *)
(* transaction exists only with instructions, so the one with none stands  *)
(* for the NULL pointer.                                                   *)
(***************************************************************************)
Instruction == [index : Nat, state : NodeState, serial : Nat,
                server_request : BOOLEAN, waiting : BOOLEAN]

Transactions == [instructions : [Nodes -> Instruction \cup {NULL}],
                 num_waiting : Nat]

NodesOf(t) == {n \in Nodes : t.instructions[n] # NULL}
NoTxn == [instructions |-> [n \in Nodes |-> NULL], num_waiting |-> 0]
IsNull(t) == NodesOf(t) = {}

ASSUME ConstantsAssumption ==
    /\ IsFiniteSet(Containers) /\ IsFiniteSet(Others)
    /\ Containers \cap Others = {}
    /\ XwaylandViews \subseteq Views /\ FloatingViews \subseteq Views
    /\ Boxes \subseteq [x : Nat, w : Nat]
    /\ NULL \notin Views \cup Nodes \cup Instruction
    /\ TimerOutcomes \subseteq BOOLEAN
    /\ MaxSerial \in Nat /\ MaxUncommitted \in Nat

VARIABLES
    server,     \* everything the compositor keeps
    client      \* per view, the serial of the configure its surface last acked
vars == <<server, client>>

NodeLife == {"unborn", "live", "destroying", "freed"}
ViewLife == {"live", "destroying", "freed"}

(***************************************************************************)
(* server holds, of struct sway_server: dirty_nodes, pending_transaction,  *)
(* queued_transaction; of struct sway_node: life, ntxnrefs, pending,       *)
(* current, and the set of nodes whose instruction pointer is set (it then *)
(* points into the queued transaction); of struct sway_container: view; of *)
(* struct sway_view: container, vlife, geometry (the width of the surface, *)
(* which matters for floating views), and the sets mapped (surface is      *)
(* set), saved (saved_surface_tree is set: the last frame is frozen on     *)
(* screen), blank (it was copied when the surface was gone and holds no    *)
(* buffer) and visible (what view_is_visible answers).                     *)
(* configures counts the configure events a client has been sent, and      *)
(* configured is the box of the last one.                                  *)
(***************************************************************************)
Servers ==
    [dirty_nodes : Seq(Nodes),
     pending_transaction : Transactions,
     queued_transaction : Transactions,
     life : [Nodes -> NodeLife],
     ntxnrefs : [Nodes -> Nat],
     pending : [Nodes -> NodeState],
     current : [Nodes -> NodeState],
     instruction : SUBSET Nodes,
     view : [Containers -> Views \cup {NULL}],
     container : [Views -> Containers \cup {NULL}],
     vlife : [Views -> ViewLife],
     geometry : [FloatingViews -> Widths \cup {0}],
     mapped : SUBSET Views,
     saved : SUBSET Views,
     blank : SUBSET Views,
     visible : SUBSET Views,
     configures : [Views -> Nat],
     configured : [Views -> NodeState]]

(* The two variables keep these types. *)
TypeOK == server \in Servers /\ client \in [Views -> Nat]

(***************************************************************************)
(* A client maps a toplevel after acknowledging one configure event.       *)
(***************************************************************************)
Init ==
    /\ server = [dirty_nodes |-> << >>,
                 pending_transaction |-> NoTxn,
                 queued_transaction |-> NoTxn,
                 life |-> [n \in Nodes |-> IF n \in Others THEN "live" ELSE "unborn"],
                 ntxnrefs |-> [n \in Nodes |-> 0],
                 pending |-> [n \in Nodes |-> NoBox],
                 current |-> [n \in Nodes |-> NoBox],
                 instruction |-> {},
                 view |-> [c \in Containers |-> NULL],
                 container |-> [v \in Views |-> NULL],
                 vlife |-> [v \in Views |-> "live"],
                 geometry |-> [v \in FloatingViews |-> 0],
                 mapped |-> {},
                 saved |-> {},
                 blank |-> {},
                 visible |-> {},
                 configures |-> [v \in Views |-> 1],
                 configured |-> [v \in Views |-> NoBox]]
    /\ client = [v \in Views |-> 1]

-----------------------------------------------------------------------------
(* Helpers on the state record. *)

IsView(n) == n \in Containers
ViewsOf(s, S) == {s.view[c] : c \in S \cap Containers}
Dirty(s) == Range(s.dirty_nodes)
Live(s) == {n \in Nodes : s.life[n] = "live"}
Destroying(s, n) == s.life[n] = "destroying"

NodeSetDirty(s, n) ==
    IF n \in Dirty(s) \/ Destroying(s, n) THEN s
    ELSE [s EXCEPT !.dirty_nodes = Append(@, n)]

(* A handler of the tree changes node n and marks it dirty.  The states of *)
(* the nodes without a view are left out: no decision here depends on them.*)
Modify(s, n, b) ==
    NodeSetDirty([s EXCEPT !.pending[n] = IF IsView(n) THEN b ELSE @], n)

-----------------------------------------------------------------------------
(***************************************************************************)
(* transaction_add_node, for every dirty node: the node's pending state is *)
(* copied into its instruction in t, which is appended to the list unless  *)
(* the node already has one.                                               *)
(***************************************************************************)
PosInDirty(s, n) == CHOOSE i \in DOMAIN s.dirty_nodes : s.dirty_nodes[i] = n

(* Mutants: a node known to t keeps its first state; nodes are prepended.  *)
AddNodesOnce(s, t, server_request) ==
    [t EXCEPT !.instructions =
        [n \in Nodes |->
            IF n \in Dirty(s) \ NodesOf(t)
            THEN [index |-> Cardinality(NodesOf(t)) + PosInDirty(s, n),
                  state |-> s.pending[n], serial |-> 0,
                  server_request |-> server_request, waiting |-> FALSE]
            ELSE @[n]]]

AddNodesReversed(s, t, server_request) ==
    [t EXCEPT !.instructions =
        [n \in Nodes |->
            IF n \in Dirty(s)
            THEN [index |-> Len(s.dirty_nodes) - PosInDirty(s, n),
                  state |-> s.pending[n], serial |-> 0,
                  server_request |-> server_request, waiting |-> FALSE]
            ELSE @[n]]]

AddNodes(s, t, server_request) ==
    LET known == NodesOf(t)
        new == Dirty(s) \ known
        Index(n) == Cardinality(known)
                      + Cardinality({m \in new : PosInDirty(s, m) <= PosInDirty(s, n)})
        Add(n) == [index |-> IF n \in known THEN t.instructions[n].index ELSE Index(n),
                   state |-> s.pending[n],
                   serial |-> 0,
                   server_request |-> \/ server_request
                                      \/ n \in known /\ t.instructions[n].server_request,
                   waiting |-> FALSE]
    IN  [t EXCEPT !.instructions =
            [n \in Nodes |-> IF n \in Dirty(s) THEN Add(n) ELSE @[n]]]

(***************************************************************************)
(* should_configure: a live view whose size changes at the server's        *)
(* request; for X11 also one whose position, in whole pixels, changes.     *)
(***************************************************************************)
TruncX(b) == b.x \div 2

(* Mutant: compares X11 positions without truncating them. *)
ShouldConfigureHalfPixels(s, t, n) ==
    /\ IsView(n)
    /\ ~Destroying(s, n)
    /\ t.instructions[n].server_request
    /\ s.current[n] # t.instructions[n].state

ShouldConfigure(s, t, n) ==
    /\ IsView(n)
    /\ ~Destroying(s, n)
    /\ t.instructions[n].server_request
    /\ \/ s.current[n].w # t.instructions[n].state.w
       \/ /\ s.view[n] \in XwaylandViews
          /\ TruncX(s.current[n]) # TruncX(t.instructions[n].state)

Hidden(s, n) == IsView(n) /\ ~Destroying(s, n) /\ s.view[n] \notin s.visible

Awaited(s, t) == {n \in NodesOf(t) : ShouldConfigure(s, t, n) /\ ~Hidden(s, n)}

(* The serial view_configure returns; Xwayland gives none. *)
ConfigureSerial(s, v) == IF v \in XwaylandViews THEN 0 ELSE s.configures[v] + 1

(***************************************************************************)
(* transaction_commit of the transaction t, now the queued one: its views  *)
(* are configured, the visible ones among them are awaited, and the last   *)
(* frame of every view on screen is frozen.  When the timer cannot be      *)
(* created nobody is awaited; debug.noatomic has the same effect.  An X11  *)
(* window that is configured as it already was gets no event.              *)
(***************************************************************************)
IsEvent(s, v, b) ==
    \/ v \notin XwaylandViews
    \/ TruncX(b) # TruncX(s.configured[v]) \/ b.w # s.configured[v].w

Commit(s, t, timer) ==
    LET configured == {n \in NodesOf(t) : ShouldConfigure(s, t, n)}
        Box(v) == t.instructions[CHOOSE n \in configured : s.view[n] = v].state
        frozen == ViewsOf(s, {n \in NodesOf(t) : ~Hidden(s, n)}) \ s.saved
        Sent(n) == [t.instructions[n] EXCEPT
                       !.serial = IF n \in configured
                                  THEN ConfigureSerial(s, s.view[n]) ELSE 0,
                       !.waiting = n \in Awaited(s, t)]
    IN  [s EXCEPT
          !.queued_transaction =
              [instructions |-> [n \in Nodes |->
                  IF n \in NodesOf(t) THEN Sent(n) ELSE NULL],
               num_waiting |-> IF timer THEN Cardinality(Awaited(s, t)) ELSE 0],
          !.configures = [v \in Views |->
              IF v \in ViewsOf(s, configured) /\ IsEvent(s, v, Box(v))
              THEN @[v] + 1 ELSE @[v]],
          !.configured = [v \in Views |->
              IF v \in ViewsOf(s, configured) THEN Box(v) ELSE @[v]],
          !.saved = @ \cup frozen,
          !.blank = @ \cup (frozen \ s.mapped),
          !.instruction = @ \cup NodesOf(t)]

(***************************************************************************)
(* transaction_apply of the queued transaction: its states become current  *)
(* and its views thaw, except that a view being destroyed keeps its last   *)
(* frame while another transaction still holds its container.              *)
(***************************************************************************)
(* Mutants: a closing view thaws with the first transaction, or never.     *)
ApplyThawingAll(s) ==
    LET t == s.queued_transaction
    IN  [s EXCEPT
          !.current = [n \in Nodes |->
              IF n \in NodesOf(t) THEN t.instructions[n].state ELSE @[n]],
          !.saved = @ \ ViewsOf(s, NodesOf(t)),
          !.blank = @ \ ViewsOf(s, NodesOf(t)),
          !.instruction = @ \ NodesOf(t)]

ApplyThawingLive(s) ==
    LET t == s.queued_transaction
    IN  [s EXCEPT
          !.current = [n \in Nodes |->
              IF n \in NodesOf(t) THEN t.instructions[n].state ELSE @[n]],
          !.saved = @ \ ViewsOf(s, {n \in NodesOf(t) : ~Destroying(s, n)}),
          !.instruction = @ \ NodesOf(t)]

(* apply_container_state, of the views in the queued transaction *)
Thawed(s) ==
    {n \in NodesOf(s.queued_transaction) : ~Destroying(s, n) \/ s.ntxnrefs[n] = 1}

Apply(s) ==
    LET t == s.queued_transaction
    IN  [s EXCEPT
          !.current = [n \in Nodes |->
              IF n \in NodesOf(t) THEN t.instructions[n].state ELSE @[n]],
          !.saved = @ \ ViewsOf(s, Thawed(s)),
          !.blank = @ \ ViewsOf(s, Thawed(s)),
          !.instruction = @ \ NodesOf(t)]

(***************************************************************************)
(* transaction_destroy of the queued transaction.  A node being destroyed  *)
(* that no transaction holds any more, and that is not dirty, is freed; a  *)
(* view being destroyed is freed with its container.                       *)
(***************************************************************************)
(* Mutant: frees nodes that are dirty. *)
ReleasedDirty(s) ==
    {n \in NodesOf(s.queued_transaction) : Destroying(s, n) /\ s.ntxnrefs[n] = 1}

Released(s) ==
    {n \in NodesOf(s.queued_transaction) :
        Destroying(s, n) /\ s.ntxnrefs[n] = 1 /\ n \notin Dirty(s)}

Destroy(s) ==
    LET t == s.queued_transaction
        lost == {v \in Views : s.container[v] \in Released(s)}
    IN  [s EXCEPT
          !.ntxnrefs = [n \in Nodes |->
              IF n \in NodesOf(t) THEN @[n] - 1 ELSE @[n]],
          !.life = [n \in Nodes |-> IF n \in Released(s) THEN "freed" ELSE @[n]],
          !.container = [v \in Views |-> IF v \in lost THEN NULL ELSE @[v]],
          !.vlife = [v \in Views |->
              IF v \in lost /\ @[v] = "destroying" THEN "freed" ELSE @[v]],
          !.queued_transaction = NoTxn]

(***************************************************************************)
(* transaction_commit_pending and transaction_progress call each other.    *)
(* The pending transaction is taken before it is committed, so the chain   *)
(* ends after one more transaction: a transaction that waits for nobody is *)
(* applied as soon as it is committed.                                     *)
(***************************************************************************)
(* Mutant: a commit replaces the queued transaction.                       *)
CommitPendingOver(s, timer) ==
    LET committed == Commit([s EXCEPT !.pending_transaction = NoTxn],
                            s.pending_transaction, timer)
    IN  IF committed.queued_transaction.num_waiting > 0 THEN committed
        ELSE Destroy(Apply(committed))

CommitPending(s, timer) ==
    IF ~IsNull(s.queued_transaction) THEN s
    ELSE LET committed == Commit([s EXCEPT !.pending_transaction = NoTxn],
                                 s.pending_transaction, timer)
         IN  IF committed.queued_transaction.num_waiting > 0 THEN committed
             ELSE Destroy(Apply(committed))

(* Mutant: the pending transaction is forgotten. *)
ProgressOnce(s, timer) ==
    IF IsNull(s.queued_transaction) \/ s.queued_transaction.num_waiting > 0 THEN s
    ELSE Destroy(Apply(s))

Progress(s, timer) ==
    IF IsNull(s.queued_transaction) \/ s.queued_transaction.num_waiting > 0 THEN s
    ELSE LET done == Destroy(Apply(s))
         IN  IF IsNull(done.pending_transaction) THEN done
             ELSE CommitPending(done, timer)

(* Mutant: a node is counted again when its transaction is pending.        *)
CommitDirtyTwice(s, server_request, timer) ==
    IF s.dirty_nodes = << >> THEN s
    ELSE CommitPending(
            [s EXCEPT
               !.pending_transaction = AddNodes(s, @, server_request),
               !.ntxnrefs = [n \in Nodes |-> IF n \in Dirty(s) THEN @[n] + 1 ELSE @[n]],
               !.dirty_nodes = << >>],
            timer)

(* _transaction_commit_dirty *)
CommitDirty(s, server_request, timer) ==
    IF s.dirty_nodes = << >> THEN s
    ELSE CommitPending(
            [s EXCEPT
               !.pending_transaction = AddNodes(s, @, server_request),
               !.ntxnrefs = [n \in Nodes |->
                   IF n \in Dirty(s) \ NodesOf(s.pending_transaction)
                   THEN @[n] + 1 ELSE @[n]],
               !.dirty_nodes = << >>],
            timer)

(* Mutants: an instruction is counted each time its view commits; a view   *)
(* that is ready thaws before the others.                                  *)
SetInstructionReadyAgain(s, n, timer) ==
    Progress([s EXCEPT !.queued_transaction.num_waiting =
                  IF s.queued_transaction.instructions[n].waiting /\ @ > 0
                  THEN @ - 1 ELSE @],
             timer)

SetInstructionReadyThawing(s, n, timer) ==
    LET waiting == s.queued_transaction.instructions[n].waiting
    IN  Progress([s EXCEPT
                    !.queued_transaction.num_waiting =
                        IF waiting /\ @ > 0 THEN @ - 1 ELSE @,
                    !.saved = @ \ ViewsOf(s, {n}),
                    !.instruction = @ \ {n}],
                 timer)

(* set_instruction_ready, for the instruction of node n *)
SetInstructionReady(s, n, timer) ==
    LET waiting == s.queued_transaction.instructions[n].waiting
    IN  Progress([s EXCEPT
                    !.queued_transaction.num_waiting =
                        IF waiting /\ @ > 0 THEN @ - 1 ELSE @,
                    !.instruction = @ \ {n}],
                 timer)

-----------------------------------------------------------------------------
(***************************************************************************)
(* The handlers.  Bound: a handler that commits for the server runs only   *)
(* while another configure event may be sent.                              *)
(***************************************************************************)
SerialsLeft == \A v \in Views : server.configures[v] < MaxSerial

(* What a handler may do to visibility: nothing, or show or hide one view. *)
Visibilities(s) == {s.visible} \cup {s.visible \cup {v} : v \in s.mapped}
                               \cup {s.visible \ {v} : v \in s.mapped}

LiveOthers == {o \in Others : server.life[o] = "live"}

OtherDestroying(s, o) == [NodeSetDirty(s, o) EXCEPT !.life[o] = "destroying"]

(***************************************************************************)
(* Any handler that arranges: a command, a key, a pointer drag.  It        *)
(* changes a node, may show or hide a view, and commits; one that changes  *)
(* several nodes first takes steps of RelayoutUncommitted.                 *)
(***************************************************************************)
Relayout(n, b) ==
    /\ SerialsLeft
    /\ n \in Live(server)
    /\ \E visible \in Visibilities(server), timer \in TimerOutcomes :
          server' = CommitDirty([Modify(server, n, b) EXCEPT !.visible = visible],
                                TRUE, timer)
    /\ UNCHANGED client

(***************************************************************************)
(* Handlers that leave the commit to a later one.  A lock screen or a      *)
(* popup takes the keyboard focus from a window, which gets dirty.  A      *)
(* client changes its size constraints: the columns are arranged, and one  *)
(* that no longer fits is merged into another and begins its destruction.  *)
(***************************************************************************)
MayLeaveDirty == Len(server.dirty_nodes) < MaxUncommitted

RelayoutUncommitted(n, b) ==
    /\ MayLeaveDirty
    /\ n \in Live(server)
    /\ server' = Modify(server, n, b)
    /\ UNCHANGED client

OtherBeginDestroyUncommitted(o) ==
    /\ MayLeaveDirty
    /\ o \in LiveOthers
    /\ server' = OtherDestroying(server, o)
    /\ UNCHANGED client

Drawn(s, v, w) == [f \in FloatingViews |-> IF f = v THEN w ELSE s.geometry[f]]

(***************************************************************************)
(* handle_map and view_map: the view gets a new container, even when the   *)
(* one of its previous mapping is still held by transactions.  o is the    *)
(* column or workspace the container is added to.                          *)
(***************************************************************************)
Created(s, v, c, b) ==
    [s EXCEPT !.life[c] = "live", !.view[c] = v, !.container[v] = c,
              !.mapped = @ \cup {v}, !.geometry = Drawn(s, v, b.w)]

Map(v, c, b, o) ==
    /\ SerialsLeft
    /\ v \notin server.mapped /\ server.vlife[v] = "live"
    /\ server.life[c] = "unborn"
    /\ o \in LiveOthers
    /\ \E visible \in {server.visible \cup {v}, server.visible \ {v}},
          timer \in TimerOutcomes :
          LET mapped == NodeSetDirty(Modify(Created(server, v, c, b), c, b), o)
          IN  server' = CommitDirty([mapped EXCEPT !.visible = visible], TRUE, timer)
    /\ UNCHANGED client

(***************************************************************************)
(* view_unmap, with container_begin_destroy: the container and its parent  *)
(* o are dirty, the container is destroying, and the commit may free it at *)
(* once.  The surface is forgotten after the commit.                       *)
(***************************************************************************)
(* Mutant: the container is destroying before it is made dirty. *)
ContainerBeginDestroyFirst(s, c) == NodeSetDirty([s EXCEPT !.life[c] = "destroying"], c)

ContainerBeginDestroy(s, c) == [NodeSetDirty(s, c) EXCEPT !.life[c] = "destroying"]

Unmap(v, o) ==
    /\ SerialsLeft
    /\ v \in server.mapped
    /\ o \in LiveOthers
    /\ \E timer \in TimerOutcomes :
          LET begun == ContainerBeginDestroy(server, server.container[v])
          IN  server' = [CommitDirty([NodeSetDirty(begun, o) EXCEPT !.visible = @ \ {v}],
                                     TRUE, timer)
                         EXCEPT !.mapped = @ \ {v}]
    /\ UNCHANGED client

(***************************************************************************)
(* handle_destroy and view_begin_destroy of an unmapped view: it is freed  *)
(* now unless a container still shows it.                                  *)
(***************************************************************************)
ViewBeginDestroy(v) ==
    /\ v \notin server.mapped
    /\ server.vlife[v] = "live"
    /\ server' = [server EXCEPT !.vlife[v] =
                     IF server.container[v] = NULL THEN "freed" ELSE "destroying"]
    /\ UNCHANGED client

(***************************************************************************)
(* workspace_begin_destroy or output_begin_destroy, and the commit at the  *)
(* end of the handler.                                                     *)
(***************************************************************************)
OtherBeginDestroy(o) ==
    /\ SerialsLeft
    /\ o \in LiveOthers
    /\ \E timer \in TimerOutcomes :
          server' = CommitDirty(OtherDestroying(server, o), TRUE, timer)
    /\ UNCHANGED client

(***************************************************************************)
(* handle_commit of xdg_shell.c and xwayland.c: the client commits a       *)
(* surface of width w, having acknowledged the configure event of serial   *)
(* k.  A floating container takes the size the client chose, in a          *)
(* transaction that is not the server's request; then the queued           *)
(* transaction learns that the view is ready, if this is what it waits for.*)
(* An xdg toplevel is told in one more configure event that its new size   *)
(* is the size it has.  Bound: it resizes itself while events are left.    *)
(***************************************************************************)
AdoptsSize(s, v, w) ==
    /\ v \in FloatingViews
    /\ \/ w # s.geometry[v]
       \/ v \notin XwaylandViews /\ s.pending[s.container[v]].w # w

ToplevelSetSize(s, v, w) ==
    /\ v \in FloatingViews \ XwaylandViews
    /\ w # s.geometry[v]
    /\ s.current[s.container[v]].w # 0

AdoptSize(s, v, w, timer) ==
    LET c == s.container[v]
        told == IF ToplevelSetSize(s, v, w)
                THEN [s EXCEPT !.configures[v] = @ + 1, !.configured[v].w = w]
                ELSE s
        resized == [told EXCEPT !.geometry = Drawn(s, v, w)]
    IN  IF AdoptsSize(s, v, w)
        THEN CommitDirty(Modify(resized, c, [s.pending[c] EXCEPT !.w = w]), FALSE, timer)
        ELSE resized

(* transaction_notify_view_ready_by_geometry and _by_serial *)
IsReady(s, v, k, w) ==
    LET instruction == s.queued_transaction.instructions[s.container[v]]
    IN  IF v \in XwaylandViews
        THEN /\ TruncX(instruction.state) = TruncX(s.configured[v])
             /\ instruction.state.w = w
        ELSE instruction.serial = k

ClientCommit(v, k, w) ==
    /\ v \in server.mapped
    /\ k \in client[v] .. server.configures[v]
    /\ ToplevelSetSize(server, v, w) => server.configures[v] + 1 < MaxSerial
    /\ \E timer \in TimerOutcomes :
          LET adopted == AdoptSize(server, v, w, timer)
              c == adopted.container[v]
          IN  server' = IF c \in adopted.instruction /\ IsReady(adopted, v, k, w)
                        THEN SetInstructionReady(adopted, c, timer)
                        ELSE adopted
    /\ client' = [client EXCEPT ![v] = k]

(***************************************************************************)
(* handle_request_configure of xwayland.c: a mapped X11 window asks for a  *)
(* box.  A floating one gets the box b sway makes of it at once, and is    *)
(* left dirty; any other is told the box it is current at.                 *)
(***************************************************************************)
Told(s, v, b) ==
    [s EXCEPT !.configures[v] = IF IsEvent(s, v, b) THEN @ + 1 ELSE @,
              !.configured[v] = b]

FloatingRequest(v, b) ==
    /\ MayLeaveDirty
    /\ v \in server.mapped \cap XwaylandViews \cap FloatingViews
    /\ server.configures[v] < MaxSerial
    /\ server' = Modify(Told(server, v, b), server.container[v], b)
    /\ UNCHANGED client

TiledRequest(v) ==
    /\ v \in (server.mapped \cap XwaylandViews) \ FloatingViews
    /\ server.configures[v] < MaxSerial
    /\ server' = Told(server, v, server.current[server.container[v]])
    /\ UNCHANGED client

(* handle_timeout: the timer is armed while the queued transaction waits. *)
Timeout ==
    /\ server.queued_transaction.num_waiting > 0
    /\ \E timer \in TimerOutcomes :
          server' = Progress([server EXCEPT !.queued_transaction.num_waiting = 0], timer)
    /\ UNCHANGED client

-----------------------------------------------------------------------------
Next ==
    \/ \E n \in Nodes, b \in Boxes : Relayout(n, b)
    \/ \E n \in Nodes, b \in Boxes : RelayoutUncommitted(n, b)
    \/ \E o \in Others : OtherBeginDestroyUncommitted(o)
    \/ \E v \in Views, c \in Containers, b \in Boxes, o \in Others : Map(v, c, b, o)
    \/ \E v \in Views, o \in Others : Unmap(v, o)
    \/ \E v \in Views : ViewBeginDestroy(v)
    \/ \E o \in Others : OtherBeginDestroy(o)
    \/ \E v \in Views, k \in 1 .. MaxSerial, w \in Widths : ClientCommit(v, k, w)
    \/ \E v \in Views, b \in Boxes : FloatingRequest(v, b)
    \/ \E v \in Views : TiledRequest(v)
    \/ Timeout

Spec == Init /\ [][Next]_vars

(***************************************************************************)
(* The only fairness the compositor can rely on is its own timer: clients  *)
(* may never answer.  This is WF_vars(Timeout) with ENABLED written out.   *)
(***************************************************************************)
TimerFairness ==
    []<>(server.queued_transaction.num_waiting = 0) \/ []<><<Timeout>>_vars

FairSpec == Spec /\ TimerFairness

-----------------------------------------------------------------------------
(* Safety. *)

Queued == NodesOf(server.queued_transaction)
Pending == NodesOf(server.pending_transaction)

(***************************************************************************)
(* ntxnrefs counts the transactions that hold a node, transaction_add_node *)
(* and transaction_destroy having to agree: it decides when memory is      *)
(* released.  A commit is pending only behind a queued transaction.        *)
(***************************************************************************)
RefCounts ==
    /\ \A n \in Nodes : server.ntxnrefs[n] =
           (IF n \in Queued THEN 1 ELSE 0) + (IF n \in Pending THEN 1 ELSE 0)
    /\ Pending # {} => Queued # {}

(***************************************************************************)
(* Nothing that the next handler or transaction will look at has been      *)
(* freed: dirty nodes, nodes of transactions, the instruction a late       *)
(* surface commit finds, and the container of a mapped view.               *)
(***************************************************************************)
NoUseAfterFree ==
    /\ \A n \in Dirty(server) \cup Queued \cup Pending :
           server.life[n] \in {"live", "destroying"}
    /\ server.instruction \subseteq Queued
    /\ \A v \in server.mapped :
           /\ server.container[v] \in Live(server)
           /\ server.view[server.container[v]] = v

(***************************************************************************)
(* A node being destroyed is on its way to be freed: transaction_destroy   *)
(* skips it only when a later transaction will come across it.             *)
(***************************************************************************)
NothingLeaks ==
    \A n \in Nodes : Destroying(server, n) => n \in Dirty(server) \cup Queued \cup Pending

(***************************************************************************)
(* The queued transaction waits for exactly the views that have been asked *)
(* and have not answered: set_instruction_ready counts each answer once,   *)
(* and a transaction that waits for nobody does not stay queued.           *)
(***************************************************************************)
WaitsForTheSilent ==
    LET q == server.queued_transaction
    IN  Queued # {} =>
            /\ q.num_waiting > 0
            /\ q.num_waiting = Cardinality({n \in Queued :
                   q.instructions[n].waiting /\ n \in server.instruction})

(***************************************************************************)
(* A view that is awaited shows its frozen frame, so that no new buffer of *)
(* it is seen in the old layout; and a view is frozen only while a         *)
(* transaction that will thaw it is queued.                                *)
(***************************************************************************)
FrozenWhileAwaited ==
    /\ \A c \in Queued : server.queued_transaction.instructions[c].waiting
                            => server.view[c] \in server.saved
    /\ server.saved \subseteq ViewsOf(server, Queued)

(***************************************************************************)
(* A view outlives its containers, which point to it: when it is mapped    *)
(* again its old container may wait in transactions for a long time.  In   *)
(* the order in which transaction_destroy walks the instructions of the    *)
(* queued and then of the pending transaction, the container that frees a  *)
(* view comes after every other container of the view.                     *)
(***************************************************************************)
DestroyedBefore(c, d) ==
    \/ c \in Queued /\ d \notin Queued
    \/ /\ {c, d} \subseteq Queued
       /\ server.queued_transaction.instructions[c].index
            < server.queued_transaction.instructions[d].index
    \/ /\ {c, d} \subseteq Pending \ Queued
       /\ server.pending_transaction.instructions[c].index
            < server.pending_transaction.instructions[d].index

ViewFreedLast ==
    [][\A v \in Views : server.vlife[v] = "destroying" /\ server'.vlife[v] = "freed" =>
          \A c \in Containers :
              /\ server.view[c] = v /\ c # server.container[v]
              /\ server.life[c] = "destroying"
              => DestroyedBefore(c, server.container[v])]_vars

(***************************************************************************)
(* A frame frozen on screen is never traded for one copied from a surface  *)
(* that is gone: of the two transactions that may hold the container of a  *)
(* closing window, the first leaves the frame to the second.  (A window    *)
(* mapped again may lose its frame when its old container goes.)           *)
(***************************************************************************)
ClosingFrameKept ==
    [][\A v \in server.saved \ server.blank :
          v \in server'.blank =>
              Cardinality({c \in Containers : server.view[c] = v}) > 1]_vars

(***************************************************************************)
(* The transactions implement AtomicLayout: the layout in flight is the    *)
(* current one overwritten by the queued transaction, the committed one is *)
(* that overwritten by the pending transaction.                            *)
(***************************************************************************)
Overwrite(layout, t) ==
    [n \in Nodes |-> IF n \in NodesOf(t) THEN t.instructions[n].state ELSE layout[n]]

InFlight == Overwrite(server.current, server.queued_transaction)

Atomic == INSTANCE AtomicLayout WITH
    States <- NodeState,
    shown <- server.current,
    inflight <- InFlight,
    committed <- Overwrite(InFlight, server.pending_transaction)

AtomicUpdates == Atomic!Spec

(***************************************************************************)
(* Merging into a pending transaction keeps what is newest: what has been  *)
(* committed of a node that is not dirty is its pending state.             *)
(***************************************************************************)
CommittedIsLatest ==
    \A c \in Containers \ Dirty(server) :
        Overwrite(InFlight, server.pending_transaction)[c] = server.pending[c]

-----------------------------------------------------------------------------
(* Liveness, under the fairness of the timer alone. *)

(***************************************************************************)
(* Whatever the clients do, every commit is shown: once handlers stop      *)
(* committing nothing stays queued, and no window stays frozen on its last *)
(* frame.                                                                  *)
(***************************************************************************)
EveryCommitIsShown ==
    /\ []<>(Queued = {})
    /\ \A v \in Views : v \in server.saved ~> v \notin server.saved

(***************************************************************************)
(* A node whose destruction has been committed is freed, and so is a       *)
(* destroyed view.                                                         *)
(***************************************************************************)
EveryDestructionEnds ==
    /\ \A n \in Nodes : Destroying(server, n) /\ n \notin Dirty(server)
                            ~> server.life[n] = "freed"
    /\ \A v \in Views : server.vlife[v] = "destroying" ~> server.vlife[v] = "freed"

(***************************************************************************)
(* Clients that draw at every size they are told, and at no other, and     *)
(* that stay, and handlers that commit what they change: then no           *)
(* transaction has to wait for the timer.  An X11 window answers only what *)
(* changes its geometry.                                                   *)
(***************************************************************************)
Answer(v) ==
    /\ client[v] < server.configures[v]
    /\ ClientCommit(v, server.configures[v], server.configured[v].w)

Redraw(v) == \E w \in Widths :
    /\ v \in FloatingViews => w = server.geometry[v]
    /\ ClientCommit(v, client[v], w)

NextResponsive ==
    \/ \E n \in Nodes, b \in Boxes : Relayout(n, b)
    \/ \E v \in Views, c \in Containers, b \in Boxes, o \in Others : Map(v, c, b, o)
    \/ \E o \in Others : OtherBeginDestroy(o)
    \/ \E v \in Views : Answer(v) \/ Redraw(v)

Answers(v) == []<>(v \in server.mapped => client[v] = server.configures[v])

ResponsiveSpec == Init /\ [][NextResponsive]_vars /\ \A v \in Views : Answers(v)

(* Without a single timeout, every commit is shown. *)
NoTimeoutNeeded == []<>(Queued = {})

=============================================================================
