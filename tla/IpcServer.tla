----------------------------- MODULE IpcServer -----------------------------
(***************************************************************************)
(* The IPC socket of the compositor (sway/ipc-server.c) with its clients.  *)
(*                                                                         *)
(* A stream is a sequence of units.  A command is two units of header, the *)
(* magic and the type, and a body of one unit if its type has one; the     *)
(* client may stop between any two.  A message to the client is two units  *)
(* as well.  A message is first put in the write buffer of the client and  *)
(* moved to the socket when that is writable, as much as fits.             *)
(*                                                                         *)
(* The server is one thread: one callback of its event loop is one step,   *)
(* except for "exit", which runs the event loop again to flush the events  *)
(* it has sent (sway_terminate), and so lets other callbacks run before it *)
(* is answered.                                                            *)
(***************************************************************************)
EXTENDS Integers, FiniteSets, SequencesExt

CONSTANTS Clients,
          NIL,
          Sends,            \* the commands each client sends, a set of types
          Subscribes,       \* the sets of events it may ask for
          Quitters,         \* the clients that may leave by themselves
          Capacity,         \* units that fit in the socket
          InitialSize,      \* of the write buffer, in units
          MaxSize,          \* a client whose buffer outgrows this is removed
          MaxCommands,      \* bound: commands of all clients
          MaxNews           \* bound: events that no client caused

Events == {"workspace", "tick", "shutdown"}
WithBody == {"run", "tick", "subscribe", "exit"}
Queries == {"query"}
Known == WithBody \union Queries
Unknown == {"unknown"}
Types == Known \union Unknown

ASSUME IpcAssumption ==
    /\ Sends \in [Clients -> SUBSET (Types \union {"garbage"})]
    /\ Subscribes \in [Clients -> SUBSET SUBSET Events]
    /\ Quitters \subseteq Clients
    /\ NIL \notin Types \union Clients
    /\ {Capacity, InitialSize, MaxSize} \subseteq Nat \ {0} /\ InitialSize <= MaxSize
    /\ {MaxCommands, MaxNews} \subseteq Nat

VARIABLE s

(* A message is sent as its header, with the type, and its payload, which  *)
(* stands for the whole.                                                   *)
Units == Types \union {"magic", "garbage", "body"}
Messages == ({"reply"} \X Known) \union ({"event"} \X Events)
Pieces(m) == <<<<"header", m[2]>>, m>>
Size == 2
Buffered == Messages \union ({"header"} \X (Known \union Events))

(* A client is "new" until accepted and "gone" once the server removed it; *)
(* quit is the set of those that closed their end.  In phase "exit" the    *)
(* command of exiting waits for the callbacks in batch.                    *)
States ==
    [ conn    : [Clients -> {"new", "open", "gone"}],
      quit    : SUBSET Clients,
      todo    : [Clients -> Seq(Units)],      \* still to be written
      inbox   : [Clients -> Seq(Units)],      \* written and not read
      wire    : [Clients -> Seq(Buffered)],   \* in the socket of the client
      list    : Seq(Clients),                 \* ipc_client_list
      pending : [Clients -> Types \union {NIL}],
      subs    : [Clients -> SUBSET Events],
      out     : [Clients -> Seq(Buffered)],   \* write_buffer
      size    : [Clients -> Nat],
      phase   : {"run", "exit", "stop", "down"},
      exiting : Clients \union {NIL},
      batch   : SUBSET (Clients \X {"in", "out"}),
      sent    : 0..MaxCommands,
      news    : 0..MaxNews,
      crash   : BOOLEAN ]

Each(x) == [c \in Clients |-> x]
Init == s = [ conn |-> Each("new"), quit |-> {}, todo |-> Each(<<>>), inbox |-> Each(<<>>),
              wire |-> Each(<<>>), list |-> <<>>, pending |-> Each(NIL), subs |-> Each({}),
              out |-> Each(<<>>), size |-> Each(0), phase |-> "run", exiting |-> NIL,
              batch |-> {}, sent |-> 0, news |-> 0, crash |-> FALSE ]

Becomes(t) == ~s.crash /\ s' = t
BecomesOneOf(T) == ~s.crash /\ s' \in T
Listening == s.phase = "run"

-----------------------------------------------------------------------------
(* The server.                                                             *)

(* ipc_client_disconnect: the record is freed with its buffer, and what    *)
(* was not read is lost.  The client still reads what is on the wire.      *)
Disconnect(t, c) ==
    [t EXCEPT !.conn[c] = "gone", !.list = RemoveAt(@, CHOOSE i \in DOMAIN @ : @[i] = c),
              !.out[c] = <<>>, !.size[c] = 0, !.pending[c] = NIL, !.subs[c] = {},
              !.todo[c] = <<>>, !.inbox[c] = <<>>,
              !.batch = {b \in @ : b[1] # c}]

(* f applied n times to x.                                                 *)
Repeated(f, x, n) ==
    LET after[i \in 0..n] == IF i = 0 THEN x ELSE f[after[i - 1]] IN after[n]

(* ipc_send_reply, for replies and events: the buffer is doubled until     *)
(* the message fits with room to spare.  The caller may have a client that *)
(* is freed already: what happens then is not modelled.                    *)
Doubled(size, need) ==
    IF need < size THEN size
    ELSE Repeated([n \in Nat |-> IF need >= n THEN 2 * n ELSE n], size, need - size + 1)

SendReply(t, c, m) ==
    IF t.conn[c] # "open" THEN [t EXCEPT !.crash = TRUE]
    ELSE LET size == Doubled(t.size[c], Len(t.out[c]) + Size)
         IN IF size > MaxSize THEN Disconnect(t, c)
            ELSE [t EXCEPT !.size[c] = size, !.out[c] = @ \o Pieces(m)]

Reply(t, c, k) == SendReply(t, c, <<"reply", k>>)

(* ipc_send_event: the list is walked by index; when a client was removed  *)
(* its index is the next one's.                                            *)
Walks == [at : Nat \ {0}, server : States]

(* Mutant: the index moves on although the client is no longer there.      *)
VisitedSkipping(w, e) ==
    LET c == w.server.list[w.at]
    IN IF w.at > Len(w.server.list) THEN w
       ELSE [at |-> w.at + 1,
             server |-> IF e \in w.server.subs[c]
                        THEN SendReply(w.server, c, <<"event", e>>) ELSE w.server]

Visited(w, e) ==
    LET c == w.server.list[w.at]
        told == SendReply(w.server, c, <<"event", e>>)
    IN IF w.at > Len(w.server.list) THEN w
       ELSE IF e \notin w.server.subs[c] THEN [w EXCEPT !.at = @ + 1]
       ELSE [at |-> IF told.conn[c] = "gone" THEN w.at ELSE w.at + 1, server |-> told]

(* ipc_has_event_listeners *)
HasEventListeners(t, e) == \E c \in ToSet(t.list) : e \in t.subs[c]

SendEvent(t, e) ==
    IF ~ HasEventListeners(t, e) THEN t
    ELSE Repeated([w \in Walks |-> Visited(w, e)],
                  [at |-> 1, server |-> t], Len(t.list)).server

(* ipc_handle_connection. *)
Connect(c) ==
    /\ Listening /\ s.conn[c] = "new"
    /\ Becomes([s EXCEPT !.conn[c] = "open", !.list = Append(@, c), !.size[c] = InitialSize])

(* sway_terminate: listeners are told, and the event loop is run once over *)
(* what is ready: input, and the write buffers of sockets with room.  The  *)
(* display is destroyed when the callback that asked for it is done.       *)
Ready(t) == {b \in Clients \X {"in", "out"} :
               /\ t.conn[b[1]] = "open"
               /\ \/ b[1] \in t.quit
                  \/ b[2] = "in" /\ t.inbox[b[1]] # <<>>
                  \/ b[2] = "out" /\ t.out[b[1]] # <<>> /\ Len(t.wire[b[1]]) < Capacity
               /\ b[2] = "out" => t.out[b[1]] # <<>>}

Terminate(t, c) ==
    LET u == SendEvent(t, "shutdown")
    IN [u EXCEPT !.phase = "exit", !.exiting = c, !.batch = Ready(u)]

(* ipc_client_handle_command.  A subscription may have an event nobody     *)
(* knows in its list, which ends it there, or be no list at all.           *)
Subscribe(t, c, E, ok) ==
    LET u == Reply([t EXCEPT !.subs[c] = @ \union E], c, "subscribe")
    IN IF ok /\ "tick" \in E THEN SendReply(u, c, <<"event", "tick">>) ELSE u

HandleCommand(t, c, k) ==
    CASE k = "run" -> {Reply(t, c, k), Reply(SendEvent(t, "workspace"), c, k)}
      [] k = "tick" -> {Reply(SendEvent(t, "tick"), c, k)}
      [] k = "subscribe" -> {Subscribe(t, c, E, ok) : E \in Subscribes[c], ok \in BOOLEAN}
      [] k = "exit" -> {Terminate(t, c)}
      [] k \in Queries -> {Reply(t, c, k)}
      [] k \in Unknown -> {t}

(* ipc_client_handle_readable: one header, and the command if its body is  *)
(* there as well; else the body is awaited.                                *)
Payload(t, c) ==
    IF t.inbox[c] = <<>> THEN {t}
    ELSE HandleCommand([t EXCEPT !.inbox[c] = Tail(@), !.pending[c] = NIL], c, t.pending[c])

Header(t, c) ==
    LET in == t.inbox[c]
        u == [t EXCEPT !.inbox[c] = SubSeq(@, 3, Len(@)), !.pending[c] = in[2]]
    IN IF Len(in) < 2 THEN {t}
       ELSE IF in[1] # "magic" THEN {Disconnect(t, c)}
       ELSE IF in[2] \in WithBody THEN IF Len(in) = 2 THEN {u} ELSE Payload(u, c)
       ELSE HandleCommand([u EXCEPT !.pending[c] = NIL], c, in[2])

HandleReadable(t, c) ==
    IF c \in t.quit THEN {Disconnect(t, c)}
    ELSE IF t.pending[c] # NIL THEN Payload(t, c) ELSE Header(t, c)

(* Mutant: a short write is taken for a whole one.                         *)
HandleWritableShort(t, c) ==
    IF c \in t.quit THEN {Disconnect(t, c)}
    ELSE {[t EXCEPT !.wire[c] = @ \o SubSeq(t.out[c], 1, Capacity - Len(@)), !.out[c] = <<>>]}

(* Mutant: nothing is written until all of it has room.                    *)
HandleWritableWhole(t, c) ==
    IF c \in t.quit THEN {Disconnect(t, c)}
    ELSE IF Len(t.wire[c]) + Len(t.out[c]) > Capacity THEN {t}
    ELSE {[t EXCEPT !.wire[c] = @ \o t.out[c], !.out[c] = <<>>]}

(* ipc_client_handle_writable: the kernel takes what it has room for.      *)
HandleWritable(t, c) ==
    LET room == Capacity - Len(t.wire[c])
    IN IF c \in t.quit THEN {Disconnect(t, c)}
       ELSE IF room = 0 \/ t.out[c] = <<>> THEN {t}
       ELSE LET n == IF room < Len(t.out[c]) THEN room ELSE Len(t.out[c])
            IN {[t EXCEPT !.wire[c] = @ \o SubSeq(t.out[c], 1, n),
                          !.out[c] = SubSeq(@, n + 1, Len(@))]}

Readable(c) ==
    /\ Listening /\ s.conn[c] = "open"
    /\ s.inbox[c] # <<>> \/ c \in s.quit
    /\ BecomesOneOf(HandleReadable(s, c))

Writable(c) ==
    /\ Listening /\ s.conn[c] = "open" /\ s.out[c] # <<>>
    /\ BecomesOneOf(HandleWritable(s, c))

(* The events of the compositor's own making (ipc_event_workspace, ...).   *)
Event(e) ==
    /\ Listening /\ s.news < MaxNews
    /\ Becomes(SendEvent([s EXCEPT !.news = @ + 1], e))

(* SIGTERM and SIGINT. *)
TermSignal ==
    /\ Listening /\ s.news < MaxNews
    /\ Becomes(Terminate([s EXCEPT !.news = @ + 1], NIL))

(* The callbacks that run while sway_terminate flushes; the command of the *)
(* exiting client is answered after them.                                  *)
Nested(b) ==
    /\ s.phase = "exit" /\ b \in s.batch
    /\ LET t == [s EXCEPT !.batch = @ \ {b}]
       IN BecomesOneOf(IF b[2] = "in" THEN HandleReadable(t, b[1]) ELSE HandleWritable(t, b[1]))

ExitDone ==
    /\ s.phase = "exit" /\ s.batch = {}
    /\ LET t == [s EXCEPT !.phase = "stop", !.exiting = NIL]
       IN Becomes(IF s.exiting = NIL THEN t ELSE Reply(t, s.exiting, "exit"))

(* handle_display_destroy: the clients are removed from the last one on.   *)
LastRemoved(t) == IF t.list = <<>> THEN t ELSE Disconnect(t, Last(t.list))

Shutdown ==
    /\ s.phase = "stop"
    /\ Becomes(Repeated([t \in States |-> LastRemoved(t)],
                        [s EXCEPT !.phase = "down"], Len(s.list)))

-----------------------------------------------------------------------------
(* The clients.                                                            *)

Command(k) == IF k = "garbage" THEN <<"garbage", "query">>
              ELSE <<"magic", k>> \o IF k \in WithBody THEN <<"body">> ELSE <<>>

Live(c) == s.conn[c] = "open" /\ c \notin s.quit

(* Some client exits, and only one: the event loops are nested no deeper.  *)
Start(c, k) ==
    /\ Live(c) /\ s.todo[c] = <<>> /\ s.sent < MaxCommands
    /\ k = "exit" => s.phase = "run" /\ \A d \in Clients :
                       ~ Contains(s.inbox[d], "exit") /\ s.pending[d] # "exit"
                         /\ ~ Contains(s.todo[d], "exit")
    /\ Becomes([s EXCEPT !.todo[c] = Tail(Command(k)), !.inbox[c] = Append(@, Head(Command(k))),
                         !.sent = @ + 1])

Push(c) ==
    /\ Live(c) /\ s.todo[c] # <<>>
    /\ Becomes([s EXCEPT !.todo[c] = Tail(@), !.inbox[c] = Append(@, Head(s.todo[c]))])

ClientRead(c) ==
    /\ s.wire[c] # <<>> /\ c \notin s.quit
    /\ Becomes([s EXCEPT !.wire[c] = Tail(@)])

(* A client goes without a word, also in the middle of a command.          *)
Quit(c) ==
    /\ Live(c) /\ c \in Quitters
    /\ Becomes([s EXCEPT !.quit = @ \union {c}, !.wire[c] = <<>>, !.todo[c] = <<>>])

Next ==
    \/ \E c \in Clients : \/ Connect(c) \/ Readable(c) \/ Writable(c)
                          \/ Push(c) \/ ClientRead(c) \/ Quit(c)
                          \/ \E k \in Sends[c] : Start(c, k)
    \/ \E e \in Events \ {"tick", "shutdown"} : Event(e)
    \/ TermSignal
    \/ \E b \in s.batch : Nested(b)
    \/ ExitDone
    \/ Shutdown

Spec == Init /\ [][Next]_s

(* The event loop serves every source that is ready, and a client that has *)
(* not quit ends the command it began and reads what it is sent.           *)
FairSpec ==
    /\ Spec
    /\ WF_s(ExitDone) /\ WF_s(Shutdown)
    /\ WF_s(\E b \in s.batch : Nested(b))
    /\ \A c \in Clients : /\ WF_s(Readable(c)) /\ WF_s(Writable(c))
                          /\ WF_s(Push(c)) /\ WF_s(ClientRead(c))

-----------------------------------------------------------------------------
(* Types, and what the code keeps of its buffers: a client has a record    *)
(* exactly while it is in the list, and its buffer is never full.          *)
TypeOK ==
    /\ s \in States
    /\ ToSet(s.list) = {c \in Clients : s.conn[c] = "open"} /\ IsInjective(s.list)
    /\ \A c \in ToSet(s.list) : Len(s.out[c]) < s.size[c] /\ s.size[c] <= MaxSize

(* The elements of q that are in S, in their order.                        *)
Chosen(q, S) ==
    LET among[n \in 0..Len(q)] ==
          IF n = 0 THEN <<>>
          ELSE IF q[n] \in S THEN Append(among[n - 1], q[n]) ELSE among[n - 1]
    IN among[Len(q)]

(* The commands of a client not yet handled, and the messages it has not   *)
(* yet received: one is received with its payload.                         *)
Heard(t, c) == (IF t.pending[c] # NIL THEN <<t.pending[c]>> ELSE <<>>) \o t.inbox[c]
Asked == [c \in Clients |->
    IF s.conn[c] # "open" \/ c \in s.quit THEN <<>>
    ELSE (IF s.exiting = c THEN <<"exit">> ELSE <<>>) \o Chosen(Heard(s, c), Types)]
Told == [c \in Clients |->
    IF s.conn[c] # "open" \/ c \in s.quit THEN <<>>
    ELSE Chosen(s.wire[c] \o s.out[c], Messages)]
Conn == [c \in Clients |-> IF c \in s.quit THEN "gone" ELSE s.conn[c]]

(* Commands arrive in pieces and replies leave in pieces, between events   *)
(* (ipc_client_handle_readable, ipc_client_handle_writable): still every   *)
(* command is answered once and in order, and no message is cut or         *)
(* repeated.                                                               *)
Service == INSTANCE IpcService WITH conn <- Conn, asked <- Asked, told <- Told
ServesInOrder == Service!Spec /\ []TypeOK

(* An event reaches every listener and nobody else, also when sending it   *)
(* removes clients from the list that is being walked (ipc_send_event).    *)
EveryListenerTold ==
    [][ s'.news # s.news => \A e \in Events : Event(e) =>
          \A c \in ToSet(s.list) : s'.conn[c] = "open" =>
              s'.out[c] = s.out[c] \o (IF e \in s.subs[c] THEN Pieces(<<"event", e>>) ELSE <<>>) ]_s

(* A command that a client has sent is answered and the answer received,   *)
(* whatever the others do, unless the client is removed or the server      *)
(* stops (or uses a client it has freed).                                  *)
EveryCommandAnswered ==
    \A c \in Clients : Asked[c] # <<>> ~>
        s.crash \/ Conn[c] = "gone" \/ Asked[c] \o Told[c] = <<>>
=============================================================================
