----------------------------- MODULE IpcService -----------------------------
(***************************************************************************)
(* What a client of the IPC socket may rely on: a command of a known type  *)
(* gets one reply, the replies come in the order of the commands, events   *)
(* come between them whole, and the server may hang up at any time.  The   *)
(* one command that may be overtaken by the ones after it is "exit".       *)
(***************************************************************************)
EXTENDS Naturals, Sequences, FiniteSets

CONSTANTS Clients,
          Known,        \* the types of commands that get a reply
          Unknown,      \* those that do not
          Events

VARIABLES conn,         \* per client: "new", "open" or "gone"
          asked,        \* the commands sent and not yet handled
          told          \* the messages sent and not yet received
vars == <<conn, asked, told>>

Commands == Known \union Unknown

Init == /\ conn = [c \in Clients |-> "new"]
        /\ asked = [c \in Clients |-> <<>>]
        /\ told = [c \in Clients |-> <<>>]

Connect(c) == /\ conn[c] = "new"
              /\ conn' = [conn EXCEPT ![c] = "open"]
              /\ UNCHANGED <<asked, told>>

Ask(c, k) == /\ conn[c] = "open"
             /\ asked' = [asked EXCEPT ![c] = Append(@, k)]
             /\ UNCHANGED <<conn, told>>

Receive(c) == /\ told[c] # <<>>
              /\ told' = [told EXCEPT ![c] = Tail(@)]
              /\ UNCHANGED <<conn, asked>>

(* What the server does to one client in a step of its own.                *)
News == {<<>>} \union {<<<<"event", e>>>> : e \in Events}

Unserved(c) == conn'[c] = conn[c] /\ asked'[c] = asked[c] /\ told'[c] = told[c]

Noticed(c) == /\ conn'[c] = "open" /\ asked'[c] = asked[c]
              /\ \E n \in News : told'[c] = told[c] \o n

Dropped(c) == conn'[c] = "gone" /\ asked'[c] = <<>> /\ told'[c] = <<>>

Answer(k) == IF k \in Known THEN <<<<"reply", k>>>> ELSE <<>>

Answered(c) ==
    /\ conn'[c] = "open"
    /\ \E i \in DOMAIN asked[c], before, after \in News :
          /\ \A j \in 1..(i - 1) : asked[c][j] = "exit"
          /\ asked'[c] = SubSeq(asked[c], 1, i - 1)
                           \o SubSeq(asked[c], i + 1, Len(asked[c]))
          /\ told'[c] = told[c] \o before \o Answer(asked[c][i]) \o after

(* One step of the server handles at most one command.                     *)
Serve ==
    /\ DOMAIN conn' = Clients /\ DOMAIN asked' = Clients /\ DOMAIN told' = Clients
    /\ \E served \in SUBSET Clients :
          /\ Cardinality(served) <= 1
          /\ \A c \in Clients :
                IF conn[c] # "open" THEN Unserved(c)
                ELSE Dropped(c) \/ IF c \in served THEN Answered(c) ELSE Noticed(c)

Next == \/ \E c \in Clients : Connect(c) \/ Receive(c) \/ \E k \in Commands : Ask(c, k)
        \/ Serve

Spec == Init /\ [][Next]_vars
=============================================================================
