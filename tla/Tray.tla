-------------------------------- MODULE Tray --------------------------------
(***************************************************************************)
(* The tray of swaybar (swaybar/tray: tray.c, watcher.c, host.c): programs *)
(* register their icons with a watcher on the session bus; the bar is a    *)
(* host, which mirrors the list of the watcher, and becomes the watcher    *)
(* itself when nobody else is.                                             *)
(*                                                                         *)
(* Everything is a message: those to the bar form one queue, in the order  *)
(* of the bus, and the bar talks to its own watcher through the bus too.   *)
(***************************************************************************)
EXTENDS Integers, Sequences, SequencesExt, FiniteSets

CONSTANTS Apps, Paths,
          NamePrefixes,         \* pairs of apps: the name of the first begins that of the second
          MaxInbox, MaxMoves

TrayAssumption == NamePrefixes \subseteq Apps \X Apps /\ MaxInbox \in Nat /\ MaxMoves \in Nat

VARIABLE s

Ids == [app : Apps, path : Paths]
Owner == {"nobody", "bar", "other"}

States ==
    [ inbox   : Seq([type : {"lost app"}, app : Apps] \union
                    [type : {"lost watcher", "new watcher", "get", "error"}] \union
                    [type : {"register", "registered", "unregistered"}, id : Ids] \union
                    [type : {"list"}, ids : Seq(Ids)]),
      up      : SUBSET Apps,
      owner   : Owner,                 \* of the name of the watcher
      moves   : 0..MaxMoves,           \* times it has changed hands
      watched : Seq(Ids),              \* the bar's watcher->items, <<>> without one
      known   : SUBSET Ids,            \* history: what has been registered with it
      others  : Seq(Ids),              \* the same of another process
      asked   : BOOLEAN,               \* another watcher owes a list
      tray    : {"none", "matching", "ready"},
      items   : Seq(Ids) ]             \* tray->items

Init ==
    \E o \in {"nobody", "other"} :
      s = [ inbox |-> <<>>, up |-> Apps, owner |-> o, moves |-> 0, watched |-> <<>>, known |-> {},
            others |-> <<>>, asked |-> FALSE, tray |-> "none", items |-> <<>> ]

Sent(t, m) == [t EXCEPT !.inbox = Append(@, m)]
(* A signal of the watcher reaches the bar if it has asked for it.         *)
Signal(t, type, id) == IF t.tray = "none" THEN t ELSE Sent(t, [type |-> type, id |-> id])
Without(q, x) == SelectSeq(q, LAMBDA y : y # x)
Has(q, x) == x \in Range(q)

(* register_to_watcher: the list is asked of whoever owns the name.        *)
RegisterToWatcher(t) ==
    CASE t.owner = "bar" -> Sent(t, [type |-> "get"])
      [] t.owner = "other" -> [t EXCEPT !.asked = TRUE]
      [] OTHER -> Sent(t, [type |-> "error"])

(* create_watcher: it fails if somebody has the name.                      *)
CreateWatcher(t) ==
    IF t.owner # "nobody" THEN t
    ELSE LET u == [t EXCEPT !.owner = "bar", !.watched = <<>>]
         IN IF t.tray = "none" THEN u ELSE Sent(u, [type |-> "new watcher"])

(* Mutant: an icon is added again when the list crosses its signal.        *)
AddSniTwice(t, id) == [t EXCEPT !.items = Append(@, id)]
AddSni(t, id) == IF Has(t.items, id) THEN t ELSE [t EXCEPT !.items = Append(@, id)]
RECURSIVE AddSnis(_, _)
AddSnis(t, ids) == IF ids = <<>> THEN t ELSE AddSnis(AddSni(t, Head(ids)), Tail(ids))

(* register_sni and handle_lost_service of the bar's own watcher; the ids  *)
(* of a service are found by their first letters.                          *)
RegisterSni(t, id) ==
    IF Has(t.watched, id) THEN t
    ELSE Signal([t EXCEPT !.watched = Append(@, id), !.known = @ \union {id}], "registered", id)

Matches(id, a) == id.app = a \/ <<a, id.app>> \in NamePrefixes
RECURSIVE LostService(_, _)
LostService(t, a) ==
    LET K == {k \in DOMAIN t.watched : Matches(t.watched[k], a)}
        first == CHOOSE k \in K : \A l \in K : k <= l
    IN IF K = {} THEN t
       ELSE LostService(Signal([t EXCEPT !.watched = RemoveAt(@, first)], "unregistered", t.watched[first]), a)

-----------------------------------------------------------------------------
(* create_tray: a watcher, then the host: first it listens to the signals, *)
(* by calls that wait for the bus, then it asks for the list.              *)
CreateTray ==
    /\ s.tray = "none"
    /\ s' = [CreateWatcher(s) EXCEPT !.tray = "matching"]
InitHost ==
    /\ s.tray = "matching"
    /\ s' = [RegisterToWatcher(s) EXCEPT !.tray = "ready"]

(* tray_in: sd_bus_process hands one message to its handlers.              *)
Handled(t, m) ==
    CASE m.type = "lost watcher" -> CreateWatcher(t)
      [] m.type = "new watcher"  -> RegisterToWatcher(t)
      [] m.type = "lost app"     -> IF t.owner = "bar" THEN LostService(t, m.app) ELSE t
      [] m.type = "register"     -> RegisterSni(t, m.id)
      [] m.type = "get"          -> Sent(t, [type |-> "list", ids |-> t.watched])
      [] m.type = "list"         -> AddSnis(t, m.ids)
      [] m.type = "registered"   -> AddSni(t, m.id)
      [] m.type = "unregistered" -> [t EXCEPT !.items = Without(@, m.id)]
      [] m.type = "error"        -> t

Process ==
    /\ s.tray = "ready" /\ s.inbox # <<>>
    /\ s' = Handled([s EXCEPT !.inbox = Tail(@)], Head(s.inbox))

(* Another process: a watcher that does the same, and programs.            *)
Room == Len(s.inbox) < MaxInbox

Register(a, p) ==
    /\ Room /\ a \in s.up /\ s.owner # "nobody"
    /\ LET id == [app |-> a, path |-> p]
       IN s' = IF s.owner = "bar" THEN Sent(s, [type |-> "register", id |-> id])
               ELSE IF Has(s.others, id) THEN s
               ELSE Signal([s EXCEPT !.others = Append(@, id)], "registered", id)
Quit(a) ==
    /\ Room /\ a \in s.up
    /\ s' = [IF s.tray = "none" THEN s ELSE Sent(s, [type |-> "lost app", app |-> a]) EXCEPT !.up = @ \ {a}]

OtherNotices(id) ==
    /\ Room /\ s.owner = "other" /\ Has(s.others, id) /\ id.app \notin s.up
    /\ s' = Signal([s EXCEPT !.others = Without(@, id)], "unregistered", id)
OtherReplies ==
    /\ s.owner = "other" /\ s.asked
    /\ s' = Sent([s EXCEPT !.asked = FALSE], [type |-> "list", ids |-> s.others])
OtherQuits ==
    /\ Room /\ s.owner = "other" /\ s.moves < MaxMoves
    /\ LET t == [s EXCEPT !.owner = "nobody", !.others = <<>>, !.asked = FALSE, !.moves = @ + 1]
       IN s' = IF s.tray = "none" THEN t ELSE Sent(t, [type |-> "lost watcher"])
OtherStarts ==
    /\ Room /\ s.owner = "nobody"
    /\ LET t == [s EXCEPT !.owner = "other"]
       IN s' = IF s.tray = "none" THEN t ELSE Sent(t, [type |-> "new watcher"])

Next ==
    \/ CreateTray \/ InitHost \/ Process
    \/ \E a \in Apps : Quit(a) \/ \E p \in Paths : Register(a, p)
    \/ \E id \in Ids : OtherNotices(id)
    \/ OtherReplies \/ OtherQuits \/ OtherStarts

Spec == Init /\ [][Next]_s

(* When every message has been handled the bar shows each icon of the      *)
(* watcher once; and if the watcher has never changed hands, just those of *)
(* the programs that registered and still run.  The list, the signals and  *)
(* the ends of the programs cross each other (add_sni, register_to_watcher,*)
(* handle_sni_unregistered, handle_lost_service).                          *)
TrayAgrees ==
    LET list == IF s.owner = "bar" THEN s.watched ELSE s.others
    IN /\ s \in States
       /\ IsInjective(s.items) /\ IsInjective(s.watched)
       /\ s.tray = "ready" /\ s.inbox = <<>> /\ ~s.asked =>
             /\ Range(list) \subseteq Range(s.items)
             /\ s.moves = 0 =>
                   /\ Range(s.items) = Range(list)
                   /\ s.owner = "bar" => Range(s.items) = {id \in s.known : id.app \in s.up}
=============================================================================
