--------------------------- MODULE AtomicLayout ---------------------------
(***************************************************************************)
(* What the layout transactions promise (sway/desktop/transaction.c),      *)
(* whatever instructions, views and timers they are made of: the screen    *)
(* shows whole layouts only.  A layout is the state of every node.         *)
(***************************************************************************)
CONSTANTS Nodes, States

VARIABLES
    committed,  \* the layout as of the last commit
    inflight,   \* the layout being waited for, or the one shown
    shown       \* the layout on screen

Layouts == [Nodes -> States]

TypeOK == committed \in Layouts /\ inflight \in Layouts /\ shown \in Layouts

Init == /\ shown \in Layouts
        /\ inflight = shown
        /\ committed = shown

(* A commit leaves the layout in flight and the screen alone. *)
Hold == inflight' = inflight /\ shown' = shown

(* Only when nothing is in flight is a commit put in flight without the    *)
(* layout that precedes it being shown.                                    *)
Start == inflight = shown /\ inflight' = committed' /\ shown' = shown

(* The layout in flight is shown and all that was committed meanwhile is   *)
(* put in flight as one layout; when that waits for nobody it is shown too.*)
Finish == inflight' = committed' /\ shown' \in {inflight, committed'}

Next == /\ committed' \in Layouts
        /\ Hold \/ Start \/ Finish

Spec == Init /\ [][Next]_<<committed, inflight, shown>>
=============================================================================
