------------------------------ MODULE MCFocus ------------------------------
(***************************************************************************)
(* Small instances of Focus for TLC.                                       *)
(***************************************************************************)
EXTENDS Focus, TLC

CONSTANTS v1, v2, v3, w1, w2, w3, o1, o2, l1, l2, app, other

(* Two outputs, the first with two workspaces, the second with one. *)
TwoOutputs == <<o1, o2>>
OnTwoOutputs == [w \in {w1, w2, w3} |-> IF w = w2 THEN o2 ELSE o1]
TwoWorkspaces == <<w1, w2>>

(* l1 in the TOP layer of the first output, l2 in the OVERLAY layer of the second. *)
TwoLayers == <<l1, l2>>
LayersOnTwo == [l \in {l1, l2} |-> IF l = l1 THEN o1 ELSE o2]

(* l1 asks for anything, l2 for the keyboard. *)
AllOrExclusive ==
    [l \in {l1, l2} |-> {"exclusive"} \cup (IF l = l1 THEN {"none", "on_demand"} ELSE {})]

(* One client owns the layers and a window, the other a window. *)
TwoClients == [x \in Views \cup Layers |-> IF x = v2 THEN other ELSE app]
=============================================================================
