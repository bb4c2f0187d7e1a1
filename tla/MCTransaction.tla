--------------------------- MODULE MCTransaction ---------------------------
(***************************************************************************)
(* Small instances of Transaction for TLC.                                 *)
(***************************************************************************)
EXTENDS Transaction, TLC

(* Two boxes of different widths; with the third, half a pixel away from   *)
(* the first, what an X11 client sees and what sway computes differ.       *)
TwoBoxes == {[x |-> 0, w |-> 1], [x |-> 0, w |-> 2]}
ThreeBoxes == {[x |-> 0, w |-> 1], [x |-> 1, w |-> 1], [x |-> 2, w |-> 2]}

(* Containers and other nodes are interchangeable. *)
Symmetric == Permutations(Containers) \cup Permutations(Others)
SymmetricViews == Symmetric \cup Permutations(Views)
=============================================================================
