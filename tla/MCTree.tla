------------------------------- MODULE MCTree -------------------------------
(* Small instances of the tree.                                            *)
EXTENDS Tree, TLC

CONSTANTS v1, v2, v3, A, B

OneWide == [v \in Views |-> 1]

(* Every operation on v1, and on the two others all but floating and       *)
(* fullscreen: the two are interchangeable.                                *)
MayAll == [op \in {"float", "fullscreen", "minimize", "unsplit"} |->
             IF op \in {"float", "fullscreen"} THEN {v1} ELSE Views]
Alike == Permutations({v2, v3})

(* With one output nothing depends on the priorities. *)
ButPriorities == [s EXCEPT !.prio = <<>>]

(* Windows are only minimized while outputs come and go. *)
MayMinimize == [op \in {"float", "fullscreen", "minimize", "unsplit"} |->
                  IF op = "minimize" THEN Views ELSE {}]
Interchangeable == Permutations(Views) \union Permutations(Outputs)
(* A workspace remembers two outputs at most. *)
FewPriorities == \A w \in Workspaces : Len(s.prio[w]) <= 2
=============================================================================
