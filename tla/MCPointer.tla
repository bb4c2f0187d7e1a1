----------------------------- MODULE MCPointer ------------------------------
(* Two windows on two workspaces, any of which may be dragged. *)
EXTENDS Pointer, TLC

CONSTANTS v1, v2

OneWide == [v \in Views |-> 1]
MayEach == [op \in {"float", "fullscreen", "minimize", "unsplit"} |->
              IF op \in {"float", "fullscreen"} THEN {v1} ELSE IF op = "minimize" THEN {v2} ELSE {}]
=============================================================================
