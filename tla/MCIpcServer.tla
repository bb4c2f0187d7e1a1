---------------------------- MODULE MCIpcServer ----------------------------
(***************************************************************************)
(* Two clients that both listen and ask; one sends ticks, runs commands,   *)
(* may exit the compositor, and leave.  The other makes mistakes.          *)
(***************************************************************************)
EXTENDS IpcServer

CONSTANTS a, b
SendsOfTwo == [c \in {a, b} |->
    IF c = a THEN WithBody \union Queries
    ELSE {"subscribe", "garbage"} \union Unknown \union Queries]
SubscribesOfTwo == [c \in {a, b} |-> IF c = a THEN {{"workspace"}} ELSE {Events}]
=============================================================================
