------------------------------ MODULE Launcher ------------------------------
(***************************************************************************)
(* Launch contexts (sway/desktop/launcher.c): where a program was started, *)
(* so that its first window opens there.  A context is made with an        *)
(* activation token, is pending until a window claims it by the token or   *)
(* by its process, and then belongs to the window.  It follows the node it *)
(* was made on: a workspace that goes is replaced by its output, an output *)
(* by the root, with the name of the workspace kept to create it again.    *)
(*                                                                         *)
(* Contexts, tokens and windows end in any order, by callbacks that        *)
(* destroy each other (wlr_xdg_activation_token_v1_destroy calls the       *)
(* listener of the context, the context destroys its token).               *)
(***************************************************************************)
EXTENDS Integers, FiniteSets

CONSTANTS Contexts,
          Views, XwaylandViews,
          Spaces,           \* workspaces: integers, the lowest free one is created
          Names,            \* their names
          Outputs, NIL, Root

LauncherAssumption ==
    /\ XwaylandViews \subseteq Views /\ Spaces \subseteq Nat
    /\ {NIL, Root} \cap (Spaces \union Outputs \union Contexts) = {}

VARIABLE s

(* A context is in the list of pending ones, held by a view, or freed.  A  *)
(* token says whether its destruction is still listened to.                *)
States ==
    [ ctx       : [Contexts -> {"none", "pending", "held", "freed"}],
      token     : [Contexts -> {"none", "live", "dead"}],
      listened  : SUBSET Contexts,          \* token_destroy is in a list
      data      : SUBSET Contexts,          \* token->data is the context
      activated : SUBSET Contexts,
      exec      : SUBSET Contexts,          \* has the pid of a child
      seat      : SUBSET Contexts,
      node      : [Contexts -> Spaces \union Outputs \union {Root, NIL}],
      name      : [Contexts -> Names \union {NIL}],
      view      : [Views -> {"unmapped", "mapped", "dying", "freed"}],
      holds     : [Views -> Contexts \union {NIL}],
      ws        : [Spaces -> Names \union {NIL}],
      on        : [Spaces -> Outputs \union {NIL}],
      enabled   : SUBSET Outputs,
      gone      : SUBSET Outputs,
      crash     : {"no", "context freed twice", "freed context used"} ]

Init ==
    \E n \in Names, o \in Outputs, w \in Spaces :
      s = [ ctx |-> [c \in Contexts |-> "none"], token |-> [c \in Contexts |-> "none"],
            listened |-> {}, data |-> {}, activated |-> {}, exec |-> {}, seat |-> {},
            node |-> [c \in Contexts |-> NIL], name |-> [c \in Contexts |-> NIL],
            view |-> [v \in Views |-> "unmapped"], holds |-> [v \in Views |-> NIL],
            ws |-> [x \in Spaces |-> IF x = w THEN n ELSE NIL],
            on |-> [x \in Spaces |-> IF x = w THEN o ELSE NIL],
            enabled |-> Outputs, gone |-> {}, crash |-> "no" ]

Becomes(t) == s.crash = "no" /\ s' = t
Live(t) == {w \in Spaces : t.ws[w] # NIL}
Free(t) == Spaces \ Live(t)
ByName(t, n) == {w \in Live(t) : t.ws[w] = n}

WorkspaceCreate(t, o, n) ==
    LET w == CHOOSE x \in Free(t) : \A y \in Free(t) : x <= y
    IN [t EXCEPT !.ws[w] = n, !.on[w] = o]

(* launcher_ctx_create.                                                    *)
Created(t, c, w, internal) ==
    [t EXCEPT !.ctx[c] = "pending", !.token[c] = "live", !.listened = @ \union {c},
              !.data = @ \union {c}, !.node[c] = w, !.name[c] = t.ws[w],
              !.exec = IF internal THEN @ \union {c} ELSE @,
              !.seat = IF internal THEN @ \union {c} ELSE @]

(* wlr_xdg_activation_token_v1_destroy, and launcher_ctx_destroy, which    *)
(* stops listening before it destroys the token.                           *)
CtxFreed(t, c) ==
    IF t.ctx[c] = "freed" THEN [t EXCEPT !.crash = "context freed twice"]
    ELSE [t EXCEPT !.ctx[c] = "freed", !.listened = @ \ {c}, !.seat = @ \ {c}]

TokenDestroy(t, c) ==
    LET u == [t EXCEPT !.token[c] = "dead", !.data = @ \ {c}, !.listened = @ \ {c}]
    IN IF t.token[c] # "live" THEN t
       ELSE IF c \in t.listened THEN CtxFreed(u, c) ELSE u

CtxDestroy(t, c) ==
    IF c = NIL THEN t
    ELSE LET u == CtxFreed(t, c)
         IN [u EXCEPT !.token[c] = "dead", !.data = @ \ {c}]

(* launcher_ctx_consume: the view is now responsible.  An activated token  *)
(* is destroyed by the one who activated it.                               *)
Consume(t, c) ==
    LET u == [t EXCEPT !.listened = @ \ {c}]
        v == IF c \in t.activated THEN u ELSE TokenDestroy(u, c)
    IN IF t.ctx[c] = "freed" THEN [t EXCEPT !.crash = "freed context used"]
       ELSE [v EXCEPT !.ctx[c] = "held"]

(* view_assign_ctx. *)
AssignCtx(t, v, c) ==
    LET u == CtxDestroy([t EXCEPT !.holds[v] = NIL], t.holds[v])
    IN IF c = NIL THEN u ELSE [Consume(u, c) EXCEPT !.holds[v] = c]

(* launcher_ctx_get_workspace: the workspaces the window may open on, with *)
(* the state in which they exist.  When only the root is left a workspace  *)
(* of the name is created, even if there is one.                           *)
CreatedOn(t, n) ==
    IF Free(t) = {} THEN {}
    ELSE {WorkspaceCreate(t, o, n) : o \in (IF t.enabled = {} THEN {NIL} ELSE t.enabled)}
GetWorkspace(t, c) ==
    LET n == t.node[c]
    IN CASE n \in Spaces -> {t}
         [] n \in Outputs -> IF ByName(t, t.name[c]) # {} THEN {t}
                             ELSE IF n \in t.enabled
                             THEN IF Free(t) = {} THEN {} ELSE {WorkspaceCreate(t, n, t.name[c])}
                             ELSE CreatedOn(t, t.name[c])
         [] n = Root -> CreatedOn(t, t.name[c])

(* Mutant: a context that a view holds is no longer moved.                 *)
FollowPending(t, n) ==
    [t EXCEPT !.node = [c \in Contexts |->
        IF t.node[c] # n \/ t.ctx[c] # "pending" THEN t.node[c]
        ELSE IF n \in Spaces /\ t.on[n] # NIL /\ t.on[n] \notin t.gone THEN t.on[n] ELSE Root]]

(* ctx_handle_node_destroy, for every context that listens to the node.    *)
Follow(t, n) ==
    [t EXCEPT !.node = [c \in Contexts |->
        IF t.node[c] # n \/ t.ctx[c] \notin {"pending", "held"} THEN t.node[c]
        ELSE IF n \in Spaces /\ t.on[n] # NIL /\ t.on[n] \notin t.gone THEN t.on[n] ELSE Root],
     !.name = [c \in Contexts |-> IF t.node[c] = n /\ n \in Spaces THEN t.ws[n] ELSE t.name[c]]]

Gone(t, w) == [Follow(t, w) EXCEPT !.ws[w] = NIL, !.on[w] = NIL]

-----------------------------------------------------------------------------
(* xdg_activation_v1_handle_new_token and cmd_exec_process, with some      *)
(* workspace focused; the fork may fail.                                   *)
NewToken(c, w) ==
    /\ s.ctx[c] = "none" /\ w \in Live(s)
    /\ Becomes(Created(s, c, w, FALSE))

Exec(c, w, forked) ==
    /\ s.ctx[c] = "none" /\ w \in Live(s)
    /\ LET t == Created(s, c, w, TRUE)
       IN Becomes(IF forked THEN t ELSE CtxDestroy(t, c))

(* The token times out. *)
Expire(c) == s.token[c] = "live" /\ Becomes(TokenDestroy(s, c))

(* xdg_activation_v1_handle_request_activate; the token goes after it.     *)
Activate(c, v) ==
    /\ s.token[c] = "live" /\ v \notin XwaylandViews /\ s.view[v] \in {"unmapped", "mapped"}
    /\ LET t == IF s.view[v] = "mapped" \/ c \notin s.data \/ c \in s.activated THEN s
                ELSE AssignCtx([s EXCEPT !.activated = @ \union {c}], v, c)
       IN Becomes(TokenDestroy(t, c))

(* handle_set_startup_id of an X11 window, mapped or not.                  *)
SetStartupId(c, v) ==
    /\ s.token[c] = "live" /\ c \in s.data /\ v \in XwaylandViews /\ s.view[v] \in {"unmapped", "mapped"}
    /\ Becomes(AssignCtx(s, v, c))

(* view_map: a view without a context looks for one by its process, which  *)
(* here may be that of any context made by exec; then it uses it, unless a *)
(* fullscreen request names an output, which keeps it, or a rule names a   *)
(* workspace, which drops it.                                              *)
Matches(t, v) == IF t.holds[v] # NIL THEN {}
                 ELSE {c \in t.exec : t.ctx[c] = "pending"}
Found(t, v) == {t} \union {AssignCtx(t, v, c) : c \in Matches(t, v)}
Placed(t, v) ==
    {t, AssignCtx(t, v, NIL)} \union
    (IF t.holds[v] = NIL THEN {} ELSE {AssignCtx(u, v, NIL) : u \in GetWorkspace(t, t.holds[v])})

Map(v) ==
    /\ s.view[v] = "unmapped" /\ s.crash = "no"
    /\ s' \in UNION {Placed(t, v) : t \in Found([s EXCEPT !.view[v] = "mapped"], v)}

Unmap(v) == s.view[v] = "mapped" /\ Becomes([s EXCEPT !.view[v] = "unmapped"])

(* A view that is destroyed is freed when the transactions let go of it.   *)
BeginDestroy(v) == s.view[v] = "unmapped" /\ Becomes([s EXCEPT !.view[v] = "dying"])
ViewDestroy(v) ==
    s.view[v] = "dying" /\ Becomes(AssignCtx([s EXCEPT !.view[v] = "freed"], v, NIL))

(* Workspaces and outputs come and go; an output that is disabled or       *)
(* destroyed is evacuated, which detaches each workspace before it is      *)
(* moved or destroyed.                                                     *)
CreateWorkspace(n, o) ==
    /\ ByName(s, n) = {} /\ Free(s) # {} /\ o \in s.enabled
    /\ Becomes(WorkspaceCreate(s, o, n))
DestroyWorkspace(w) == w \in Live(s) /\ Becomes(Gone(s, w))

RECURSIVE Evacuated(_, _)
Evacuated(t, W) ==
    IF W = {} THEN {t}
    ELSE LET w == CHOOSE x \in W : TRUE
             u == [t EXCEPT !.on[w] = NIL]
         IN Evacuated(Gone(u, w), W \ {w}) \union
            UNION {Evacuated([u EXCEPT !.on[w] = o], W \ {w}) : o \in t.enabled}

OutputDisable(o) ==
    /\ o \in s.enabled /\ s.crash = "no"
    /\ s' \in Evacuated([s EXCEPT !.enabled = @ \ {o}], {w \in Live(s) : s.on[w] = o})
OutputEnable(o) == o \notin s.enabled \union s.gone /\ Becomes([s EXCEPT !.enabled = @ \union {o}])
OutputDestroy(o) ==
    /\ o \notin s.enabled \union s.gone
    /\ Becomes(Follow([s EXCEPT !.gone = @ \union {o}], o))

SeatDestroy == s.seat # {} /\ Becomes([s EXCEPT !.seat = {}])

Next ==
    \/ \E c \in Contexts : \/ \E w \in Spaces : NewToken(c, w) \/ \E f \in BOOLEAN : Exec(c, w, f)
                           \/ Expire(c)
                           \/ \E v \in Views : Activate(c, v) \/ SetStartupId(c, v)
    \/ \E v \in Views : Map(v) \/ Unmap(v) \/ BeginDestroy(v) \/ ViewDestroy(v)
    \/ \E n \in Names, o \in Outputs : CreateWorkspace(n, o)
    \/ \E w \in Spaces : DestroyWorkspace(w)
    \/ \E o \in Outputs : OutputDisable(o) \/ OutputEnable(o) \/ OutputDestroy(o)
    \/ SeatDestroy

Spec == Init /\ [][Next]_s

(* A context is pending with its token, or held by one view, and nobody    *)
(* holds a freed one; what it points at exists.  Tokens, windows,          *)
(* workspaces and outputs go in any order (launcher_ctx_consume,           *)
(* token_handle_destroy, ctx_handle_node_destroy).                         *)
ContextsOwned ==
    /\ s \in States /\ s.crash = "no"
    /\ \A c \in Contexts :
          LET holders == {v \in Views : s.holds[v] = c}
          IN /\ Cardinality(holders) = IF s.ctx[c] = "held" THEN 1 ELSE 0
             /\ s.ctx[c] = "pending" <=> s.token[c] = "live" /\ c \in s.listened
             /\ s.ctx[c] \in {"pending", "held"} =>
                   s.node[c] \in Live(s) \union (Outputs \ s.gone) \union {Root}
    /\ \A v \in Views : s.view[v] = "freed" => s.holds[v] = NIL
=============================================================================
