------------------------------- MODULE Rules ---------------------------------
(***************************************************************************)
(* Criteria, rules and lists of commands: which windows a criteria text    *)
(* names, the rules for_window, assign and no_focus make of one, what a    *)
(* window is given when it appears or changes, and commands that run other *)
(* rules while they run.  A criteria text is a sequence of tokens; titles  *)
(* stand for everything a client says of its window (application, class,   *)
(* role, tag), which the code treats alike.  A rule lives at an address,   *)
(* which the next configuration may use again.                             *)
(***************************************************************************)
EXTENDS Integers, Sequences, FiniteSets
LOCAL INSTANCE SequencesExt
LOCAL INSTANCE FiniteSetsExt

CONSTANTS
    NIL,
    Windows, Workspaces,   \* workspaces are the names of all there may be
    WantFloating,          \* windows that open floating
    Titles,                \* what clients call their windows; also patterns
    Marks,
    Addresses,             \* where rules may be: a bound
    File,                  \* the rules of the configuration file
    Later,                 \* rules that are added at runtime
    Lines,                 \* command lists that the user runs
    ActiveWorkspace,       \* what the outputs that exist show, by name
    MaxChanges             \* of the rules: a bound

(* A rule as written: [type, text, line, target].                          *)
RuleTypes == {"command", "assign_output", "assign_workspace", "no_focus"}
RulesAssumption ==
    /\ NIL \notin Windows \union Workspaces
    /\ \A r \in Later \union Range(File) : r.type \in RuleTypes
    /\ \A o \in DOMAIN ActiveWorkspace : ActiveWorkspace[o] \in Workspaces
    /\ Addresses \subseteq Nat /\ MaxChanges \in Nat
    /\ Cardinality(Addresses) >= 2 * Len(File) + MaxChanges

VARIABLE s
(* s.order: the mapped windows as the tree lists them; s.executed: the     *)
(* rules a view remembers, by address.  Of the history of a window since   *)
(* it was mapped or the rules were read: s.done, the rules that ran;       *)
(* s.seen, those it was compared with; s.stale, what it remembered when    *)
(* the rules were read again.                                              *)

-----------------------------------------------------------------------------
(* Criteria. *)

NoCriteria ==
    [ all |-> FALSE, floating |-> FALSE, tiling |-> FALSE, title |-> NIL, con_mark |-> NIL,
      con_id |-> NIL, urgent |-> NIL, workspace |-> NIL, valid |-> TRUE ]
Invalid == [NoCriteria EXCEPT !.valid = FALSE]
Tokens == DOMAIN NoCriteria \ {"valid"}

IsMapped(t, w) == w \in Range(t.order)
WorkspaceOf(t, n) == IF n \in Windows THEN t.ws[n] ELSE n
(* seat_get_focused_container *)
Focused(t) == IF t.focus \in Windows THEN t.focus ELSE NIL

(* parse_token: only three tokens need no value, a pattern has to compile, *)
(* and the focused container is looked up now.                             *)
ParseToken(t, c, name, value) ==
    IF ~c.valid \/ name \notin Tokens THEN Invalid
    ELSE IF name \in {"all", "floating", "tiling"} THEN [c EXCEPT ![name] = TRUE]
    ELSE IF value \in {NIL, "bad"} THEN Invalid
    ELSE IF name = "urgent" /\ value \notin {"latest", "oldest"} THEN Invalid
    ELSE IF name = "con_id" /\ value = "__focused__" THEN [c EXCEPT !.con_id = Focused(t)]
    ELSE [c EXCEPT ![name] = value]

IsEmpty(c) == c = NoCriteria

(* criteria_parse *)
Parse(t, text) ==
    LET c == FoldLeft(LAMBDA d, token : ParseToken(t, d, token[1], token[2]), NoCriteria, text)
    IN IF IsEmpty(c) THEN Invalid ELSE c

(* pattern_create, regex_cmp: one pattern fits everything. *)
Fits(pattern, text) == pattern \in {text, "any"}

(* criteria_matches_container *)
MatchesContainer(t, c, w) ==
    /\ c.con_mark # NIL => \E m \in t.marks[w] : Fits(c.con_mark, m)
    /\ c.con_id \in {NIL, w}

(* criteria_matches_view: what the client says of the window ... *)
SaysOfItself(t, c, w) ==
    CASE c.title = NIL -> TRUE
      [] c.title = "__focused__" -> Focused(t) # NIL /\ t.title[Focused(t)] = t.title[w]
      [] OTHER -> Fits(c.title, t.title[w])

(* ... and where it is.  Of the urgent windows of the tree the first and   *)
(* the last to ask can be named.                                           *)
IsWhere(t, c, w) ==
    /\ c.floating => w \in t.floating
    /\ c.tiling => w \notin t.floating
    /\ c.urgent # NIL => /\ w \in Range(t.urgent)
                         /\ w = (IF c.urgent = "oldest" THEN Head(t.urgent) ELSE Last(t.urgent))
    /\ c.workspace # NIL =>
        /\ t.ws[w] # NIL
        /\ IF c.workspace = "__focused__" THEN Focused(t) # NIL /\ t.ws[Focused(t)] = t.ws[w]
                                          ELSE Fits(c.workspace, t.ws[w])

Matches(t, c, w) == SaysOfItself(t, c, w) /\ MatchesContainer(t, c, w) /\ IsWhere(t, c, w)

(* criteria_for_view, criteria_get_containers: in the order of the         *)
(* configuration, and of the tree.                                         *)
CriteriaForView(t, w, types) ==
    SelectSeq(t.rules, LAMBDA r : r.type \in types /\ Matches(t, r.criteria, w))
GetContainers(t, c) == SelectSeq(t.order, LAMBDA w : Matches(t, c, w))

-----------------------------------------------------------------------------
(* Commands and rules that run each other.  A line is a sequence of lists  *)
(* [criteria, commands]: a list without criteria acts on the given window, *)
(* or on the focused one if none is given; t.invalid is the last result.   *)

RECURSIVE ViewExecuteCriteria(_, _)

(* container_find_and_unmark *)
FindAndUnmark(t, m) == [t EXCEPT !.marks = [w \in Windows |-> @[w] \ {m}]]

(* cmd_mark *)
Marked(t, w, m, add, toggle) ==
    LET cleared == IF add THEN t ELSE [t EXCEPT !.marks[w] = {}]
        unmarked == FindAndUnmark(cleared, m)
    IN IF toggle /\ m \in t.marks[w] THEN unmarked ELSE [unmarked EXCEPT !.marks[w] = @ \union {m}]
MarkUnseen(t, w, m, add, toggle) ==
    IF w \in Windows THEN Marked(t, w, m, add, toggle) ELSE [t EXCEPT !.invalid = TRUE]
Mark(t, w, m, add, toggle) ==
    IF w \in Windows THEN ViewExecuteCriteria(Marked(t, w, m, add, toggle), w)
    ELSE [t EXCEPT !.invalid = TRUE]

(* cmd_unmark: given is whether the window was named, m may be NIL. *)
Unmark(t, w, m, given) ==
    IF given /\ w \in Windows
    THEN CASE m = NIL -> [t EXCEPT !.marks[w] = {}]
           [] m \in t.marks[w] -> FindAndUnmark(t, m)
           [] OTHER -> t
    ELSE IF m = NIL THEN [t EXCEPT !.marks = [x \in Windows |-> {}]] ELSE FindAndUnmark(t, m)

(* cmd_focus, without a direction: fails on a workspace. *)
FocusNamed(t, w) ==
    IF w \in Windows THEN [t EXCEPT !.focus = w, !.urgent = SelectSeq(@, LAMBDA u : u # w)] ELSE t

(* The handlers of commands.  "nop" stands for those that no rule and no   *)
(* criteria sees.                                                          *)
Handle(t, command, w, given) ==
    CASE command[1] = "mark" -> Mark(t, w, command[2], command[3], command[4])
      [] command[1] = "unmark" -> Unmark(t, w, command[2], given)
      [] command[1] = "focus" -> FocusNamed(t, w)
      [] command[1] = "floating" /\ w \in Windows -> [t EXCEPT !.floating = @ \union {w}]
      [] command[1] = "nop" -> t
      [] OTHER -> [t EXCEPT !.invalid = TRUE]

(* The commands of one list, each on all of the windows that the criteria  *)
(* named when the list began.                                              *)
ExecuteList(t, list, con) ==
    LET c == IF list.criteria = <<>> THEN NIL ELSE Parse(t, list.criteria)
        run(u, command) ==
            IF u.invalid THEN u
            ELSE IF c # NIL
                 THEN FoldLeft(LAMBDA v, w : IF v.invalid THEN v ELSE Handle(v, command, w, TRUE),
                               u, GetContainers(t, c))
                 ELSE Handle(u, command, IF con # NIL THEN con ELSE u.focus, con # NIL)
    IN IF t.invalid THEN t
       ELSE IF c = Invalid THEN [t EXCEPT !.invalid = TRUE]
       ELSE FoldLeft(run, t, list.commands)

(* execute_command: what is invalid ends the whole line. *)
ExecuteCommand(t, line, con) ==
    LET begin == [t EXCEPT !.invalid = FALSE]
    IN [FoldLeft(LAMBDA u, list : ExecuteList(u, list, con), begin, line) EXCEPT !.invalid = FALSE]

(* view_execute_criteria: the rules are those that fit when it begins; a   *)
(* rule is remembered before it runs, and may get here again.              *)
ViewExecuteCriteria(t, w) ==
    LET run(u, r) ==
            IF r.at \in u.executed[w] THEN u
            ELSE ExecuteCommand([u EXCEPT !.executed[w] = @ \union {r.at},
                                          !.done[w] = @ \union {r.at}], r.line, w)
        seen == {r.at : r \in Range(t.rules)}
    IN FoldLeft(run, [t EXCEPT !.seen[w] = @ \union seen], CriteriaForView(t, w, {"command"}))

(* criteria_is_equal, criteria_already_exists *)
Exists(t, r) ==
    \E x \in Range(t.rules) :
        x.type = r.type /\ x.text = r.text /\ (r.type = "command" => x.line = r.line)

(* A rule that can be understood is added.  Memory is taken where it is    *)
(* free first, which uses it again soonest; kept is what other rules hold. *)
Added(t, r, kept) ==
    LET c == Parse(t, r.text)
        at == Min(Addresses \ (kept \union {x.at : x \in Range(t.rules)}))
        rule == [type |-> r.type, text |-> r.text, line |-> r.line, target |-> r.target,
                 criteria |-> c, at |-> at]
    IN IF c.valid THEN [t EXCEPT !.rules = Append(@, rule)] ELSE t

(* cmd_for_window, cmd_no_focus, cmd_assign: only assignments are added    *)
(* again.                                                                  *)
ForWindow(t, r, kept) == IF Exists(t, r) THEN t ELSE Added(t, r, kept)
NoFocus(t, r, kept) == IF Exists(t, r) THEN t ELSE Added(t, r, kept)
Assign(t, r, kept) == Added(t, r, kept)
AddRule(t, r, kept) ==
    CASE r.type = "command" -> ForWindow(t, r, kept)
      [] r.type = "no_focus" -> NoFocus(t, r, kept)
      [] OTHER -> Assign(t, r, kept)

-----------------------------------------------------------------------------
(* Windows come, change and go. *)

(* select_workspace: an output that does not exist is passed over. *)
SelectWorkspace(t, w) ==
    LET fit == CriteriaForView(t, w, {"assign_output", "assign_workspace"})
        exists(r) == r.type = "assign_output" => r.target \in DOMAIN ActiveWorkspace
        good == SelectSeq(fit, exists)
    IN IF good = <<>> THEN WorkspaceOf(t, t.focus)
       ELSE IF good[1].type = "assign_output" THEN ActiveWorkspace[good[1].target]
       ELSE good[1].target

(* should_focus: the first window of a workspace is focused whatever the   *)
(* rules say, if it floats; a tiled one has a column around it.            *)
ShouldFocus(t, w) ==
    /\ t.ws[w] = WorkspaceOf(t, t.focus)
    /\ \/ /\ w \in t.floating /\ Focused(t) = NIL
          /\ {x \in Windows : IsMapped(t, x) /\ t.ws[x] = t.ws[w]} = {w}
       \/ CriteriaForView(t, w, {"no_focus"}) = <<>>

Started ==
        [ rules |-> <<>>, order |-> <<>>, title |-> [w \in Windows |-> CHOOSE x \in Titles : TRUE],
          marks |-> [w \in Windows |-> {}], ws |-> [w \in Windows |-> NIL], floating |-> {},
          urgent |-> <<>>, focus |-> CHOOSE x \in Workspaces : TRUE,
          executed |-> [w \in Windows |-> {}], done |-> [w \in Windows |-> {}],
          seen |-> [w \in Windows |-> {}], stale |-> [w \in Windows |-> {}],
          invalid |-> FALSE, changes |-> 0 ]

Becomes(t) == s' = t

(* view_map *)
ViewMap(w, title) ==
    LET titled == [s EXCEPT !.title[w] = title]
        ws == SelectWorkspace(titled, w)
        there == [titled EXCEPT !.ws[w] = ws, !.order = Append(@, w),
                                !.floating = IF w \in WantFloating THEN @ \union {w} ELSE @]
        ruled == ViewExecuteCriteria(there, w)
    IN /\ ~IsMapped(s, w)
       /\ Becomes(IF ShouldFocus(ruled, w) THEN FocusNamed(ruled, w) ELSE ruled)

(* view_unmap: the number of its container is nobody's again.  The focus   *)
(* goes to another window of the workspace, if there is one.               *)
ViewUnmap(w) ==
    LET others == {x \in Windows \ {w} : IsMapped(s, x) /\ s.ws[x] = s.ws[w]}
        gone(r) == IF r.criteria.con_id = w THEN [r EXCEPT !.criteria.con_id = "gone"] ELSE r
    IN /\ IsMapped(s, w)
       /\ \E x \in IF s.focus # w THEN {s.focus} ELSE IF others # {} THEN others ELSE {s.ws[w]} :
            Becomes([s EXCEPT
                !.order = SelectSeq(@, LAMBDA y : y # w), !.marks[w] = {}, !.ws[w] = NIL,
                !.floating = @ \ {w}, !.focus = x,
                !.urgent = SelectSeq(@, LAMBDA y : y \notin {x, w}),
                !.rules = [i \in DOMAIN @ |-> gone(@[i])],
                !.executed[w] = {}, !.done[w] = {}, !.seen[w] = {}, !.stale[w] = {}])

(* handle_set_title, and the handlers of what else a client may say. *)
SetTitle(w, title) ==
    /\ IsMapped(s, w) /\ s.title[w] # title
    /\ Becomes(ViewExecuteCriteria([s EXCEPT !.title[w] = title], w))

(* view_set_urgent, for a window that has not the focus. *)
SetUrgent(w) ==
    /\ IsMapped(s, w) /\ s.focus # w /\ w \notin Range(s.urgent)
    /\ Becomes([s EXCEPT !.urgent = Append(@, w)])

(* The user goes to a window, or to a workspace where there is none. *)
Focus(n) ==
    /\ n # s.focus
    /\ IF n \in Windows THEN IsMapped(s, n) ELSE \A w \in Windows : IsMapped(s, w) => s.ws[w] # n
    /\ Becomes([s EXCEPT !.focus = n, !.urgent = SelectSeq(@, LAMBDA w : w # n)])

Run(line) == Becomes(ExecuteCommand(s, line, NIL))

Configure(r) ==
    LET t == AddRule(s, r, {})
    IN s.changes < MaxChanges /\ t.rules # s.rules /\ Becomes([t EXCEPT !.changes = @ + 1])

(* load_main_config: the rules are read again and then the old ones freed; *)
(* the views are not told, and later ones may be where these were.         *)
ReadFile(t) ==
    LET kept == {r.at : r \in Range(t.rules)}
    IN FoldLeft(LAMBDA u, r : AddRule(u, r, kept), [t EXCEPT !.rules = <<>>], File)

Reload ==
    /\ s.changes < MaxChanges
    /\ Becomes([ReadFile(s) EXCEPT !.done = [w \in Windows |-> {}], !.seen = [w \in Windows |-> {}],
                                   !.stale = s.executed, !.changes = @ + 1])

Init == s = ReadFile(Started)

Next ==
    \/ \E w \in Windows, x \in Titles : ViewMap(w, x) \/ SetTitle(w, x)
    \/ \E w \in Windows : ViewUnmap(w) \/ SetUrgent(w)
    \/ \E n \in Windows \union Workspaces : Focus(n)
    \/ \E line \in Lines : Run(line)
    \/ \E r \in Later : Configure(r)
    \/ Reload

Spec == Init /\ [][Next]_s

-----------------------------------------------------------------------------
(* A rule for a title or a mark has run for every window it names since    *)
(* the window was last looked at, whatever the rules do to each other's    *)
(* windows and however often windows come and go; unless the window        *)
(* remembers a rule of an earlier configuration at the same place          *)
(* (view_has_executed_criteria).                                           *)
RulesRun ==
    \A w \in Range(s.order), r \in Range(s.rules) :
        LET c == r.criteria
        IN ( /\ r.type = "command" /\ r.at \in s.seen[w] \ s.stale[w]
             /\ [c EXCEPT !.title = NIL, !.con_mark = NIL, !.all = FALSE] = NoCriteria
             /\ c.title # "__focused__" /\ Matches(s, c, w) ) => r.at \in s.done[w]

(* A mark names one window (cmd_mark). *)
MarksAreUnique ==
    \A m \in Marks : Cardinality({w \in Windows : m \in s.marks[w]}) <= 1

RulesObeyed == RulesRun /\ MarksAreUnique
=============================================================================
