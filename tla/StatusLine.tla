----------------------------- MODULE StatusLine -----------------------------
(***************************************************************************)
(* The status line of swaybar (swaybar/i3bar.c, status_line.c and the part *)
(* of render.c that lays its blocks out): a program writes a header and an *)
(* endless array of arrays of blocks, in pieces; the bar parses what has   *)
(* come, shows the last array that is complete, and tells the program of   *)
(* clicks on blocks.  A block is shared by the list of the last array and  *)
(* by the places of the last frame of every output.                        *)
(*                                                                         *)
(* What a program writes is a script: a header, "[", parts of arrays, ends *)
(* of arrays, ",", white space and junk.                                   *)
(***************************************************************************)
EXTENDS Integers, Sequences, SequencesExt, FiniteSets

CONSTANTS Outputs, Addresses, NIL,
          Scripts,          \* what programs may write
          MaxClicks, MaxRestarts

Symbols ==
    {"header", "clicks", "part", "[", ",", " ", "junk", "object"}   \* "clicks": a header that asks for them
Arrays == Seq([name : BOOLEAN])                                     \* whether blocks have names

StatusAssumption ==
    /\ NIL \notin Addresses /\ MaxClicks \in Nat /\ MaxRestarts \in Nat
    /\ \A p \in Scripts : \A k \in DOMAIN p : p[k][1] = "array" \/ p[k][1] \in Symbols

VARIABLE s

States ==
    [ script   : Scripts, put : Nat, got : Nat,    \* what is written, and read, of it
      runs     : BOOLEAN, program : Nat,
      protocol : {NIL, "undef", "text", "i3bar", "error"},
      clicks   : BOOLEAN, clicked : BOOLEAN, started : BOOLEAN, comma : BOOLEAN,
      kept     : Nat,                              \* symbols of an array that is not complete
      blocks   : Seq(Addresses),
      block    : [Addresses -> {NIL} \union [of : Nat, array : Nat, place : Nat, name : BOOLEAN]],
      refs     : [Addresses -> Nat],
      leaked   : SUBSET Addresses,                 \* dropped with a status line that had failed
      stdin    : Seq({"[", "click", ",click"}),    \* what the program is told
      layer    : [Outputs -> {"none", "asked", "shown"}],
      hotspots : [Outputs -> Seq(Addresses)],
      sized    : [Outputs -> BOOLEAN],             \* output->height is known
      frame    : [Outputs -> BOOLEAN], dirty : [Outputs -> BOOLEAN],
      crash    : {"no", "no status line", "broken pipe"} ]

-----------------------------------------------------------------------------
(* Blocks and the places of the last frame.                                *)
Unref(t, a) ==
    [t EXCEPT !.refs[a] = @ - 1, !.block[a] = IF t.refs[a] = 1 THEN NIL ELSE @]
UnrefAll(t, q) == FoldLeft(Unref, t, q)
FreeHotspots(t, o) == [UnrefAll(t, t.hotspots[o]) EXCEPT !.hotspots[o] = <<>>]

(* Mutant: a place of the frame does not count as a holder.                *)
HotspotUncounted(t, o, a) == [t EXCEPT !.hotspots[o] = <<a>> \o @]
Hotspot(t, o, a) == [t EXCEPT !.hotspots[o] = <<a>> \o @, !.refs[a] = @ + 1]

(* render_frame: without a height there is no room for blocks yet; without *)
(* a width the size is asked for instead of drawing.                       *)
RenderStatusLine(t, o) ==
    IF t.protocol = "i3bar" /\ t.clicks /\ t.sized[o]
    THEN FoldLeft(LAMBDA u, a : Hotspot(u, o, a), t, t.blocks) ELSE t
RenderFrame(t, o) ==
    IF t.layer[o] = "none" THEN t
    ELSE LET u == RenderStatusLine(FreeHotspots(t, o), o)
         IN IF u.layer[o] = "shown" /\ u.sized[o] THEN [u EXCEPT !.frame[o] = TRUE] ELSE u

SetOutputDirty(t, o) == IF t.frame[o] THEN [t EXCEPT !.dirty[o] = TRUE] ELSE RenderFrame(t, o)
SetBarDirty(t) == FoldLeft(SetOutputDirty, t, SetToSeq(Outputs))

(* The blocks of the last array are dropped, and those of this one put in  *)
(* front of each other.                                                    *)
NewBlock(t, a, b) == [t EXCEPT !.block[a] = b, !.refs[a] = 1, !.blocks = <<a>> \o @]
FreeAddress(t) == CHOOSE a \in Addresses : t.refs[a] = 0 /\ \A b \in Addresses : t.refs[b] = 0 => a <= b
ParseJson(t, k) ==
    LET dropped == [UnrefAll(t, t.blocks) EXCEPT !.blocks = <<>>]
    IN FoldLeft(LAMBDA u, i : NewBlock(u, FreeAddress(u),
                    [of |-> t.program, array |-> k, place |-> i, name |-> t.script[k][2][i].name]),
                dropped, [i \in 1..Len(t.script[k][2]) |-> i])

StatusError(t) == [t EXCEPT !.protocol = "error"]

-----------------------------------------------------------------------------
(* i3bar_handle_readable.  The parser goes through what was kept and what  *)
(* is new, symbol by symbol, and remembers the last array that ended.      *)
Symbol(t, k) == t.script[k][1]
Step(p, x, k) ==
    LET wanted == IF ~p.started THEN "[" ELSE IF p.comma THEN "," ELSE "value"
    IN CASE p.bad -> p
         [] ~p.bad /\ x = " " -> [p EXCEPT !.kept = IF p.kept > 0 THEN @ + 1 ELSE 0]
         [] ~p.bad /\ x = wanted -> [p EXCEPT !.started = TRUE, !.comma = FALSE]
         [] ~p.bad /\ wanted = "value" /\ x = "part" -> [p EXCEPT !.kept = @ + 1]
         [] ~p.bad /\ wanted = "value" /\ x \in {"array", "object"} ->
              [p EXCEPT !.kept = 0, !.comma = TRUE, !.last = IF x = "array" THEN k ELSE @]
         [] OTHER -> [p EXCEPT !.bad = TRUE]

(* Mutant: the first array that ended is the one that is shown.            *)
ParsedFirst(t, from) ==
    FoldLeft(LAMBDA p, k : LET q == Step(p, Symbol(t, k), k) IN IF p.last = 0 THEN q ELSE [q EXCEPT !.last = p.last],
             [started |-> t.started, comma |-> t.comma, kept |-> 0, last |-> 0, bad |-> FALSE],
             [i \in 1..(t.put - from) |-> from + i])
Parsed(t, from) ==
    FoldLeft(LAMBDA p, k : Step(p, Symbol(t, k), k),
             [started |-> t.started, comma |-> t.comma, kept |-> 0, last |-> 0, bad |-> FALSE],
             [i \in 1..(t.put - from) |-> from + i])

I3barHandleReadable(t, from) ==
    LET p == Parsed(t, from - t.kept)
        u == [t EXCEPT !.got = t.put, !.started = p.started, !.comma = p.comma, !.kept = p.kept]
    IN CASE p.bad -> SetBarDirty(StatusError(u))
         [] ~p.bad /\ p.last # 0 -> SetBarDirty(ParseJson(u, p.last))
         [] OTHER -> u

(* status_handle_readable: the header has to come whole and at once, or    *)
(* everything is text.                                                     *)
StatusHandleReadable(t) ==
    CASE t.protocol = "i3bar" -> I3barHandleReadable(t, t.got)
      [] t.protocol = "text" -> SetBarDirty([t EXCEPT !.got = t.put])
      [] t.protocol = "undef" /\ Symbol(t, 1) \in {"header", "clicks"} ->
           LET c == Symbol(t, 1) = "clicks"
           IN I3barHandleReadable([t EXCEPT !.protocol = "i3bar", !.clicks = c,
                                            !.stdin = IF c THEN <<"[">> ELSE @], 1)
      [] OTHER -> SetBarDirty([t EXCEPT !.protocol = "text", !.got = t.put])

StatusLineInit(t, p) ==
    [t EXCEPT !.script = p, !.put = 0, !.got = 0, !.runs = TRUE, !.program = @ + 1,
              !.protocol = "undef", !.clicks = FALSE, !.clicked = FALSE, !.started = FALSE,
              !.comma = FALSE, !.kept = 0, !.blocks = <<>>, !.stdin = <<>>]
(* Only a status line that works gives its blocks back.                    *)
StatusLineFree(t) ==
    LET u == IF t.protocol = "i3bar" THEN UnrefAll(t, t.blocks)
             ELSE [t EXCEPT !.leaked = @ \union ToSet(t.blocks)]
    IN [u EXCEPT !.blocks = <<>>, !.runs = FALSE, !.protocol = NIL, !.stdin = <<>>]

-----------------------------------------------------------------------------
On == s.crash = "no"

Init ==
    \E p \in Scripts :
      s = [ script |-> p, put |-> 0, got |-> 0, runs |-> TRUE, program |-> 1, protocol |-> "undef",
            clicks |-> FALSE, clicked |-> FALSE, started |-> FALSE, comma |-> FALSE, kept |-> 0,
            blocks |-> <<>>, block |-> [a \in Addresses |-> NIL], refs |-> [a \in Addresses |-> 0],
            leaked |-> {}, stdin |-> <<>>, layer |-> [o \in Outputs |-> "none"],
            hotspots |-> [o \in Outputs |-> <<>>], sized |-> [o \in Outputs |-> FALSE],
            frame |-> [o \in Outputs |-> FALSE], dirty |-> [o \in Outputs |-> FALSE], crash |-> "no" ]

(* The program. *)
Write ==
    /\ On /\ s.runs /\ s.protocol # "error" /\ s.put < Len(s.script)
    /\ s' = [s EXCEPT !.put = @ + 1]
Exit == On /\ s.runs /\ s.protocol # "error" /\ s' = [s EXCEPT !.runs = FALSE]

(* status_in. *)
StatusIn ==
    /\ On /\ s.protocol \notin {NIL, "error"}
    /\ IF ~s.runs THEN s' = SetBarDirty(StatusError(s))
       ELSE s.got < s.put /\ s' = StatusHandleReadable(s)

(* handle_barconfig_update with another command, or none.                  *)
CommandChanged ==
    /\ On /\ s.program <= MaxRestarts
    /\ \E p \in Scripts \union {<<>>} :
         s' = LET t == IF s.protocol = NIL THEN s ELSE StatusLineFree(s)
              IN SetBarDirty(IF p = <<>> THEN t ELSE StatusLineInit(t, p))

(* add_layer_surface, layer_surface_configure, destroy_layer_surface,      *)
(* output_frame_handle_done and swaybar_output_free.                       *)
Added(o) == On /\ s.layer[o] = "none" /\ s' = SetBarDirty([s EXCEPT !.layer[o] = "asked"])
Configured(o) ==
    On /\ s.layer[o] = "asked" /\ s' = SetOutputDirty([s EXCEPT !.layer[o] = "shown", !.sized[o] = TRUE], o)
Hidden(o) ==
    On /\ s.layer[o] # "none" /\ s' = SetBarDirty([s EXCEPT !.layer[o] = "none", !.frame[o] = FALSE])
FrameDone(o) ==
    /\ On /\ s.frame[o]
    /\ LET t == [s EXCEPT !.frame[o] = FALSE]
       IN s' = IF t.dirty[o] THEN [RenderFrame(t, o) EXCEPT !.dirty[o] = FALSE] ELSE t
OutputFree(o) ==
    /\ On /\ (s.layer[o] # "none" \/ s.sized[o])
    /\ s' = [FreeHotspots(s, o) EXCEPT !.layer[o] = "none", !.sized[o] = FALSE, !.frame[o] = FALSE,
                                       !.dirty[o] = FALSE]

(* i3bar_block_send_click: a block without a name, and a program that does *)
(* not ask, leave the button to others; the program hears only of presses. *)
Click(o) ==
    /\ On /\ s.layer[o] = "shown" /\ Len(s.stdin) <= MaxClicks
    /\ \E a \in ToSet(s.hotspots[o]) :
         /\ s.block[a].name
         /\ CASE s.protocol = NIL -> s' = [s EXCEPT !.crash = "no status line"]
              [] s.protocol # NIL /\ s.clicks /\ s.protocol = "error" ->     \* the descriptor is closed
                   s' = [StatusError(s) EXCEPT !.clicked = TRUE]
              [] s.protocol # NIL /\ s.clicks /\ s.protocol # "error" /\ ~s.runs ->
                   s' = [s EXCEPT !.crash = "broken pipe"]
              [] s.protocol # NIL /\ s.clicks /\ s.protocol # "error" /\ s.runs ->
                   \/ s' = [s EXCEPT !.stdin = Append(@, IF s.clicked THEN ",click" ELSE "click"),
                                     !.clicked = TRUE]
                   \/ s' = [StatusError(s) EXCEPT !.clicked = TRUE]          \* the pipe is full
              [] OTHER -> FALSE

Next ==
    \/ Write \/ Exit \/ StatusIn \/ CommandChanged
    \/ \E o \in Outputs : Added(o) \/ Configured(o) \/ Hidden(o) \/ FrameDone(o) \/ OutputFree(o) \/ Click(o)

-----------------------------------------------------------------------------
(* A block lives exactly as long as the list or a place of a frame holds   *)
(* it, however arrays, frames and outputs come and go                      *)
(* (i3bar_block_unref, free_hotspots).                                     *)
Holders(a) ==
    Cardinality({k \in DOMAIN s.blocks : s.blocks[k] = a})
    + Cardinality({<<o, k>> \in Outputs \X (1..Len(s.blocks) + 4) : k \in DOMAIN s.hotspots[o] /\ s.hotspots[o][k] = a})
BlocksOwned ==
    \A a \in Addresses :
      /\ s.refs[a] = Holders(a) + (IF a \in s.leaked THEN 1 ELSE 0)
      /\ (s.block[a] = NIL) = (s.refs[a] = 0)

(* The list is that of the last array that has come completely, whatever   *)
(* the pieces were, and the places of a frame that is not to be redone are *)
(* those of the list (i3bar_handle_readable, set_output_dirty).            *)
LastArray == {k \in 1..s.got : Symbol(s, k) = "array" /\ \A l \in k+1..s.got : Symbol(s, l) # "array"}
ShowsTheLast ==
    s.protocol = "i3bar" =>
      /\ \A k \in LastArray : [i \in DOMAIN s.blocks |-> s.block[s.blocks[i]]]
                               = Reverse([i \in 1..Len(s.script[k][2]) |->
                                    [of |-> s.program, array |-> k, place |-> i, name |-> s.script[k][2][i].name]])
      /\ LastArray = {} => s.blocks = <<>>
      /\ \A o \in Outputs : s.layer[o] # "none" /\ s.sized[o] /\ ~(s.frame[o] /\ s.dirty[o]) =>
            s.hotspots[o] = IF s.clicks THEN Reverse(s.blocks) ELSE <<>>

(* What the program is told is an array: opened once, then clicks with     *)
(* commas between them, and only if it asked (i3bar_block_send_click).     *)
ToldAnArray ==
    /\ s.stdin # <<>> => s.stdin[1] = "[" /\ s.clicks
    /\ \A k \in DOMAIN s.stdin : k > 1 => s.stdin[k] = IF k = 2 THEN "click" ELSE ",click"

StatusShown == BlocksOwned /\ ShowsTheLast /\ ToldAnArray
=============================================================================
