------------------------------ MODULE Columns -------------------------------
(***************************************************************************)
(* The widths of the columns of a workspace (sway/tree/viewport.c, and     *)
(* what sizes columns in sway/tree/workspace.c and sway/commands/):        *)
(* columns share the width of the workspace, down to the minimum widths of *)
(* their windows and of the configuration; what one gains others lose,     *)
(* those farthest from the focus first, and columns that cannot fit any    *)
(* more are merged.                                                        *)
(*                                                                         *)
(* Widths are whole pixels but inside arranging, where doubles are taken   *)
(* as sixtieths of a pixel.  Positions in the list count from 0, as in the *)
(* program.  Heights, borders and outer gaps are left out, and a workspace *)
(* that is full has fewer than the 32 columns a scan can hold.             *)
(***************************************************************************)
EXTENDS Integers, Sequences, SequencesExt, FiniteSets, FiniteSetsExt

CONSTANTS Windows, Widths, Gaps,
          Limits,              \* least and greatest widths a window may ask for, 0 for none
          DefaultPercent, MinPercent,
          Deltas, NIL

ColumnsAssumption ==
    /\ NIL \notin Windows /\ Widths \union Gaps \subseteq Nat /\ Deltas \subseteq Int
    /\ \A w \in Windows : Limits[w] \subseteq Nat \X Nat /\ <<0, 0>> \in Limits[w]
    /\ {DefaultPercent, MinPercent} \subseteq 1 .. 100
    /\ \A x \in Widths, g \in Gaps, percent \in {DefaultPercent, MinPercent} :
         g < x /\ ((x - g) * percent) % 100 = 0

VARIABLE s

States ==
    [ cols   : Seq([wins : Seq(Windows), width : Nat]),
      limits : [Windows -> Nat \X Nat],
      focus  : Windows \union {NIL},
      at     : Int,                  \* focused_column_idx, as of the last focus
      width  : Widths,
      gaps   : Gaps,
      overran : BOOLEAN ]            \* what keeps a row within the workspace did not

Init ==
    \E x \in Widths, g \in Gaps :
      s = [ cols |-> << >>, limits |-> [w \in Windows |-> <<0, 0>>], focus |-> NIL, at |-> -1,
            width |-> x, gaps |-> g, overran |-> FALSE ]

Mx(x, y) == IF x > y THEN x ELSE y
Mn(x, y) == IF x < y THEN x ELSE y
Unlimited == 1000000
Listed(f) == << >> \o f
SumTo(f, n) == LET sum[i \in 0 .. n] == IF i = 0 THEN 0 ELSE sum[i - 1] + f[i] IN sum[n]

Count(t) == Len(t.cols)
Indices(t) == 0 .. Len(t.cols) - 1
At(t, i) == t.cols[i + 1]
Mapped(t) == UNION {Range(t.cols[i].wins) : i \in DOMAIN t.cols}
ColumnOf(t, w) == CHOOSE i \in Indices(t) : w \in Range(At(t, i).wins)
IndexOfFocus(t) == IF t.focus = NIL THEN -1 ELSE ColumnOf(t, t.focus)
WidthSum(t, columns) ==
    SumTo([i \in DOMAIN t.cols |-> IF i - 1 \in columns THEN t.cols[i].width ELSE 0], Len(t.cols))

(* container_get_size_constraints. *)
LeastOf(t, wins) == IF wins = {} THEN 0 ELSE Max({t.limits[w][1] : w \in wins})
GreatestOf(t, wins) ==
    LET given == {t.limits[w][2] : w \in wins} \ {0} IN IF given = {} THEN Unlimited ELSE Min(given)

(* workspace_width_fraction. *)
Fraction(t, percent) ==
    IF percent = 100 THEN t.width ELSE ((t.width - t.gaps) * percent) \div 100

(* tiled_clamp_width_min and container_clamp_tiled_width; unit is a pixel. *)
Floor(t, wins) == Mx(LeastOf(t, wins), Fraction(t, MinPercent))
ClampUnits(t, wins, desired, available, unit) ==
    Mx(Floor(t, wins) * unit, Mn(desired, Mn(available, GreatestOf(t, wins)) * unit))

Clamp(t, i, desired) == ClampUnits(t, Range(At(t, i).wins), desired, t.width, 1)

-----------------------------------------------------------------------------
Unit == 60
Half == 30

(* Growing columns until the row is full, in shares of their widths; done  *)
(* has the indices of columns that cannot grow any more.                   *)
RECURSIVE GrowStep(_)
GrowStep(g) ==
    LET open == (DOMAIN g.widths) \ g.done
        room(i) == Mx(0, g.most[i] - g.widths[i])
        base == SumTo([i \in DOMAIN g.widths |-> IF i \in open THEN g.widths[i] ELSE 0], Len(g.widths))
        full == {i \in open : room(i) <= Half}
        share(i) == IF base > 0 THEN (g.spare * g.widths[i]) \div base
                    ELSE g.spare \div Len(g.widths)
        grown[n \in 0 .. Len(g.widths)] ==
            IF n = 0 THEN [widths |-> g.widths, taken |-> 0]
            ELSE LET r == grown[n - 1]
                     add == Mn(Mn(share(n), room(n)), g.spare - r.taken)
                 IN IF n \notin open \ full \/ g.spare - r.taken <= Half THEN r
                    ELSE [widths |-> [r.widths EXCEPT ![n] = @ + add], taken |-> r.taken + add]
        r == grown[Len(g.widths)]
    IN IF g.spare <= Half \/ 
            SumTo([i \in DOMAIN g.widths |-> IF i \in open THEN room(i) ELSE 0], Len(g.widths)) <= Half THEN g.widths
       ELSE IF r.taken <= Half THEN r.widths
       ELSE GrowStep([g EXCEPT !.widths = r.widths, !.spare = @ - r.taken, !.done = @ \union full])

(* workspace_arrange_columns: clamp, shrink or grow in proportion, and put *)
(* the edges on whole pixels.                                              *)
ArrangeFrom(t, desired) ==
    LET n == Count(t)
        total == Mx(0, t.width - t.gaps * (n - 1))
        clamped == Listed([i \in 1 .. n |->
                      ClampUnits(t, Range(t.cols[i].wins), desired[i], total, Unit)])
        sum == SumTo(clamped, n)
        most == Listed([i \in 1 .. n |-> GreatestOf(t, Range(t.cols[i].wins)) * Unit])
        w == IF sum > total * Unit
               THEN Listed([i \in 1 .. n |-> ClampUnits(t, Range(t.cols[i].wins),
                                         (clamped[i] * total * Unit) \div sum, total, Unit)])
             ELSE IF sum < total * Unit - Half
               THEN GrowStep([widths |-> clamped, spare |-> total * Unit - sum, done |-> {}, most |-> most])
             ELSE clamped
        edge == Listed([i \in 1 .. n |-> (SumTo(w, i) + t.gaps * (i - 1) * Unit + Half) \div Unit])
        placed(i) == edge[i] - (IF i = 1 THEN 0 ELSE edge[i - 1] + t.gaps)
    IN [t EXCEPT !.cols = Listed([i \in 1 .. n |-> [t.cols[i] EXCEPT !.width = placed(i)]])]
Arrange(t) ==
    IF t.cols = << >> THEN t
    ELSE ArrangeFrom(t, [i \in 1 .. Count(t) |-> t.cols[i].width * Unit])

-----------------------------------------------------------------------------
SetWidth(t, i, x) == [t EXCEPT !.cols[i + 1].width = x]

(* viewport_absorb_farthest: remaining > 0 is to be taken from columns,    *)
(* remaining < 0 to be given to them.                                      *)
RECURSIVE Absorb(_)
Absorb(a) ==
    IF a.remaining = 0 \/ a.candidates = {} THEN a
    ELSE LET far(i) == IF i > a.around THEN i - a.around ELSE a.around - i
             i == CHOOSE x \in a.candidates : \A y \in a.candidates \ {x} :
                    far(x) > far(y) \/ (far(x) = far(y) /\ x > y)
             new == Clamp(a.t, i, At(a.t, i).width - a.remaining)
         IN Absorb([a EXCEPT !.t = SetWidth(a.t, i, new), !.candidates = @ \ {i},
                             !.remaining = @ - (At(a.t, i).width - new)])

(* workspace_fit_new_column: the width of a column of these windows beside *)
(* the others, which make room for it.                                     *)
FitNewColumn(t, wins, columns, idx) ==
    LET occupied == WidthSum(t, columns) + t.gaps * Mx(0, Cardinality(columns) - 1)
        default == Mx(Fraction(t, DefaultPercent), LeastOf(t, wins))
        least == Mx(Fraction(t, MinPercent), LeastOf(t, wins))
        near == Mx(0, IF t.at >= 0 THEN t.at ELSE idx - 1)
        around == IF near >= Count(t) THEN Mx(0, Count(t) - 1) ELSE near
        room == Mx(0, t.width - occupied - t.gaps)
        over == occupied + t.gaps + default - t.width
        a == Absorb([t |-> t, candidates |-> columns, around |-> around, remaining |-> over])
    IN IF room >= default THEN [t |-> t, width |-> default]
       ELSE IF room >= least THEN [t |-> t, width |-> room]
       ELSE IF over <= 0 THEN [t |-> t, width |-> default]
       ELSE [t |-> a.t, width |-> IF a.remaining > 0 THEN Mx(least, default - a.remaining) ELSE default]

(* viewport_grow_to_fill, with a width that column i left. *)
Grown(t, i, give) ==
    LET x == Mn(Mx(0, Fraction(t, DefaultPercent) - At(t, i).width), give)
    IN IF x > 1 THEN x ELSE 0
GrowToFill(t, i, freed) ==
    LET give == Mn(freed + t.gaps, t.width)
        fill[k \in (i - 1) .. Count(t)] ==      \* after the columns before k
            IF k = i - 1 THEN [t |-> t, rest |-> give]
            ELSE LET r == fill[k - 1]
                     x == IF k - 1 < 0 \/ r.rest <= 1 THEN 0 ELSE Grown(r.t, k - 1, r.rest)
                 IN [t |-> IF x = 0 THEN r.t ELSE SetWidth(r.t, k - 1, At(r.t, k - 1).width + x),
                     rest |-> r.rest - x]
        r == fill[Count(t)]
        small == CHOOSE k \in Indices(t) : \A j \in Indices(t) :
                   At(r.t, k).width < At(r.t, j).width \/ (At(r.t, k).width = At(r.t, j).width /\ k <= j)
    IN IF Count(t) = 0 \/ freed <= 1 THEN t
       ELSE IF r.rest > 1 THEN SetWidth(r.t, small, At(r.t, small).width + r.rest) ELSE r.t

(* viewport_grow_evenly, before the columns are arranged. *)
GrowEvenly(t, freed) ==
    [i \in 1 .. Count(t) |->
       IF freed <= 1 THEN t.cols[i].width * Unit
       ELSE Mn(t.cols[i].width * Unit + (freed * Unit) \div Count(t), t.width * Unit)]

(* workspace_fix_overflow.  The last column is merged into the one before  *)
(* its neighbour, or into its neighbour.                                   *)
Row(t) == WidthSum(t, Indices(t)) + t.gaps * (Count(t) - 1)
LeastRow(t) ==
    SumTo([i \in DOMAIN t.cols |-> Floor(t, Range(t.cols[i].wins))], Count(t)) + t.gaps * (Count(t) - 1)
Merged(t) ==
    LET n == Count(t)
        dst == IF n >= 3 THEN n - 2 ELSE n - 1
    IN [t EXCEPT !.cols = Front([@ EXCEPT ![dst].wins = @ \o t.cols[n].wins])]
RECURSIVE Fitted(_)
(* Mutant: the gaps between the columns are forgotten.                     *)
FittedTight(t) ==
    IF Count(t) <= 1 \/ LeastRow(t) - t.gaps * (Count(t) - 1) <= t.width THEN t ELSE Merged(t)
Fitted(t) == IF Count(t) <= 1 \/ LeastRow(t) <= t.width THEN t ELSE Fitted(Merged(t))
FixOverflow(t) == Arrange(Fitted(t))

-----------------------------------------------------------------------------
(* Each of these ends in arrange_workspace. *)
Refocused(t, w) == LET u == [t EXCEPT !.focus = w] IN [u EXCEPT !.at = IndexOfFocus(u)]
Becomes(t) == s' = t

(* Opening, closing and resizing see to the room themselves: a row that    *)
(* fits into the workspace does so after them.                             *)
Keeps(t) == s' = [t EXCEPT !.overran = @ \/ (Row(s) <= s.width /\ Row(t) > s.width)]

(* view_map: workspace_add_tiling, to the right of the focused column. *)
Open(w, limit) ==
    /\ w \notin Mapped(s)
    /\ LET t == [s EXCEPT !.limits[w] = limit]
           i == IF s.focus = NIL THEN Count(s) ELSE IndexOfFocus(s) + 1
           before == [t EXCEPT !.cols = InsertAt(@, i + 1, [wins |-> <<w>>, width |-> 0])]
           fit == FitNewColumn(before, {w}, Indices(before) \ {i}, i)
       IN Keeps(Refocused(FixOverflow(SetWidth(fit.t, i, fit.width)), w))

(* view_unmap; column_remove when the column is left empty.  Another window *)
(* gets the focus, whether or not this one had it.                         *)
Close(w) ==
    /\ w \in Mapped(s)
    /\ LET i == ColumnOf(s, w)
           left == Remove(At(s, i).wins, w)
           gone == [s EXCEPT !.cols = IF left # << >> THEN [@ EXCEPT ![i + 1].wins = left] ELSE RemoveAt(@, i + 1),
                             !.focus = NIL, !.at = IF s.focus = w THEN -1 ELSE @,
                             !.limits[w] = <<0, 0>>]
           t == Arrange(IF left # << >> THEN gone ELSE GrowToFill(gone, i, At(s, i).width))
       IN \/ Mapped(t) = {} /\ Keeps(t)
          \/ \E v \in Mapped(t) : Keeps(Refocused(t, v))

Focus(w) == w \in Mapped(s) /\ Becomes(Refocused(s, w))

(* view_on_constraints_changed. *)
ConstraintsChanged(w, limit) ==
    /\ w \in Mapped(s) /\ Becomes(FixOverflow([s EXCEPT !.limits[w] = limit]))

(* tiled_resize_horizontal_px; side is -1 or 1 for an edge, or 0. *)
Resize(i, side, delta) ==
    /\ i \in Indices(s)
    /\ LET new == Clamp(s, i, At(s, i).width + delta)
           real == new - At(s, i).width
           around == IF s.at >= 0 THEN s.at ELSE i
           occupied == WidthSum(s, Indices(s)) + s.gaps * (Count(s) - 1)
           first == IF real < 0 THEN real ELSE Mx(0, occupied + real - s.width)
           t == SetWidth(s, i, new)
           others == (IF side = 0 THEN Indices(s) ELSE Indices(s) \intersect {i + side}) \ {i}
           a == Absorb([t |-> t, candidates |-> others, around |-> around, remaining |-> first])
           back == IF a.remaining > 0 THEN SetWidth(a.t, i, Clamp(a.t, i, new - a.remaining)) ELSE a.t
       IN real # 0 /\ Keeps(Arrange(back))

(* cmd_take and cmd_release, of column i. *)
Take(i) ==
    /\ i + 1 \in Indices(s)
    /\ LET t == [s EXCEPT !.cols = RemoveAt([@ EXCEPT ![i + 1].wins = @ \o At(s, i + 1).wins], i + 2)]
       IN Becomes(ArrangeFrom(t, GrowEvenly(t, At(s, i + 1).width)))
Release(i) ==
    /\ i \in Indices(s) /\ IndexOfFocus(s) = i /\ s.focus # Last(At(s, i).wins)
    /\ LET fit == FitNewColumn(s, {}, Indices(s), i + 1)
           wins == At(s, i).wins
           k == CHOOSE j \in DOMAIN wins : wins[j] = s.focus
           split == [fit.t EXCEPT !.cols =
                       InsertAt([@ EXCEPT ![i + 1].wins = SubSeq(wins, 1, k)], i + 2,
                                [wins |-> SubSeq(wins, k + 1, Len(wins)), width |-> fit.width])]
       IN Becomes(Arrange(split))

(* cmd_evenh. *)
Evenh ==
    /\ Count(s) >= 2
    /\ Becomes(ArrangeFrom(s, [i \in 1 .. Count(s) |->
                                 ((s.width - s.gaps * (Count(s) - 1)) * Unit) \div Count(s)]))

(* workspace_swap_columns: the widths stay where they are. *)
Swap(i, j) ==
    /\ {i, j} \subseteq Indices(s) /\ i # j
    /\ LET t == [s EXCEPT !.cols[i + 1].wins = At(s, j).wins, !.cols[j + 1].wins = At(s, i).wins]
       IN Becomes(Arrange(t))

(* workspace_insert_column of a window that is dropped beside column i, in *)
(* a column with the room that those on the left leave                     *)
(* (workspace_create_new_column_at).                                       *)
Drop(w, i) ==
    /\ w \in Mapped(s) /\ i \in 0 .. Count(s)
    /\ LET c == ColumnOf(s, w)
           left == Remove(At(s, c).wins, w)
           gone == [s EXCEPT !.cols = IF left # << >> THEN [@ EXCEPT ![c + 1].wins = left] ELSE RemoveAt(@, c + 1)]
           k == Mn(i, Count(gone))
           room == Mx(0, s.width - WidthSum(gone, {j \in Indices(gone) : j < i}) 
                            - s.gaps * Cardinality({j \in Indices(gone) : j < i}))
           wide == IF room >= Fraction(s, DefaultPercent) \/ room < Fraction(s, MinPercent)
                   THEN Fraction(s, DefaultPercent) ELSE room
           own == Mx(Floor(s, {w}), Mn(wide, GreatestOf(s, {w})))
       IN Becomes(Arrange([gone EXCEPT !.cols = InsertAt(@, k + 1, [wins |-> <<w>>, width |-> own])]))

(* The output, its usable area or the gaps change: arrange_output, and     *)
(* configure_gaps.                                                         *)
NewWidth(x, g) ==
    /\ <<x, g>> # <<s.width, s.gaps>>
    /\ Becomes(Arrange([s EXCEPT !.width = x, !.gaps = g]))

Next ==
    \/ \E w \in Windows : \E limit \in Limits[w] : Open(w, limit) \/ ConstraintsChanged(w, limit)
    \/ \E w \in Windows : Close(w) \/ Focus(w)
    \/ \E i \in Indices(s), side \in {-1, 0, 1}, delta \in Deltas : Resize(i, side, delta)
    \/ \E i \in Indices(s) : Take(i) \/ Release(i)
    \/ \E i, j \in Indices(s) : i < j /\ Swap(i, j)
    \/ \E w \in Windows, i \in 0 .. Count(s) : Drop(w, i)
    \/ Evenh
    \/ \E x \in Widths, g \in Gaps : NewWidth(x, g)

Spec == Init /\ [][Next]_s

-----------------------------------------------------------------------------
(* However windows come, go and change their minds, no column is narrower   *)
(* than its windows and the configuration demand; the row is as wide as the *)
(* workspace where no window limits it; where it fits, arranging it again  *)
(* changes nothing; and a row that fits still does after windows are       *)
(* opened, closed and resized (workspace_arrange_columns,                  *)
(* viewport_absorb_farthest, viewport_grow_to_fill, workspace_fix_overflow). *)
RowServesAll ==
    /\ s \in States
    /\ \A i \in Indices(s) : At(s, i).width >= Floor(s, Range(At(s, i).wins))
    /\ s.cols # << >> /\ (\A w \in Windows : s.limits[w][2] = 0) => Row(s) >= s.width
    /\ Row(s) <= s.width => Arrange(s) = s
    /\ ~ s.overran
=============================================================================
