---------------------------- MODULE Tree_proofs ----------------------------
(***************************************************************************)
(* Every output shows a workspace and no workspace is on an output that is *)
(* gone (OutputsServed of Tree), whatever is done to the windows meanwhile.*)
(***************************************************************************)
EXTENDS Tree, SequenceLemmas, FiniteSetTheorems

-----------------------------------------------------------------------------
(* Loops.                                                                  *)

Defines(g, f, x, n) == g = [i \in 0..n |-> IF i = 0 THEN x ELSE f[i][g[i - 1]]]

LEMMA RoundsExist ==
    ASSUME NEW f, NEW x, NEW n \in Nat
    PROVE  \E g : Defines(g, f, x, n)
<1> DEFINE T == {k \in Nat : ~ \E g : Defines(g, f, x, k)}
<1>1. SUFFICES ASSUME T # {} PROVE FALSE
  <2>1. n \notin T
    BY <1>1
  <2> QED
    BY <2>1
<1>2. PICK m \in T : \A k \in T : m <= k
  BY <1>1, LeastNatural
<1>3. CASE m = 0
  <2> DEFINE g == [i \in 0..0 |-> x]
  <2>1. Defines(g, f, x, 0)
    BY DEF Defines
  <2> QED
    BY <2>1, <1>2, <1>3
<1>4. CASE m # 0
  <2>1. m - 1 \in Nat /\ m - 1 \notin T
    <3>1. T \subseteq Nat /\ m \in T
      BY <1>2
    <3> HIDE DEF T
    <3> QED
      BY <3>1, <1>2, <1>4
  <2>2. PICK g : Defines(g, f, x, m - 1)
    BY <2>1
  <2> DEFINE h == [i \in 0..m |-> IF i < m THEN g[i] ELSE f[m][g[m - 1]]]
             e == [i \in 0..m |-> IF i = 0 THEN x ELSE f[i][h[i - 1]]]
  <2>3. \A i \in 0..m : h[i] = e[i]
    <3> SUFFICES ASSUME NEW i \in 0..m PROVE h[i] = e[i]
      OBVIOUS
    <3>1. CASE i = 0
      BY <1>2, <1>4, <2>2, <3>1 DEF Defines
    <3>2. CASE i # 0 /\ i < m
      <4>1. i \in 0..(m - 1) /\ i - 1 \in 0..m /\ i - 1 < m
        BY <1>2, <3>2
      <4>2. h[i - 1] = g[i - 1] /\ h[i] = g[i]
        BY <4>1, <3>2
      <4>3. g[i] = f[i][g[i - 1]]
        BY <2>2, <4>1, <3>2 DEF Defines
      <4> QED
        BY <4>2, <4>3, <3>2
    <3>3. CASE i # 0 /\ i = m
      <4>1. m - 1 \in 0..m /\ m - 1 < m
        BY <1>2, <3>3
      <4> QED
        BY <4>1, <3>3
    <3> QED
      BY <1>2, <3>1, <3>2, <3>3
  <2>4. h = e
    BY <2>3
  <2>5. Defines(h, f, x, m)
    BY <2>4 DEF Defines
  <2> QED
    BY <2>5, <1>2
<1> QED
  BY <1>3, <1>4

(* The states between the rounds.                                          *)
LEMMA RoundsSteps ==
    ASSUME NEW f, NEW x, NEW n \in Nat
    PROVE  \E g : /\ g[0] = x /\ g[n] = Rounds(f, x, n)
                  /\ \A i \in 1..n : g[i] = f[i][g[i - 1]]
<1> DEFINE C == CHOOSE g : g = [i \in 0..n |-> IF i = 0 THEN x ELSE f[i][g[i - 1]]]
<1>1. C = [i \in 0..n |-> IF i = 0 THEN x ELSE f[i][C[i - 1]]]
  <2>1. \E g : Defines(g, f, x, n)
    BY RoundsExist
  <2>2. \E g : g = [i \in 0..n |-> IF i = 0 THEN x ELSE f[i][g[i - 1]]]
    BY <2>1, Zenon DEF Defines
  <2> QED
    BY <2>2, Zenon
<1>2. Rounds(f, x, n) = C[n]
  BY DEF Rounds
<1> HIDE DEF C
<1>3. C[0] = x /\ \A i \in 1..n : C[i] = f[i][C[i - 1]]
  BY <1>1
<1> QED
  BY <1>2, <1>3

(* What holds at first, and after a round if it held before it.            *)
LEMMA RoundsKeep ==
    ASSUME NEW f, NEW x, NEW n \in Nat, NEW S, x \in S,
           \A y \in S, i \in 1..n : f[i][y] \in S
    PROVE  Rounds(f, x, n) \in S
<1>1. PICK g : /\ g[0] = x /\ g[n] = Rounds(f, x, n)
               /\ \A i \in 1..n : g[i] = f[i][g[i - 1]]
  BY RoundsSteps
<1> DEFINE T == {k \in 0..n : g[k] \notin S}
<1>2. SUFFICES ASSUME T # {} PROVE FALSE
  <2>1. n \notin T /\ n \in 0..n
    BY <1>2
  <2> QED
    BY <2>1, <1>1
<1>3. T \subseteq Nat
  OBVIOUS
<1>4. PICK k \in T : \A j \in T : k <= j
  <2> HIDE DEF T
  <2> QED
    BY <1>2, <1>3, LeastNatural
<1>5. k \in 1..n /\ k - 1 \in 0..n /\ ~(k <= k - 1)
  BY <1>1, <1>4
<1>6. g[k - 1] \in S
  BY <1>4, <1>5
<1> QED
  BY <1>1, <1>4, <1>5, <1>6

-----------------------------------------------------------------------------
(* Lists.                                                                  *)

(* What holds after so many rounds. *)
LEMMA RoundsReach ==
    ASSUME NEW f, NEW x, NEW n \in Nat, NEW S, x \in S[0],
           \A i \in 1..n : \A y \in S[i - 1] : f[i][y] \in S[i]
    PROVE  Rounds(f, x, n) \in S[n]
<1>1. PICK g : /\ g[0] = x /\ g[n] = Rounds(f, x, n)
               /\ \A i \in 1..n : g[i] = f[i][g[i - 1]]
  BY RoundsSteps
<1> DEFINE T == {k \in 0..n : g[k] \notin S[k]}
<1>2. SUFFICES ASSUME T # {} PROVE FALSE
  <2>1. n \notin T /\ n \in 0..n
    BY <1>2
  <2> QED
    BY <2>1, <1>1
<1>3. T \subseteq Nat
  OBVIOUS
<1>4. PICK k \in T : \A j \in T : k <= j
  <2> HIDE DEF T
  <2> QED
    BY <1>2, <1>3, LeastNatural
<1>5. k \in 1..n /\ k - 1 \in 0..n /\ ~(k <= k - 1)
  BY <1>1, <1>4
<1>6. g[k - 1] \in S[k - 1]
  BY <1>4, <1>5
<1> QED
  BY <1>1, <1>4, <1>5, <1>6

LEMMA InsertAtType ==
    ASSUME NEW S, NEW q \in Seq(S), NEW i \in 1..(Len(q) + 1), NEW e \in S
    PROVE  InsertAt(q, i, e) \in Seq(S)
<1>1. Len(q) \in Nat /\ i \in Int /\ i - 1 \in Int /\ Len(q) \in Int
  OBVIOUS
<1>2. SubSeq(q, 1, i - 1) \in Seq(S)
  <2>1. \A j \in 1..(i - 1) : q[j] \in S
    BY <1>1
  <2> QED
    BY <1>1, <2>1, SubSeqProperties
<1>3. SubSeq(q, i, Len(q)) \in Seq(S)
  <2>1. \A j \in i..Len(q) : q[j] \in S
    BY <1>1
  <2> QED
    BY <1>1, <2>1, SubSeqProperties
<1>4. <<e>> \in Seq(S)
  OBVIOUS
<1> QED
  BY <1>2, <1>3, <1>4, ConcatProperties DEF InsertAt

LEMMA IndexOfFirst ==
    ASSUME NEW S, NEW q \in Seq(S), NEW c
    PROVE  LET i == IndexOf(q, c)
           IN  \/ i = 0 /\ \A j \in 1..Len(q) : q[j] # c
               \/ i \in 1..Len(q) /\ q[i] = c
<1> DEFINE i == SelectInSeq(q, LAMBDA x : x = c)
           k == SelectInSeq(q, LAMBDA x : x \in {c})
<1>1. i = k
  BY DEF SelectInSeq
<1>2. \/ k = 0 /\ \A j \in 1..Len(q) : q[j] \notin {c}
      \/ k \in 1..Len(q) /\ q[k] \in {c} /\ \A j \in 1..(k-1) : q[j] \notin {c}
  BY SelectFirst
<1>3. IndexOf(q, c) = i
  BY DEF IndexOf
<1> HIDE DEF i, k
<1> QED
  BY <1>1, <1>2, <1>3

LEMMA IndexOfType ==
    ASSUME NEW S, NEW q \in Seq(S), NEW c
    PROVE  IndexOf(q, c) \in 0..Len(q)
<1>1. Len(q) \in Nat
  OBVIOUS
<1> QED
  BY <1>1, IndexOfFirst

LEMMA RemoveFirstType ==
    ASSUME NEW S, NEW q \in Seq(S), NEW c
    PROVE  RemoveFirst(q, c) \in Seq(S)
BY RemoveFirstShifts

-----------------------------------------------------------------------------
(* The minimize pools.  A window in the pool of a workspace on an output is *)
(* minimized, and in no other such pool; one that is minimized is in a pool *)
(* or in the scratchpad; and a pool goes before its workspace does.  X are  *)
(* windows that are minimized and not in a pool yet.                        *)
Stowed(t, X) ==
    /\ \A w \in Workspaces : t.on[w] # NIL => t.alive[w] = "live" /\ t.pool[w] \subseteq t.minimized \ X
    /\ \A w, x \in Workspaces : t.on[w] # NIL /\ t.on[x] # NIL /\ w # x => t.pool[w] \intersect t.pool[x] = {}
    /\ \A w \in Workspaces : t.alive[w] = "no" => t.pool[w] = {}
    /\ \A v \in t.minimized \ X : v \in t.scratch \/ \E w \in Workspaces : v \in t.pool[w]
(* Functions that keep them so, unless a window is lost on the way.         *)
Kept(t, u) == t.lost \subseteq u.lost /\ (u.lost = {} => \A X : Stowed(t, X) => Stowed(u, X))

-----------------------------------------------------------------------------
(* Which functions leave workspaces and outputs alone.                     *)
Same(t, u) ==
    /\ u.alive = t.alive /\ u.on = t.on /\ u.recent = t.recent /\ u.outs = t.outs
    /\ u.live \subseteq t.live /\ Kept(t, u)
(* Most leave the pools alone, too.                                         *)
Plain(t, u) ==
    /\ u.alive = t.alive /\ u.on = t.on /\ u.recent = t.recent /\ u.outs = t.outs
    /\ u.live \subseteq t.live /\ t.lost \subseteq u.lost
    /\ u.pool = t.pool /\ u.minimized = t.minimized /\ t.scratch \subseteq u.scratch

LEMMA PlainSame ==
    ASSUME NEW t, NEW u, Plain(t, u)
    PROVE  Same(t, u)
BY DEF Plain, Same, Kept, Stowed

LEMMA KeptTwice ==
    ASSUME NEW t, NEW u, NEW x, Kept(t, u), Kept(u, x)
    PROVE  Kept(t, x)
BY DEF Kept

(* Workspaces that are on an output go to another one. *)
LEMMA MovedKept ==
    ASSUME NEW t, NEW u, u.alive = t.alive, u.pool = t.pool, u.minimized = t.minimized,
           t.scratch \subseteq u.scratch, t.lost \subseteq u.lost,
           \A w \in Workspaces : u.on[w] # NIL => t.on[w] # NIL
    PROVE  Kept(t, u)
BY DEF Kept, Stowed

LEMMA SameTwice ==
    ASSUME NEW t, NEW u, NEW x, Same(t, u), Same(u, x)
    PROVE  Same(t, x)
BY DEF Same, Kept

LEMMA EndMouseOperationType ==
    ASSUME NEW t \in States, NEW c
    PROVE  LET u == EndMouseOperation(t, c) IN u \in States /\ Same(t, u)
<1>1. t.op \in Operations
  BY DEF States
<1>2. NoOperation \in Operations /\ [t.op EXCEPT !.on = NIL] \in Operations
  BY <1>1 DEF NoOperation, Operations
<1>3. \A x \in Operations : [t EXCEPT !.op = x] \in States /\ Same(t, [t EXCEPT !.op = x])
  <2>1. \A x \in Operations : [t EXCEPT !.op = x] \in States /\ Plain(t, [t EXCEPT !.op = x])
    BY DEF States, Plain
  <2> QED
    BY <2>1, PlainSame
<1>4. [t EXCEPT !.op.on = NIL] = [t EXCEPT !.op = [t.op EXCEPT !.on = NIL]]
  BY DEF States
<1> QED
  BY <1>2, <1>3, <1>4 DEF EndMouseOperation, Same, Kept

LEMMA WithinType ==
    ASSUME NEW t \in States, NEW c, NEW w \in Workspaces \union {NIL}
    PROVE  LET u == Within(t, c, w) IN u \in States /\ Same(t, u)
<1>1. Within(t, c, w) \in States /\ Plain(t, Within(t, c, w))
  BY DEF States, Plain, Within
<1> QED
  BY <1>1, PlainSame

LEMMA UnlistedType ==
    ASSUME NEW t \in States, NEW c \in Containers
    PROVE  LET u == Unlisted(t, c) IN u \in States /\ Same(t, u)
<1> DEFINE w == t.ws[c]
           p == t.parent[c]
<1>0. w \in Workspaces \union {NIL} /\ p \in Columns \union {NIL}
  BY DEF States
<1>1. CASE p # NIL
  <2>1. Unlisted(t, c) = [t EXCEPT !.kids[p] = RemoveFirst(@, c)]
    BY <1>1 DEF Unlisted
  <2>2. t.kids[p] \in Seq(Views)
    BY <1>0, <1>1 DEF States
  <2>3. RemoveFirst(t.kids[p], c) \in Seq(Views)
    BY <2>2, RemoveFirstType
  <2> DEFINE k == [t.kids EXCEPT ![p] = RemoveFirst(@, c)]
  <2>4. k \in [Columns -> Seq(Views)] /\ Unlisted(t, c) = [t EXCEPT !.kids = k]
    BY <2>1, <2>3 DEF States
  <2> HIDE DEF k
  <2>90. Unlisted(t, c) \in States /\ Plain(t, Unlisted(t, c))
    BY <2>4 DEF States, Plain
  <2> QED
    BY <2>90, PlainSame
<1>2. CASE p = NIL /\ w # NIL
  <2>1. Unlisted(t, c) = [t EXCEPT !.tiling[w] = RemoveFirst(@, c), !.floating[w] = @ \ {c}]
    BY <1>2 DEF Unlisted
  <2>2. t.tiling[w] \in Seq(Containers)
    BY <1>0, <1>2 DEF States
  <2>3. RemoveFirst(t.tiling[w], c) \in Seq(Containers)
    BY <2>2, RemoveFirstType
  <2> DEFINE k == [t.tiling EXCEPT ![w] = RemoveFirst(@, c)]
             f == [t.floating EXCEPT ![w] = @ \ {c}]
  <2>4. /\ k \in [Workspaces -> Seq(Containers)] /\ f \in [Workspaces -> SUBSET Views]
        /\ Unlisted(t, c) = [t EXCEPT !.tiling = k, !.floating = f]
    BY <2>1, <2>3 DEF States
  <2> HIDE DEF k, f
  <2>90. Unlisted(t, c) \in States /\ Plain(t, Unlisted(t, c))
    BY <2>4 DEF States, Plain
  <2> QED
    BY <2>90, PlainSame
<1>3. CASE p = NIL /\ w = NIL
  BY <1>3 DEF Unlisted, Same, Kept
<1> QED
  BY <1>1, <1>2, <1>3

LEMMA LeaveFullscreenType ==
    ASSUME NEW t \in States, NEW c \in Containers
    PROVE  LET u == LeaveFullscreen(t, c) IN u \in States /\ Same(t, u)
<1>1. LeaveFullscreen(t, c) \in States /\ Plain(t, LeaveFullscreen(t, c))
  BY DEF States, Plain, LeaveFullscreen
<1> QED
  BY <1>1, PlainSame

LEMMA DetachType ==
    ASSUME NEW t \in States, NEW c \in Containers
    PROVE  LET u == Detach(t, c) IN u \in States /\ Same(t, u)
<1> DEFINE a == LeaveFullscreen(t, c)
           b == Unlisted(a, c)
           d == [b EXCEPT !.parent[c] = NIL]
<1>1. b \in States /\ Same(t, b)
  BY LeaveFullscreenType, UnlistedType DEF Same, Kept
<1>2. d \in States /\ Same(b, d)
  <2> DEFINE k == [b.parent EXCEPT ![c] = NIL]
  <2>1. b \in States
    BY <1>1
  <2> HIDE DEF b
  <2>2. k \in [Containers -> Columns \union {NIL}] /\ d = [b EXCEPT !.parent = k]
    BY <2>1 DEF States
  <2> HIDE DEF k, d
  <2>3. d \in States /\ Plain(b, d)
    BY <2>1, <2>2 DEF States, Plain
  <2> QED
    BY <2>3, PlainSame
<1> HIDE DEF b
<1> HIDE DEF d
<1>3. Detach(t, c) = Within(d, c, NIL)
  BY DEF Detach, d, b, a
<1> QED
  BY <1>1, <1>2, <1>3, WithinType DEF Same, Kept

LEMMA SetModeType ==
    ASSUME NEW t \in States, NEW v \in Views, NEW m \in Modes
    PROVE  LET u == SetMode(t, v, m) IN u \in States /\ Same(t, u)
<1> DEFINE a == [t EXCEPT !.mode[v] = m]
<1>1. a \in States /\ Same(t, a)
  <2>1. a \in States /\ Plain(t, a)
    BY DEF States, Plain
  <2> QED
    BY <2>1, PlainSame
<1> HIDE DEF a
<1>2. SetMode(t, v, m) = EndMouseOperation(a, v)
  BY DEF SetMode, a
<1> QED
  BY <1>1, <1>2, EndMouseOperationType DEF Same, Kept

LEMMA FullscreenDisableType ==
    ASSUME NEW t \in States, NEW v \in Views
    PROVE  LET u == FullscreenDisable(t, v) IN u \in States /\ Same(t, u)
<1> DEFINE w == t.ws[v]
           a == IF t.mode[v] = "workspace"
                  THEN IF w = NIL THEN t ELSE [t EXCEPT !.fs[w] = NIL]
                  ELSE [t EXCEPT !.gfs = NIL]
<1>1. a \in States /\ Same(t, a)
  <2>0. w \in Workspaces \union {NIL}
    BY DEF States, Containers
  <2> HIDE DEF w
  <2>1. [t EXCEPT !.gfs = NIL] \in States /\ Plain(t, [t EXCEPT !.gfs = NIL])
    BY DEF States, Plain
  <2>2. w # NIL => [t EXCEPT !.fs[w] = NIL] \in States /\ Plain(t, [t EXCEPT !.fs[w] = NIL])
    BY <2>0 DEF States, Plain
  <2>3. t \in States /\ Plain(t, t)
    BY DEF Plain
  <2> QED
    BY <2>1, <2>2, <2>3, PlainSame
<1>2. FullscreenDisable(t, v) = SetMode(a, v, "none")
  BY DEF FullscreenDisable
<1> HIDE DEF a
<1>3. SetMode(a, v, "none") \in States /\ Same(a, SetMode(a, v, "none"))
  BY <1>1, SetModeType DEF Modes
<1> QED
  BY <1>1, <1>2, <1>3, SameTwice

LEMMA DisableIfType ==
    ASSUME NEW t \in States, NEW v \in Views \union {NIL}
    PROVE  LET u == DisableIf(t, v) IN u \in States /\ Same(t, u)
BY FullscreenDisableType DEF DisableIf, Same, Kept

GlobalIn(t, c) == {v \in ({c} \union KidsOf(t, c)) \intersect Views : t.mode[v] = "global"}
OverIn(t, c) == {v \in ({c} \union KidsOf(t, c)) \intersect Views : t.mode[v] = "workspace"}

LEMMA FullscreenReparentCases ==
    ASSUME NEW t, NEW c
    PROVE  LET v == CHOOSE x \in GlobalIn(t, c) : TRUE
               y == CHOOSE x \in OverIn(t, c) : TRUE
               w == t.ws[y]
               u == FullscreenReparent(t, c)
           IN  /\ GlobalIn(t, c) # {} => u = IF t.gfs = v THEN t ELSE [DisableIf(t, t.gfs) EXCEPT !.gfs = v]
               /\ GlobalIn(t, c) = {} /\ OverIn(t, c) # {}
                     => u = IF w = NIL \/ t.fs[w] = y THEN t ELSE [DisableIf(t, t.fs[w]) EXCEPT !.fs[w] = y]
               /\ GlobalIn(t, c) = {} /\ OverIn(t, c) = {} => u = t
BY Zenon DEF FullscreenReparent, GlobalIn, OverIn

LEMMA FullscreenReparentType ==
    ASSUME NEW t \in States, NEW c \in Containers
    PROVE  LET u == FullscreenReparent(t, c) IN u \in States /\ Same(t, u)
<1> DEFINE glob == GlobalIn(t, c)
           work == OverIn(t, c)
<1>4. glob \subseteq Views /\ work \subseteq Views
  BY DEF GlobalIn, OverIn
<1>1. CASE glob # {}
  <2> DEFINE v == CHOOSE x \in glob : TRUE
             a == DisableIf(t, t.gfs)
  <2>1. v \in Views
    BY <1>1, <1>4
  <2>2. FullscreenReparent(t, c) = IF t.gfs = v THEN t ELSE [a EXCEPT !.gfs = v]
    BY <1>1, FullscreenReparentCases
  <2>3. a \in States /\ Same(t, a)
    <3>1. t.gfs \in Views \union {NIL}
      BY DEF States
    <3> QED
      BY <3>1, DisableIfType
  <2> HIDE DEF v, a
  <2>4. [a EXCEPT !.gfs = v] \in States /\ Same(a, [a EXCEPT !.gfs = v])
    <3>1. [a EXCEPT !.gfs = v] \in States /\ Plain(a, [a EXCEPT !.gfs = v])
      BY <2>1, <2>3 DEF States, Plain
    <3> QED
      BY <3>1, PlainSame
  <2> QED
    BY <2>2, <2>3, <2>4 DEF Same, Kept
<1>2. CASE glob = {} /\ work # {}
  <2> DEFINE v == CHOOSE x \in work : TRUE
             w == t.ws[v]
             a == DisableIf(t, t.fs[w])
  <2>1. v \in Views /\ w \in Workspaces \union {NIL}
    <3>1. v \in Views
      BY <1>2, <1>4
    <3> HIDE DEF v
    <3> QED
      BY <3>1 DEF States, Containers
  <2>2. FullscreenReparent(t, c) = IF w = NIL \/ t.fs[w] = v THEN t ELSE [a EXCEPT !.fs[w] = v]
    BY <1>2, FullscreenReparentCases
  <2>3. CASE w = NIL
    BY <2>2, <2>3 DEF Same, Kept
  <2>4. CASE w # NIL
    <3>1. t.fs[w] \in Views \union {NIL}
      BY <2>1, <2>4 DEF States
    <3>2. a \in States /\ Same(t, a)
      BY <3>1, DisableIfType
    <3> HIDE DEF v, a, w
    <3>3. [a EXCEPT !.fs[w] = v] \in States /\ Same(a, [a EXCEPT !.fs[w] = v])
      <4>1. [a EXCEPT !.fs[w] = v] \in States /\ Plain(a, [a EXCEPT !.fs[w] = v])
        BY <2>1, <2>4, <3>2 DEF States, Plain
      <4> QED
        BY <4>1, PlainSame
    <3> QED
      BY <2>2, <3>2, <3>3 DEF Same, Kept
  <2> QED
    BY <2>3, <2>4
<1>3. CASE glob = {} /\ work = {}
  BY <1>3, FullscreenReparentCases DEF Same, Kept
<1> QED
  BY <1>1, <1>2, <1>3

LEMMA PlaceType ==
    ASSUME NEW t \in States, NEW c \in Containers, NEW w \in Workspaces \union {NIL}
    PROVE  LET u == Place(t, c, w) IN u \in States /\ Same(t, u)
BY WithinType, FullscreenReparentType DEF Place, Same, Kept

LEMMA DetachIfType ==
    ASSUME NEW t \in States, NEW c \in Containers
    PROVE  LET u == DetachIf(t, c) IN u \in States /\ Same(t, u)
BY DetachType DEF DetachIf, Same, Kept

LEMMA AddChildType ==
    ASSUME NEW t \in States, NEW p \in Columns, NEW v \in Views
    PROVE  LET u == AddChild(t, p, v) IN u \in States /\ Same(t, u)
<1> DEFINE a == DetachIf(t, v)
           b == [a EXCEPT !.kids[p] = Append(@, v), !.parent[v] = p]
<1>0. v \in Containers /\ p \in Containers
  BY DEF Containers
<1>1. a \in States /\ Same(t, a)
  BY <1>0, DetachIfType
<1>2. AddChild(t, p, v) = Place(b, v, a.ws[p])
  BY DEF AddChild
<1> HIDE DEF a
<1>3. b \in States /\ Same(a, b)
  <2>1. a.kids[p] \in Seq(Views)
    BY <1>1 DEF States
  <2>2. Append(a.kids[p], v) \in Seq(Views)
    BY <2>1
  <2> DEFINE k == [a.kids EXCEPT ![p] = Append(@, v)]
             r == [a.parent EXCEPT ![v] = p]
  <2>3. /\ k \in [Columns -> Seq(Views)] /\ r \in [Containers -> Columns \union {NIL}]
        /\ b = [a EXCEPT !.kids = k, !.parent = r]
    BY <1>0, <1>1, <2>2 DEF States
  <2> HIDE DEF k, r, b
  <2>90. b \in States /\ Plain(a, b)
    BY <1>1, <2>3 DEF States, Plain
  <2> QED
    BY <2>90, PlainSame
<1>4. a.ws[p] \in Workspaces \union {NIL}
  BY <1>0, <1>1 DEF States
<1> HIDE DEF b
<1> QED
  BY <1>0, <1>1, <1>2, <1>3, <1>4, PlaceType DEF Same, Kept

LEMMA AddSiblingType ==
    ASSUME NEW t \in States, NEW fixed \in Containers, NEW v \in Views
    PROVE  LET u == AddSibling(t, fixed, v) IN u \in States /\ Same(t, u)
<1> DEFINE a == DetachIf(t, v)
           p == a.parent[fixed]
           w == a.ws[fixed]
           b == IF p # NIL
                  THEN [a EXCEPT !.kids[p] = InsertAt(@, IndexOf(@, fixed) + 1, v)]
                ELSE IF Floats(a, fixed) THEN [a EXCEPT !.floating[w] = @ \union {v}]
                ELSE [a EXCEPT !.tiling[w] = InsertAt(@, IndexOf(@, fixed) + 1, v)]
           d == [b EXCEPT !.parent[v] = p]
<1>0. v \in Containers
  BY DEF Containers
<1>1. a \in States /\ Same(t, a)
  BY <1>0, DetachIfType
<1>2. AddSibling(t, fixed, v) = Place(d, v, w)
  BY DEF AddSibling
<1> HIDE DEF a
<1>3. p \in Columns \union {NIL} /\ w \in Workspaces \union {NIL}
  BY <1>1 DEF States
<1> HIDE DEF p, w
<1>4. b \in States /\ Same(a, b)
  <2>1. CASE p # NIL
    <3> DEFINE q == a.kids[p]
               n == InsertAt(q, IndexOf(q, fixed) + 1, v)
               k == [a.kids EXCEPT ![p] = n]
    <3>1. q \in Seq(Views)
      BY <1>1, <1>3, <2>1 DEF States
    <3>2. IndexOf(q, fixed) + 1 \in 1..(Len(q) + 1)
      <4> HIDE DEF q
      <4>1. IndexOf(q, fixed) \in 0..Len(q) /\ Len(q) \in Nat
        BY <3>1, IndexOfType
      <4> QED
        BY <4>1
    <3>3. n \in Seq(Views)
      <4> HIDE DEF q
      <4> QED
        BY <3>1, <3>2, InsertAtType
    <3>4. b = [a EXCEPT !.kids = k]
      BY <1>1, <2>1 DEF States
    <3> HIDE DEF n, b
    <3>5. k \in [Columns -> Seq(Views)]
      BY <1>1, <3>3 DEF States
    <3> HIDE DEF k
    <3>90. b \in States /\ Plain(a, b)
      BY <1>1, <3>4, <3>5 DEF States, Plain
    <3> QED
      BY <3>90, PlainSame
  <2>2. CASE p = NIL /\ Floats(a, fixed)
    <3>1. b = [a EXCEPT !.floating[w] = @ \union {v}]
      BY <2>2
    <3> DEFINE k == [a.floating EXCEPT ![w] = @ \union {v}]
    <3>2. w \in Workspaces
      BY <1>3, <2>2 DEF Floats, w
    <3>3. k \in [Workspaces -> SUBSET Views] /\ b = [a EXCEPT !.floating = k]
      BY <1>1, <3>1, <3>2 DEF States
    <3> HIDE DEF b, k
    <3>90. b \in States /\ Plain(a, b)
      BY <1>1, <3>3 DEF States, Plain
    <3> QED
      BY <3>90, PlainSame
  <2>3. CASE p = NIL /\ ~Floats(a, fixed)
    <3> DEFINE q == a.tiling[w]
               n == InsertAt(q, IndexOf(q, fixed) + 1, v)
               k == [a.tiling EXCEPT ![w] = n]
    <3>1. b = [a EXCEPT !.tiling = k]
      BY <1>1, <2>3 DEF States
    <3> HIDE DEF b
    <3>2. CASE w = NIL
      <4>1. w \notin Workspaces
        BY <3>2, TreeAssumption DEF TreeAssumption
      <4>2. k = a.tiling
        BY <1>1, <4>1 DEF States
      <4> HIDE DEF k
      <4>90. b \in States /\ Plain(a, b)
        BY <1>1, <3>1, <4>2 DEF States, Plain
      <4> QED
        BY <4>90, PlainSame
    <3>3. CASE w # NIL
      <4>1. q \in Seq(Containers)
        BY <1>1, <1>3, <3>3 DEF States
      <4>2. IndexOf(q, fixed) + 1 \in 1..(Len(q) + 1)
        <5> HIDE DEF q
        <5>1. IndexOf(q, fixed) \in 0..Len(q) /\ Len(q) \in Nat
          BY <4>1, IndexOfType
        <5> QED
          BY <5>1
      <4>3. n \in Seq(Containers)
        <5> HIDE DEF q
        <5> QED
          BY <1>0, <4>1, <4>2, InsertAtType
      <4> HIDE DEF n
      <4>4. k \in [Workspaces -> Seq(Containers)]
        BY <1>1, <4>3 DEF States
      <4> HIDE DEF k
      <4>90. b \in States /\ Plain(a, b)
        BY <1>1, <3>1, <4>4 DEF States, Plain
      <4> QED
        BY <4>90, PlainSame
    <3> QED
      BY <3>2, <3>3
  <2> HIDE DEF b
  <2> QED
    BY <2>1, <2>2, <2>3
<1> HIDE DEF b
<1>5. d \in States /\ Same(b, d)
  <2>1. d \in States /\ Plain(b, d)
    BY <1>0, <1>3, <1>4 DEF States, Plain
  <2> QED
    BY <2>1, PlainSame
<1> HIDE DEF d
<1> QED
  BY <1>0, <1>1, <1>2, <1>3, <1>4, <1>5, PlaceType DEF Same, Kept

LEMMA LowestIn ==
    ASSUME NEW S \in SUBSET Nat, S # {}
    PROVE  Lowest(S) \in S
<1>1. \E n \in S : \A m \in S : n <= m
  BY LeastNatural
<1> QED
  BY <1>1 DEF Lowest

LEMMA OwnerType ==
    ASSUME NEW t, NEW v
    PROVE  Owner(t, v) \in Workspaces \union {NIL}
<1> DEFINE own == {w \in Workspaces : t.alive[w] = "live" /\ t.on[w] # NIL /\ v \in t.pool[w]}
<1>1. own \in SUBSET Nat /\ own \subseteq Workspaces
  BY TreeAssumption DEF TreeAssumption
<1>2. Owner(t, v) = IF own = {} THEN NIL ELSE Lowest(own)
  BY DEF Owner
<1> HIDE DEF own
<1> QED
  BY <1>1, <1>2, LowestIn

Apart(t) ==
    /\ \A w \in Workspaces : t.on[w] # NIL => t.alive[w] = "live"
    /\ \A w, x \in Workspaces : t.on[w] # NIL /\ t.on[x] # NIL /\ w # x => t.pool[w] \intersect t.pool[x] = {}
(* v is no longer minimized, and in the pool of no workspace on an output. *)
Restored(t, u, v) ==
    /\ u.alive = t.alive /\ u.on = t.on /\ u.recent = t.recent /\ u.outs = t.outs /\ u.live = t.live
    /\ u.lost = t.lost /\ u.scratch = t.scratch /\ u.minimized = t.minimized \ {v}
    /\ \A w \in Workspaces : u.pool[w] = t.pool[w] \/ u.pool[w] = t.pool[w] \ {v}
    /\ Apart(t) => \A w \in Workspaces : t.on[w] # NIL => v \notin u.pool[w]

LEMMA PoolRemoveRestores ==
    ASSUME NEW t \in States, NEW v \in Views
    PROVE  LET u == PoolRemove(t, v) IN u \in States /\ Restored(t, u, v)
<1> DEFINE w == Owner(t, v)
           own == {x \in Workspaces : t.alive[x] = "live" /\ t.on[x] # NIL /\ v \in t.pool[x]}
           m == t.minimized \ {v}
           f == t.wasfloat \ {v}
           k == IF w = NIL THEN t.pool ELSE [t.pool EXCEPT ![w] = @ \ {v}]
           u == PoolRemove(t, v)
<1>1. w \in Workspaces \union {NIL} /\ w = IF own = {} THEN NIL ELSE Lowest(own)
  BY OwnerType DEF Owner
<1>2. own # {} => w \in own
  <2>1. own \in SUBSET Nat
    BY TreeAssumption DEF TreeAssumption
  <2> HIDE DEF own, w
  <2> QED
    BY <1>1, <2>1, LowestIn
<1> HIDE DEF w
<1>3. m \subseteq Views /\ f \subseteq Views /\ t.pool \in [Workspaces -> SUBSET Views]
  BY DEF States
<1>4. /\ k \in [Workspaces -> SUBSET Views]
      /\ \A x \in Workspaces : k[x] = IF x = w THEN t.pool[x] \ {v} ELSE t.pool[x]
  BY <1>1, <1>3, TreeAssumption DEF TreeAssumption
<1>5. u = [t EXCEPT !.minimized = m, !.wasfloat = f, !.pool = k]
  BY DEF PoolRemove, w, States
<1> HIDE DEF k, m, f, u
<1>6. /\ u \in States /\ u.alive = t.alive /\ u.on = t.on /\ u.recent = t.recent
      /\ u.outs = t.outs /\ u.live = t.live /\ u.lost = t.lost /\ u.scratch = t.scratch
      /\ u.minimized = m /\ u.pool = k
  BY <1>3, <1>4, <1>5 DEF States
<1>7. ASSUME Apart(t), NEW x \in Workspaces, t.on[x] # NIL
      PROVE  v \notin u.pool[x]
  <2>1. SUFFICES ASSUME v \in t.pool[x] PROVE x = w
    BY <1>4, <1>6
  <2>2. x \in own
    BY <1>7, <2>1 DEF Apart
  <2>3. w \in own
    BY <1>2, <2>2
  <2> QED
    BY <1>7, <2>2, <2>3 DEF Apart
<1> QED
  BY <1>4, <1>6, <1>7 DEF Restored, m, u

(* It may have been taken out of the scratchpad before. *)
LEMMA RestoredKept ==
    ASSUME NEW t, NEW h, NEW u, NEW v, Restored(h, u, v),
           h.alive = t.alive, h.on = t.on, h.pool = t.pool, h.minimized = t.minimized,
           h.lost = t.lost, t.scratch \ {v} \subseteq h.scratch
    PROVE  Kept(t, u)
<1>1. SUFFICES ASSUME NEW X, Stowed(t, X) PROVE Stowed(u, X)
  BY DEF Kept, Restored
<1>2. \A w \in Workspaces : t.on[w] # NIL => v \notin u.pool[w]
  BY <1>1 DEF Restored, Apart, Stowed
<1>3. \A w \in Workspaces : u.pool[w] = t.pool[w] \/ u.pool[w] = t.pool[w] \ {v}
  BY DEF Restored
<1>4. \A w \in Workspaces : u.on[w] # NIL => u.alive[w] = "live" /\ u.pool[w] \subseteq u.minimized \ X
  BY <1>1, <1>2, <1>3 DEF Stowed, Restored
<1>5. \A w, y \in Workspaces : u.on[w] # NIL /\ u.on[y] # NIL /\ w # y => u.pool[w] \intersect u.pool[y] = {}
  <2>1. \A w, y \in Workspaces : t.on[w] # NIL /\ t.on[y] # NIL /\ w # y => t.pool[w] \intersect t.pool[y] = {}
    BY <1>1 DEF Stowed
  <2>2. \A w \in Workspaces : u.pool[w] \subseteq t.pool[w]
    BY <1>3
  <2> QED
    BY <2>1, <2>2 DEF Restored
<1>6. \A w \in Workspaces : u.alive[w] = "no" => u.pool[w] = {}
  BY <1>1, <1>3 DEF Stowed, Restored
<1>7. ASSUME NEW y \in u.minimized \ X
      PROVE  y \in u.scratch \/ \E w \in Workspaces : y \in u.pool[w]
  <2>1. y \in t.minimized \ X /\ y # v
    BY <1>7 DEF Restored
  <2>2. y \in t.scratch \/ \E w \in Workspaces : y \in t.pool[w]
    BY <1>1, <2>1 DEF Stowed
  <2> QED
    BY <1>3, <2>1, <2>2 DEF Restored
<1> QED
  BY <1>4, <1>5, <1>6, <1>7 DEF Stowed

LEMMA PoolRemoveType ==
    ASSUME NEW t \in States, NEW v \in Views
    PROVE  LET u == PoolRemove(t, v) IN u \in States /\ Same(t, u)
<1> DEFINE u == PoolRemove(t, v)
<1>1. u \in States /\ Restored(t, u, v)
  BY PoolRemoveRestores
<1> HIDE DEF u
<1>2. t.scratch \ {v} \subseteq t.scratch
  OBVIOUS
<1>3. Kept(t, u)
  BY <1>1, <1>2, RestoredKept
<1> QED
  BY <1>1, <1>3 DEF Same, Restored, u

LEMMA UnparkType ==
    ASSUME NEW t \in States, NEW c \in Containers
    PROVE  LET u == Unpark(t, c) IN u \in States /\ Same(t, u)
<1>1. c \in t.minimized => c \in Views
  BY DEF States
<1> QED
  BY <1>1, PoolRemoveType DEF Unpark, Same, Kept

LEMMA ContainerBeginDestroyType ==
    ASSUME NEW t \in States, NEW c \in Containers
    PROVE  LET u == ContainerBeginDestroy(t, c) IN u \in States /\ Same(t, u)
<1> DEFINE m == IF c \in Views THEN t.mode[c] ELSE "none"
           a == IF m = "workspace" /\ t.ws[c] # NIL THEN [t EXCEPT !.fs[t.ws[c]] = NIL] ELSE t
           h == [a EXCEPT !.live = @ \ {c}, !.scratch = @ \ {c}]
           b == Unpark(h, c)
           k == [b EXCEPT !.op.stale = @ \/ b.op.far = c]
           e == EndMouseOperation(k, c)
           d == IF m = "global" THEN FullscreenDisable(e, c) ELSE e
<1>1. a \in States /\ Same(t, a)
  <2>0. t.ws[c] \in Workspaces \union {NIL}
    BY DEF States
  <2>1. t.ws[c] # NIL => [t EXCEPT !.fs[t.ws[c]] = NIL] \in States /\ Plain(t, [t EXCEPT !.fs[t.ws[c]] = NIL])
    BY <2>0 DEF States, Plain
  <2>2. Plain(t, t)
    BY DEF Plain
  <2> QED
    BY <2>1, <2>2, PlainSame
<1> HIDE DEF a
<1>2. /\ h \in States /\ h.alive = a.alive /\ h.on = a.on /\ h.recent = a.recent
      /\ h.outs = a.outs /\ h.live = a.live \ {c} /\ h.lost = a.lost
      /\ h.scratch = a.scratch \ {c} /\ h.minimized = a.minimized /\ h.pool = a.pool
  BY <1>1 DEF States
<1> HIDE DEF h
<1>3. b \in States /\ Same(a, b)
  <2>1. CASE c \in h.minimized
    <3>1. c \in Views /\ b = PoolRemove(h, c)
      BY <1>2, <2>1 DEF States, Unpark
    <3>2. b \in States /\ Restored(h, b, c)
      BY <1>2, <3>1, PoolRemoveRestores
    <3> HIDE DEF b
    <3>3. Kept(a, b)
      <4>1. a.scratch \ {c} \subseteq h.scratch
        BY <1>2
      <4> QED
        BY <1>2, <3>2, <4>1, RestoredKept
    <3> QED
      BY <1>2, <3>2, <3>3 DEF Same, Restored
  <2>2. CASE c \notin h.minimized
    <3>1. b = h
      BY <2>2 DEF Unpark
    <3>2. Kept(a, h)
      BY <1>2, <2>2 DEF Kept, Stowed
    <3> QED
      BY <1>2, <3>1, <3>2 DEF Same
  <2> QED
    BY <2>1, <2>2
<1> HIDE DEF b
<1>4. k \in States /\ Same(b, k)
  <2> DEFINE x == [b.op EXCEPT !.stale = @ \/ b.op.far = c]
  <2>1. b.op \in Operations
    BY <1>3 DEF States
  <2>2. x \in Operations
    BY <2>1 DEF Operations
  <2>3. k = [b EXCEPT !.op = x]
    BY <1>3 DEF States
  <2> HIDE DEF x, k
  <2>90. k \in States /\ Plain(b, k)
    BY <1>3, <2>2, <2>3 DEF States, Plain
  <2> QED
    BY <2>90, PlainSame
<1> HIDE DEF k
<1>5. e \in States /\ Same(k, e)
  BY <1>4, EndMouseOperationType
<1> HIDE DEF e
<1>6. d \in States /\ Same(e, d)
  <2>1. CASE m = "global"
    <3>1. c \in Views
      BY <2>1
    <3> QED
      BY <2>1, <3>1, <1>5, FullscreenDisableType
  <2>2. CASE m # "global"
    BY <2>2, <1>5 DEF Same, Kept
  <2> QED
    BY <2>1, <2>2
<1> HIDE DEF d
<1>7. ContainerBeginDestroy(t, c) = IF d.parent[c] # NIL \/ d.ws[c] # NIL THEN Detach(d, c) ELSE d
  BY DEF ContainerBeginDestroy, DetachLinked, d, e, k, b, h, a
<1>8. Detach(d, c) \in States /\ Same(d, Detach(d, c))
  BY <1>6, DetachType
<1>9. Same(t, d)
  BY <1>1, <1>3, <1>4, <1>5, <1>6 DEF Same, Kept
<1> QED
  BY <1>6, <1>7, <1>8, <1>9 DEF Same, Kept

-----------------------------------------------------------------------------
(* The workspaces.  N are the outputs that may be without one for now, and *)
(* E those that may have one although they are not there.                  *)
Home(t) == Range(t.outs) \union (IF t.outs = <<>> THEN {Fallback} ELSE {})
Served(t, E, N) ==
    /\ \A w \in Workspaces : t.on[w] # NIL <=> t.alive[w] = "live"
    /\ \A w \in Workspaces : t.alive[w] = "live" => w \in Range(t.recent)
    /\ \A w \in Workspaces : t.alive[w] = "live" => t.on[w] \in Home(t) \union E
    /\ \A o \in Range(t.outs) \ N : On(t, o) # {}
    /\ IsInjective(t.outs)

Sound(t) == t \in States /\ Served(t, {}, {})
Keeps(t, u) == Sound(u) /\ u.live \subseteq t.live /\ u.outs = t.outs /\ Kept(t, u)

LEMMA SameKeeps ==
    ASSUME NEW t, NEW u \in States, Sound(t), Same(t, u)
    PROVE  Keeps(t, u)
BY DEF Sound, Served, Same, On, Home, Keeps, Kept

LEMMA RangeSeq ==
    ASSUME NEW S, NEW q \in Seq(S)
    PROVE  /\ Range(q) \subseteq S /\ Range(q) = ToSet(q)
           /\ \A x : x \in Range(q) <=> \E i \in 1..Len(q) : q[i] = x
<1>1. DOMAIN q = 1..Len(q) /\ \A i \in 1..Len(q) : q[i] \in S
  OBVIOUS
<1> QED
  BY <1>1 DEF Range, ToSet

(* The workspace an output shows is on it.                                 *)
Remembered(t) == \A w \in Workspaces : t.alive[w] = "live" => w \in Range(t.recent)
LEMMA ActiveRemembered ==
    ASSUME NEW t \in States, Remembered(t), NEW o
    PROVE  IF On(t, o) = {} THEN Active(t, o) = NIL ELSE Active(t, o) \in On(t, o)
<1> DEFINE q == t.recent
           S == On(t, o)
           i == SelectInSeq(q, LAMBDA w : w \in S)
<1>1. q \in Seq(Workspaces)
  BY DEF States
<1>2. \/ i = 0 /\ \A j \in 1..Len(q) : q[j] \notin S
      \/ i \in 1..Len(q) /\ q[i] \in S /\ \A j \in 1..(i-1) : q[j] \notin S
  BY <1>1, SelectFirst
<1>3. Active(t, o) = IF S = {} THEN NIL ELSE q[i]
  BY DEF Active
<1>4. \A w \in S : \E j \in 1..Len(q) : q[j] = w
  <2>1. \A w \in S : w \in Range(q)
    BY DEF Remembered, On
  <2> QED
    BY <1>1, <2>1, RangeSeq
<1> HIDE DEF i, q, S
<1>5. CASE S = {}
  BY <1>3, <1>5 DEF S
<1>6. CASE S # {}
  BY <1>2, <1>3, <1>4, <1>6 DEF S
<1> QED
  BY <1>5, <1>6

LEMMA ActiveOn ==
    ASSUME NEW t \in States, NEW E, NEW N, Served(t, E, N), NEW o
    PROVE  IF On(t, o) = {} THEN Active(t, o) = NIL ELSE Active(t, o) \in On(t, o)
BY ActiveRemembered DEF Served, Remembered

LEMMA RemoveFirstOthers ==
    ASSUME NEW S, NEW q \in Seq(S), NEW n
    PROVE  /\ RemoveFirst(q, n) \in Seq(S)
           /\ \A x \in Range(q) : x # n => x \in Range(RemoveFirst(q, n))
           /\ Range(RemoveFirst(q, n)) \subseteq Range(q)
<1> DEFINE r == RemoveFirst(q, n)
<1>1. /\ r \in Seq(S)
      /\ n \notin ToSet(q) => r = q
      /\ n \in ToSet(q) =>
           \E i \in 1..Len(q) :
              /\ q[i] = n /\ Len(r) = Len(q) - 1
              /\ \A j \in 1..Len(r) : r[j] = IF j < i THEN q[j] ELSE q[j + 1]
  BY RemoveFirstShifts
<1> HIDE DEF r
<1>2. CASE n \notin ToSet(q)
  BY <1>1, <1>2 DEF r
<1>3. CASE n \in ToSet(q)
  <2>1. PICK i \in 1..Len(q) :
              /\ q[i] = n /\ Len(r) = Len(q) - 1
              /\ \A j \in 1..Len(r) : r[j] = IF j < i THEN q[j] ELSE q[j + 1]
    BY <1>1, <1>3
  <2>2. Len(q) \in Nat
    OBVIOUS
  <2>3. ASSUME NEW x \in Range(q), x # n PROVE x \in Range(r)
    <3>1. PICK k \in 1..Len(q) : q[k] = x
      BY RangeSeq
    <3> DEFINE j == IF k < i THEN k ELSE k - 1
    <3>2. j \in 1..Len(r) /\ r[j] = x
      BY <2>1, <2>2, <2>3, <3>1
    <3> QED
      BY <1>1, <3>2, RangeSeq
  <2>4. ASSUME NEW x \in Range(r) PROVE x \in Range(q)
    <3>1. PICK j \in 1..Len(r) : r[j] = x
      BY <1>1, RangeSeq
    <3> DEFINE k == IF j < i THEN j ELSE j + 1
    <3>2. k \in 1..Len(q) /\ q[k] = x
      BY <2>1, <2>2, <3>1
    <3> QED
      BY <3>2, RangeSeq
  <2> QED
    BY <1>1, <2>3, <2>4 DEF r
<1> QED
  BY <1>2, <1>3

LEMMA BeginDestroyFields ==
    ASSUME NEW t \in States, NEW w \in Workspaces
    PROVE  LET u == WorkspaceBeginDestroy(t, w)
           IN  /\ u \in States /\ u.outs = t.outs /\ u.live = t.live
               /\ u.on = [t.on EXCEPT ![w] = NIL]
               /\ u.alive[w] # "live"
               /\ \A x \in Workspaces : x # w => u.alive[x] = t.alive[x]
               /\ \A x \in Range(t.recent) : x # w => x \in Range(u.recent)
               /\ \A x \in Workspaces : t.alive[x] = "no" => u.alive[x] = "no"
               /\ Kept(t, u)
<1> DEFINE u == WorkspaceBeginDestroy(t, w)
           x == [t.op EXCEPT !.on = IF @ = w THEN NIL ELSE @]
           r == RemoveFirst(t.recent, w)
           p == [t.prio EXCEPT ![w] = <<>>]
           a == [t.alive EXCEPT ![w] = IF @ # "live" THEN @ ELSE IF t.pool[w] = {} THEN "no" ELSE "dying"]
           n == [t.on EXCEPT ![w] = NIL]
           k == IF t.alive[w] = "live" THEN t.crash ELSE "destroyed twice"
<1>1. x \in Operations
  <2>1. t.op \in Operations
    BY DEF States
  <2> QED
    BY <2>1 DEF Operations
<1>2. t.recent \in Seq(Workspaces)
  BY DEF States
<1>3. r \in Seq(Workspaces) /\ \A y \in Range(t.recent) : y # w => y \in Range(r)
  BY <1>2, RemoveFirstOthers
<1>4. /\ p \in [Workspaces -> Seq(Outputs \union {Fallback})]
      /\ n \in [Workspaces -> Outputs \union {Fallback, NIL}]
  <2>1. t.prio \in [Workspaces -> Seq(Outputs \union {Fallback})]
    BY DEF States
  <2>2. <<>> \in Seq(Outputs \union {Fallback})
    OBVIOUS
  <2>3. t.on \in [Workspaces -> Outputs \union {Fallback, NIL}]
    BY DEF States
  <2> QED
    BY <2>1, <2>2, <2>3
<1>5. /\ a \in [Workspaces -> {"no", "live", "dying"}] /\ a[w] # "live"
      /\ \A y \in Workspaces : (y # w => a[y] = t.alive[y]) /\ (t.alive[y] = "no" => a[y] = "no")
      /\ a[w] = "no" => t.alive[w] = "no" \/ t.pool[w] = {}
  BY DEF States
<1>6. u = [t EXCEPT !.alive = a, !.crash = k, !.on = n, !.prio = p, !.recent = r, !.op = x]
  BY DEF States, WorkspaceBeginDestroy
<1>7. k \in {"no", "no list of children", "list overrun", "no workspace", "dragged as tiled",
             "destroyed twice", "used after free"}
  BY DEF States
<1> HIDE DEF a, n, r, x, p, k
<1>8. u \in States
  <2> HIDE DEF u
  <2> QED
    BY <1>1, <1>3, <1>4, <1>5, <1>6, <1>7 DEF States
<1>9. /\ u.outs = t.outs /\ u.live = t.live /\ u.on = n /\ u.alive = a /\ u.recent = r
      /\ u.pool = t.pool /\ u.minimized = t.minimized /\ u.scratch = t.scratch /\ u.lost = t.lost
  <2> HIDE DEF u
  <2> QED
    BY <1>6 DEF States
<1> HIDE DEF u
<1>10. \A y \in Workspaces : n[y] = IF y = w THEN NIL ELSE t.on[y]
  BY DEF n, States
<1>11. Kept(t, u)
  <2>1. SUFFICES ASSUME NEW X, Stowed(t, X) PROVE Stowed(u, X)
    BY <1>9 DEF Kept
  <2> QED
    BY <1>5, <1>9, <1>10, <2>1 DEF Stowed
<1> QED
  BY <1>3, <1>5, <1>8, <1>9, <1>11 DEF u, n

(* workspace_consider_destroy: the workspace that goes is not the last one *)
(* of its output.                                                          *)
LEMMA ConsiderServed ==
    ASSUME NEW t \in States, NEW E, NEW N, Served(t, E, N), NEW w \in Workspaces
    PROVE  LET u == WorkspaceConsiderDestroy(t, w)
           IN  /\ u \in States /\ Served(u, E, N)
               /\ u.outs = t.outs /\ u.live = t.live
               /\ Free(t) \subseteq Free(u) /\ Kept(t, u)
               /\ \A o : o # NIL =>
                     /\ On(u, o) \subseteq On(t, o)
                     /\ t.on[w] # o => On(u, o) = On(t, o)
                     /\ On(t, o) # {} => On(u, o) # {}
<1> DEFINE u == WorkspaceBeginDestroy(t, w)
<1>1. CASE ~Considered(t, w)
  BY <1>1 DEF WorkspaceConsiderDestroy, Kept
<1>2. CASE Considered(t, w)
  <2>1. /\ u \in States /\ u.outs = t.outs /\ u.live = t.live
        /\ u.on = [t.on EXCEPT ![w] = NIL]
        /\ u.alive[w] # "live"
        /\ \A x \in Workspaces : x # w => u.alive[x] = t.alive[x]
        /\ \A x \in Range(t.recent) : x # w => x \in Range(u.recent)
        /\ \A x \in Workspaces : t.alive[x] = "no" => u.alive[x] = "no"
        /\ Kept(t, u)
    BY BeginDestroyFields
  <2>2. WorkspaceConsiderDestroy(t, w) = u
    BY <1>2 DEF WorkspaceConsiderDestroy
  <2> HIDE DEF u
  <2>3. t.on[w] # NIL => Active(t, t.on[w]) # w
    BY <1>2 DEF Considered
  <2>4. t.on \in [Workspaces -> Outputs \union {Fallback, NIL}]
    BY DEF States
  <2>5. \A x \in Workspaces : u.on[x] = IF x = w THEN NIL ELSE t.on[x]
    BY <2>1, <2>4
  <2>6. ASSUME NEW o, o # NIL
        PROVE  /\ On(u, o) = On(t, o) \ {w}
               /\ On(t, o) # {} => On(u, o) # {}
    <3>1. On(u, o) = On(t, o) \ {w}
      BY <2>1, <2>5 DEF On
    <3>2. CASE w \in On(t, o)
      <4>1. t.on[w] = o
        BY <3>2 DEF On
      <4>2. Active(t, o) \in On(t, o) /\ Active(t, o) # w
        BY <2>3, <2>6, <3>2, <4>1, ActiveOn
      <4> QED
        BY <3>1, <4>2
    <3>3. CASE w \notin On(t, o)
      BY <3>1, <3>3
    <3> QED
      BY <3>1, <3>2, <3>3
  <2>7. ASSUME NEW o, o # NIL, t.on[w] # o PROVE w \notin On(t, o)
    BY <2>7 DEF On
  <2>8. NIL \notin Range(t.outs)
    <3>1. t.outs \in Seq(Outputs)
      BY DEF States
    <3>2. Range(t.outs) \subseteq Outputs
      BY <3>1, RangeSeq
    <3> QED
      BY <3>2, TreeAssumption DEF TreeAssumption
  <2>9. Served(u, E, N)
    <3>1. \A x \in Workspaces : u.on[x] # NIL <=> u.alive[x] = "live"
      BY <2>1, <2>5 DEF Served
    <3>2. \A x \in Workspaces : u.alive[x] = "live" => x \in Range(u.recent)
      BY <2>1 DEF Served
    <3>3. \A x \in Workspaces : u.alive[x] = "live" => u.on[x] \in Home(u) \union E
      BY <2>1, <2>5 DEF Served, Home
    <3>4. \A o \in Range(u.outs) \ N : On(u, o) # {}
      BY <2>1, <2>6, <2>8 DEF Served
    <3> QED
      BY <2>1, <3>1, <3>2, <3>3, <3>4 DEF Served
  <2>10. Free(t) \subseteq Free(u)
    BY <2>1 DEF Free
  <2> QED
    BY <2>1, <2>2, <2>6, <2>7, <2>9, <2>10
<1> QED
  BY <1>1, <1>2

LEMMA ConsiderKeeps ==
    ASSUME NEW t, Sound(t), NEW w \in Workspaces
    PROVE  Keeps(t, WorkspaceConsiderDestroy(t, w))
BY ConsiderServed DEF Sound, Keeps

LEMMA RaiseFields ==
    ASSUME NEW t \in States, NEW w \in Workspaces
    PROVE  LET u == Raise(t, w)
           IN  /\ u \in States /\ u.alive = t.alive /\ u.on = t.on /\ u.outs = t.outs
               /\ u.live = t.live /\ u.ws = t.ws
               /\ Range(t.recent) \subseteq Range(u.recent) /\ w \in Range(u.recent)
               /\ Kept(t, u)
<1> DEFINE a == RemoveFirst(t.recent, w)
           r == <<w>> \o a
<1>1. t.recent \in Seq(Workspaces)
  BY DEF States
<1>2. /\ a \in Seq(Workspaces)
      /\ \A x \in Range(t.recent) : x # w => x \in Range(a)
  BY <1>1, RemoveFirstOthers
<1> HIDE DEF a
<1>3. /\ r \in Seq(Workspaces) /\ Len(r) = Len(a) + 1 /\ r[1] = w
      /\ \A i \in 1..Len(a) : r[i + 1] = a[i]
  BY <1>2
<1>4. w \in Range(r)
  <2>1. 1 \in 1..Len(r)
    BY <1>2, <1>3
  <2> QED
    BY <1>3, <2>1, RangeSeq
<1>5. \A x \in Range(a) : x \in Range(r)
  <2>1. ASSUME NEW x \in Range(a) PROVE x \in Range(r)
    <3>1. PICK i \in 1..Len(a) : a[i] = x
      BY <1>2, RangeSeq
    <3>2. i + 1 \in 1..Len(r) /\ r[i + 1] = x
      BY <1>2, <1>3, <3>1
    <3> QED
      BY <1>3, <3>2, RangeSeq
  <2> QED
    BY <2>1
<1>6. Raise(t, w) = [t EXCEPT !.recent = r]
  BY DEF Raise, a
<1>7. r \in Seq(Workspaces)
  BY <1>3
<1> HIDE DEF r
<1> DEFINE u == [t EXCEPT !.recent = r]
<1>8. /\ u \in States /\ u.alive = t.alive /\ u.on = t.on /\ u.outs = t.outs
      /\ u.live = t.live /\ u.ws = t.ws /\ u.recent = r
      /\ u.pool = t.pool /\ u.minimized = t.minimized /\ u.scratch = t.scratch /\ u.lost = t.lost
  BY <1>7 DEF States
<1> HIDE DEF u
<1>9. \A x \in Range(t.recent) : x \in Range(r)
  BY <1>2, <1>4, <1>5
<1>10. Kept(t, u)
  BY <1>8 DEF Kept, Stowed
<1> QED
  BY <1>4, <1>6, <1>8, <1>9, <1>10 DEF u

LEMMA RaiseServed ==
    ASSUME NEW t \in States, NEW E, NEW N, Served(t, E, N), NEW w \in Workspaces
    PROVE  LET u == Raise(t, w)
           IN  u \in States /\ Served(u, E, N) /\ Kept(t, u)
<1> DEFINE u == Raise(t, w)
<1>1. /\ u \in States /\ u.alive = t.alive /\ u.on = t.on /\ u.outs = t.outs
      /\ Range(t.recent) \subseteq Range(u.recent) /\ Kept(t, u)
  BY RaiseFields
<1> HIDE DEF u
<1>2. \A x \in Workspaces : u.alive[x] = "live" => x \in Range(u.recent)
  BY <1>1 DEF Served
<1>3. (\A o : On(u, o) = On(t, o)) /\ Home(u) = Home(t)
  BY <1>1 DEF On, Home
<1>4. Served(u, E, N)
  BY <1>1, <1>2, <1>3 DEF Served
<1> QED
  BY <1>1, <1>4 DEF u

(* Focus moves to a node of w. *)
LEMMA FocusOnKeeps ==
    ASSUME NEW t, Sound(t), NEW w \in Workspaces
    PROVE  Keeps(t, FocusOn(t, w))
<1> DEFINE last == IF t.on[w] = NIL THEN NIL ELSE Active(t, t.on[w])
           u == Raise(t, w)
<1>1. Sound(u) /\ u.live = t.live /\ u.outs = t.outs /\ Kept(t, u)
  BY RaiseFields, RaiseServed DEF Sound
<1>2. last \in Workspaces \union {NIL}
  BY ActiveOn DEF On, Sound
<1>3. FocusOn(t, w) = IF last = NIL \/ last = w THEN u ELSE WorkspaceConsiderDestroy(u, last)
  BY DEF FocusOn
<1> HIDE DEF u, last
<1>4. last # NIL => Keeps(u, WorkspaceConsiderDestroy(u, last))
  BY <1>1, <1>2, ConsiderKeeps
<1> QED
  BY <1>1, <1>3, <1>4 DEF Keeps, Kept

LEMMA FocusViewKeeps ==
    ASSUME NEW t, Sound(t), NEW v \in Views
    PROVE  Keeps(t, FocusView(t, v))
<1>1. t.ws[v] \in Workspaces \union {NIL}
  BY DEF Sound, States, Containers
<1>2. Keeps(t, t)
  BY DEF Keeps, Kept
<1>3. t.ws[v] # NIL => Keeps(t, FocusOn(t, t.ws[v]))
  BY <1>1, FocusOnKeeps
<1> QED
  BY <1>2, <1>3 DEF FocusView

LEMMA RefocusKeeps ==
    ASSUME NEW t, Sound(t), NEW w \in Workspaces, NEW u \in Refocus(t, w)
    PROVE  Keeps(t, u)
BY FocusOnKeeps DEF Refocus, Keeps, Kept

LEMMA ReapKeeps ==
    ASSUME NEW t, Sound(t), NEW c
    PROVE  Keeps(t, Reap(t, c))
<1>1. CASE c = NIL \/ ~IsColumn(c) \/ t.kids[c] # <<>>
  BY <1>1 DEF Reap, Keeps, Kept
<1>2. CASE ~(c = NIL \/ ~IsColumn(c) \/ t.kids[c] # <<>>)
  <2> DEFINE u == ContainerBeginDestroy(t, c)
             w == t.ws[c]
  <2>1. c \in Containers
    BY <1>2 DEF IsColumn, Containers
  <2>2. w \in Workspaces \union {NIL}
    BY <2>1 DEF Sound, States
  <2>3. Keeps(t, u)
    <3>1. u \in States /\ Same(t, u)
      BY <2>1, ContainerBeginDestroyType DEF Sound
    <3> HIDE DEF u
    <3> QED
      BY <3>1, SameKeeps
  <2>4. Reap(t, c) = IF w = NIL THEN u ELSE WorkspaceConsiderDestroy(u, w)
    BY <1>2 DEF Reap, ConsiderIf
  <2> HIDE DEF u, w
  <2>5. w # NIL => Keeps(u, WorkspaceConsiderDestroy(u, w))
    BY <2>2, <2>3, ConsiderKeeps DEF Keeps, Kept
  <2> QED
    BY <2>3, <2>4, <2>5 DEF Keeps, Kept
<1> QED
  BY <1>1, <1>2

LEMMA LeftBehindKeeps ==
    ASSUME NEW t, Sound(t), NEW p, NEW w \in Workspaces \union {NIL}
    PROVE  Keeps(t, LeftBehind(t, p, w))
BY ReapKeeps, ConsiderKeeps DEF LeftBehind, ConsiderIf, Keeps, Kept

-----------------------------------------------------------------------------
(* Columns are made and merged.                                            *)

LEMMA InsertedType ==
    ASSUME NEW S, NEW q \in Seq(S), NEW i \in Nat \ {0}, NEW c \in S
    PROVE  Inserted(q, i, c) \in Seq(S)
<1>1. (IF i > Len(q) THEN Len(q) + 1 ELSE i) \in 1..(Len(q) + 1)
  <2>1. Len(q) \in Nat
    OBVIOUS
  <2> QED
    BY <2>1
<1> QED
  BY <1>1, InsertAtType DEF Inserted

Roomy(t) == Columns \ t.live # {}

LEMMA FreshType ==
    ASSUME NEW t, Roomy(t)
    PROVE  Fresh(t) \in Columns
<1>1. Columns \ t.live \in SUBSET Nat
  BY TreeAssumption DEF TreeAssumption
<1> QED
  BY <1>1, LowestIn DEF Roomy, Fresh

LEMMA SameSound ==
    ASSUME NEW t, NEW u \in States, Sound(t),
           u.alive = t.alive, u.on = t.on, u.recent = t.recent, u.outs = t.outs
    PROVE  Sound(u)
BY DEF Sound, Served, On, Home

LEMMA NewColumnSound ==
    ASSUME NEW t, Sound(t), Roomy(t), NEW w \in Workspaces \union {NIL}, NEW v \in Views
    PROVE  Sound(NewColumn(t, w, v)) /\ NewColumn(t, w, v).outs = t.outs /\ Kept(t, NewColumn(t, w, v))
<1> DEFINE c == Fresh(t)
           a == [t EXCEPT !.live = @ \union {c}, !.ws[c] = w, !.parent[c] = NIL, !.kids[c] = <<>>]
           u == AddChild(a, c, v)
<1>1. c \in Columns
  BY FreshType
<1>2. NewColumn(t, w, v) = u
  BY DEF NewColumn
<1> HIDE DEF c
<1>3. /\ a \in States
      /\ a.alive = t.alive /\ a.on = t.on /\ a.recent = t.recent /\ a.outs = t.outs
      /\ a.pool = t.pool /\ a.minimized = t.minimized /\ a.scratch = t.scratch /\ a.lost = t.lost
  <2> DEFINE l == t.live \union {c}
             x == [t.ws EXCEPT ![c] = w]
             p == [t.parent EXCEPT ![c] = NIL]
             k == [t.kids EXCEPT ![c] = <<>>]
  <2>1. l \in SUBSET Containers
    BY <1>1 DEF Sound, States, Containers
  <2>2. x \in [Containers -> Workspaces \union {NIL}] /\ p \in [Containers -> Columns \union {NIL}]
    BY DEF Sound, States
  <2>3. t.kids \in [Columns -> Seq(Views)]
    BY DEF Sound, States
  <2>4. k \in [Columns -> Seq(Views)]
    <3>1. <<>> \in Seq(Views)
      OBVIOUS
    <3> QED
      BY <2>3, <3>1
  <2>5. a = [t EXCEPT !.live = l, !.ws = x, !.parent = p, !.kids = k]
    BY DEF Sound, States
  <2> HIDE DEF l, x, p, k, a
  <2> QED
    BY <2>1, <2>2, <2>4, <2>5 DEF Sound, States
<1> HIDE DEF a
<1>4. u \in States /\ Same(a, u)
  BY <1>1, <1>3, AddChildType
<1> HIDE DEF u
<1>5. Kept(t, a)
  BY <1>3 DEF Kept, Stowed
<1>6. Kept(t, u)
  BY <1>4, <1>5 DEF Same, Kept
<1> QED
  BY <1>2, <1>3, <1>4, <1>6, SameSound DEF Same

LEMMA ChildrenToType ==
    ASSUME NEW t \in States, NEW src \in Columns, NEW dst \in Columns
    PROVE  LET u == ChildrenTo(t, src, dst) IN u \in States /\ Same(t, u)
<1> DEFINE kids == t.kids[src]
           n == Len(kids)
           f == [i \in DOMAIN kids |-> [u \in States |-> AddChild(u, dst, kids[i])]]
           S == {u \in States : Same(t, u)}
<1>1. kids \in Seq(Views)
  BY DEF States
<1>2. ChildrenTo(t, src, dst) = Rounds(f, t, n)
  BY DEF ChildrenTo
<1> HIDE DEF kids
<1>3. n \in Nat /\ DOMAIN kids = 1..n /\ \A i \in 1..n : kids[i] \in Views
  BY <1>1
<1>4. ASSUME NEW y \in S, NEW i \in 1..n PROVE f[i][y] \in S
  <2>1. f[i][y] = AddChild(y, dst, kids[i])
    BY <1>3
  <2>2. AddChild(y, dst, kids[i]) \in States /\ Same(y, AddChild(y, dst, kids[i]))
    BY <1>3, AddChildType
  <2> QED
    BY <2>1, <2>2 DEF Same, Kept
<1>5. t \in S
  BY DEF Same, Kept
<1> HIDE DEF f, S, n
<1>6. Rounds(f, t, n) \in S
  BY <1>3, <1>4, <1>5, RoundsKeep
<1> QED
  BY <1>2, <1>6 DEF S

LEMMA MergeLastType ==
    ASSUME NEW t \in States, NEW w \in Workspaces
    PROVE  LET u == MergeLast(t, w) IN u \in States /\ Same(t, u)
<1> DEFINE n == Len(t.tiling[w])
           src == t.tiling[w][n]
           dst == t.tiling[w][IF n >= 3 THEN n - 2 ELSE n - 1]
           moved == IF IsColumn(src) THEN ChildrenTo(t, src, dst) ELSE AddChild(t, dst, src)
           u == ContainerBeginDestroy(moved, src)
           x == [u EXCEPT !.lost = @ \union ({src} \intersect Views)]
           y == [t EXCEPT !.crash = "no list of children"]
           stop == t.crash # "no" \/ n <= 1 \/ Needed(t, w) <= Capacity
<1>1. MergeLast(t, w) = IF stop THEN t ELSE IF ~IsColumn(dst) THEN y ELSE x
  BY DEF MergeLast
<1>2. CASE stop
  BY <1>1, <1>2 DEF Same, Kept
<1>3. CASE ~stop /\ ~IsColumn(dst)
  <2>1. y \in States /\ Same(t, y)
    <3>1. y \in States /\ Plain(t, y)
      BY DEF States, Plain
    <3> QED
      BY <3>1, PlainSame
  <2> HIDE DEF y, x, stop
  <2> QED
    BY <1>1, <1>3, <2>1
<1>4. CASE ~stop /\ IsColumn(dst)
  <2>1. src \in Containers
    <3>1. t.tiling[w] \in Seq(Containers)
      BY DEF States
    <3>2. n \in Nat /\ n > 1
      <4>1. n \in Nat
        BY <3>1
      <4> QED
        BY <4>1, <1>4
    <3> QED
      BY <3>1, <3>2
  <2>2. dst \in Columns
    BY <1>4 DEF IsColumn
  <2> HIDE DEF src, dst
  <2>3. moved \in States /\ Same(t, moved)
    <3>1. CASE IsColumn(src)
      BY <2>2, <3>1, ChildrenToType DEF IsColumn
    <3>2. CASE ~IsColumn(src)
      <4>1. src \in Views
        BY <2>1, <3>2 DEF IsColumn, Containers
      <4> QED
        BY <2>2, <3>2, <4>1, AddChildType
    <3> QED
      BY <3>1, <3>2
  <2> HIDE DEF moved
  <2>4. u \in States /\ Same(moved, u)
    BY <2>1, <2>3, ContainerBeginDestroyType
  <2> HIDE DEF u
  <2>5. x \in States /\ Same(u, x)
    <3>1. x \in States /\ Plain(u, x)
      BY <2>4 DEF States, Plain
    <3> QED
      BY <3>1, PlainSame
  <2> HIDE DEF x, y, stop
  <2> QED
    BY <1>1, <1>4, <2>3, <2>4, <2>5 DEF Same, Kept
<1> QED
  BY <1>2, <1>3, <1>4

LEMMA FixOverflowType ==
    ASSUME NEW t \in States, NEW w \in Workspaces
    PROVE  LET u == FixOverflow(t, w) IN u \in States /\ Same(t, u)
<1> DEFINE q == t.tiling[w]
           n == Len(q)
           f == [i \in DOMAIN q |-> [u \in States |-> MergeLast(u, w)]]
           S == {u \in States : Same(t, u)}
<1>1. q \in Seq(Containers)
  BY DEF States
<1>2. FixOverflow(t, w) = Rounds(f, t, n)
  BY DEF FixOverflow
<1> HIDE DEF q
<1>3. n \in Nat /\ DOMAIN q = 1..n
  BY <1>1
<1>4. ASSUME NEW y \in S, NEW i \in 1..n PROVE f[i][y] \in S
  <2>1. f[i][y] = MergeLast(y, w)
    BY <1>3
  <2>2. MergeLast(y, w) \in States /\ Same(y, MergeLast(y, w))
    BY MergeLastType
  <2> QED
    BY <2>1, <2>2 DEF Same, Kept
<1>5. t \in S
  BY DEF Same, Kept
<1> HIDE DEF f, S, n
<1>6. Rounds(f, t, n) \in S
  BY <1>3, <1>4, <1>5, RoundsKeep
<1> QED
  BY <1>2, <1>6 DEF S

LEMMA TilingType ==
    ASSUME NEW t \in States, NEW w \in Workspaces, NEW i \in Nat \ {0}, NEW c \in Containers
    PROVE  LET u == [t EXCEPT !.tiling[w] = Inserted(@, i, c)] IN u \in States /\ Same(t, u)
<1> DEFINE q == Inserted(t.tiling[w], i, c)
           k == [t.tiling EXCEPT ![w] = q]
           u == [t EXCEPT !.tiling[w] = Inserted(@, i, c)]
<1>1. t.tiling \in [Workspaces -> Seq(Containers)]
  BY DEF States
<1>2. q \in Seq(Containers)
  BY <1>1, InsertedType
<1>3. u = [t EXCEPT !.tiling = k]
  BY DEF States
<1> HIDE DEF q, u
<1>4. k \in [Workspaces -> Seq(Containers)]
  BY <1>1, <1>2
<1> HIDE DEF k
<1>5. u \in States /\ Same(t, u)
  <2>1. u \in States /\ Plain(t, u)
    BY <1>3, <1>4 DEF States, Plain
  <2> QED
    BY <2>1, PlainSame
<1> QED
  BY <1>5 DEF u

-----------------------------------------------------------------------------
(* The operations on windows.                                              *)

LEMMA KeepsTwice ==
    ASSUME NEW t, NEW u, NEW x, Keeps(t, u), Keeps(u, x)
    PROVE  Keeps(t, x)
BY DEF Keeps, Kept

LEMMA AddTilingSound ==
    ASSUME NEW t, Sound(t), Roomy(t), NEW w \in Workspaces, NEW c \in Containers, NEW i \in Nat \ {0}
    PROVE  Sound(AddTiling(t, w, c, i)) /\ AddTiling(t, w, c, i).outs = t.outs /\ Kept(t, AddTiling(t, w, c, i))
<1> DEFINE a == Unpark(t, c)
           p == a.parent[c]
           b == IF a.ws[c] # NIL THEN Reap(Detach(a, c), p) ELSE a
           col == IF c \in Views THEN Fresh(b) ELSE c
           d == IF c \in Views THEN NewColumn(b, w, c) ELSE [b EXCEPT !.parent[c] = NIL]
           e == [d EXCEPT !.tiling[w] = Inserted(@, i, col)]
           f == Place(e, col, w)
<1>1. Keeps(t, a)
  BY UnparkType, SameKeeps DEF Sound
<1>2. AddTiling(t, w, c, i) = FixOverflow(f, w)
  BY DEF AddTiling, Tile, Leave
<1> HIDE DEF a
<1>3. Keeps(a, b)
  <2> DEFINE x == Detach(a, c)
  <2>1. Keeps(a, x)
    BY <1>1, DetachType, SameKeeps DEF Sound, Keeps, Kept
  <2> HIDE DEF x
  <2>2. Keeps(x, Reap(x, p))
    BY <2>1, ReapKeeps DEF Keeps, Kept
  <2> HIDE DEF p
  <2>3. Keeps(a, Reap(x, p))
    BY <2>1, <2>2, KeepsTwice
  <2>4. Keeps(a, a)
    BY <1>1 DEF Keeps, Kept
  <2> QED
    BY <2>3, <2>4 DEF x
<1> HIDE DEF b
<1>4. Roomy(b)
  BY <1>1, <1>3 DEF Keeps, Roomy, Kept
<1>5. col \in Containers
  BY <1>4, FreshType DEF Containers
<1>6. Sound(d) /\ d.outs = b.outs /\ Kept(b, d)
  <2>1. CASE c \in Views
    BY <1>3, <1>4, <2>1, NewColumnSound DEF Keeps, Kept
  <2>2. CASE c \notin Views
    <3> DEFINE x == [b EXCEPT !.parent[c] = NIL]
    <3>1. /\ x \in States /\ x.alive = b.alive /\ x.on = b.on /\ x.recent = b.recent /\ x.outs = b.outs
          /\ x.pool = b.pool /\ x.minimized = b.minimized /\ x.scratch = b.scratch /\ x.lost = b.lost
      BY <1>3 DEF Keeps, Sound, States
    <3> HIDE DEF x
    <3>2. Sound(x) /\ x.outs = b.outs /\ Kept(b, x)
      BY <1>3, <3>1, SameSound, MovedKept DEF Keeps
    <3> QED
      BY <2>2, <3>2 DEF x
  <2> QED
    BY <2>1, <2>2
<1> HIDE DEF d, col
<1>7. Sound(e) /\ e.outs = d.outs /\ Kept(d, e)
  <2>1. e \in States /\ Same(d, e)
    BY <1>5, <1>6, TilingType DEF Sound
  <2> HIDE DEF e
  <2> QED
    BY <1>6, <2>1, SameKeeps DEF Keeps, Kept
<1> HIDE DEF e
<1>8. Sound(f) /\ f.outs = e.outs /\ Kept(e, f)
  <2>1. f \in States /\ Same(e, f)
    BY <1>5, <1>7, PlaceType DEF Sound
  <2> HIDE DEF f
  <2> QED
    BY <1>7, <2>1, SameKeeps DEF Keeps, Kept
<1> HIDE DEF f
<1>9. FixOverflow(f, w) \in States /\ Same(f, FixOverflow(f, w))
  BY <1>8, FixOverflowType DEF Sound
<1> QED
  BY <1>1, <1>2, <1>3, <1>6, <1>7, <1>8, <1>9, SameKeeps DEF Keeps, Kept

LEMMA AddFloatingType ==
    ASSUME NEW t \in States, NEW w \in Workspaces \union {NIL}, NEW v \in Views
    PROVE  LET u == AddFloating(t, w, v) IN u \in States /\ Same(t, u)
<1> DEFINE a == Unpark(t, v)
           b == DetachIf(a, v)
           k == [b.floating EXCEPT ![w] = @ \union {v}]
           d == [b EXCEPT !.floating[w] = @ \union {v}]
<1>0. v \in Containers
  BY DEF Containers
<1>1. a \in States /\ Same(t, a)
  BY <1>0, UnparkType
<1>2. AddFloating(t, w, v) = Place(d, v, w)
  BY DEF AddFloating
<1> HIDE DEF a
<1>3. b \in States /\ Same(a, b)
  BY <1>0, <1>1, DetachIfType
<1> HIDE DEF b
<1>4. d = [b EXCEPT !.floating = k]
  BY <1>3 DEF States
<1>5. k \in [Workspaces -> SUBSET Views]
  BY <1>3 DEF States
<1> HIDE DEF k, d
<1>6. d \in States /\ Same(b, d)
  <2>1. d \in States /\ Plain(b, d)
    BY <1>3, <1>4, <1>5 DEF States, Plain
  <2> QED
    BY <2>1, PlainSame
<1> QED
  BY <1>0, <1>1, <1>2, <1>3, <1>6, PlaceType DEF Same, Kept

LEMMA FullscreenType ==
    ASSUME NEW t \in States, NEW v \in Views, NEW m \in Modes
    PROVE  LET u == Fullscreen(t, v, m) IN u \in States /\ Same(t, u)
<1>1. CASE m = t.mode[v]
  BY <1>1 DEF Fullscreen, Same, Kept
<1>2. CASE m # t.mode[v] /\ m = "none"
  BY <1>2, FullscreenDisableType DEF Fullscreen
<1> DEFINE a == DisableIf(t, t.gfs)
<1>3. a \in States /\ Same(t, a)
  <2>1. t.gfs \in Views \union {NIL}
    BY DEF States
  <2> QED
    BY <2>1, DisableIfType
<1>4. CASE m # t.mode[v] /\ m = "workspace"
  <2> DEFINE w == a.ws[v]
             x == DisableIf(a, a.fs[w])
             y == [x EXCEPT !.fs[w] = v]
             b == IF w = NIL THEN a ELSE y
  <2>1. Fullscreen(t, v, m) = SetMode(b, v, "workspace")
    BY <1>4 DEF Fullscreen
  <2> HIDE DEF a
  <2>2. w \in Workspaces \union {NIL}
    BY <1>3 DEF States, Containers
  <2>3. w # NIL => y \in States /\ Same(a, y)
    <3> SUFFICES ASSUME w # NIL PROVE y \in States /\ Same(a, y)
      OBVIOUS
    <3>1. a.fs[w] \in Views \union {NIL}
      BY <1>3, <2>2 DEF States
    <3>2. x \in States /\ Same(a, x)
      BY <1>3, <3>1, DisableIfType
    <3> HIDE DEF x, w
    <3>3. y \in States /\ Same(x, y)
      <4>1. y \in States /\ Plain(x, y)
        BY <2>2, <3>2 DEF States, Plain
      <4> QED
        BY <4>1, PlainSame
    <3> QED
      BY <3>2, <3>3 DEF Same, Kept
  <2>4. b \in States /\ Same(a, b)
    BY <1>3, <2>3 DEF Same, Kept
  <2> HIDE DEF b
  <2>5. SetMode(b, v, "workspace") \in States /\ Same(b, SetMode(b, v, "workspace"))
    BY <2>4, SetModeType DEF Modes
  <2> QED
    BY <1>3, <2>1, <2>4, <2>5 DEF Same, Kept
<1>5. CASE m # t.mode[v] /\ m = "global"
  <2> DEFINE b == IF a.mode[v] = "workspace" THEN FullscreenDisable(a, v) ELSE a
             d == [b EXCEPT !.gfs = v]
  <2>1. Fullscreen(t, v, m) = SetMode(d, v, "global")
    BY <1>5 DEF Fullscreen
  <2> HIDE DEF a
  <2>2. b \in States /\ Same(a, b)
    BY <1>3, FullscreenDisableType DEF Same, Kept
  <2> HIDE DEF b
  <2>3. d \in States /\ Same(b, d)
    <3>1. d \in States /\ Plain(b, d)
      BY <2>2 DEF States, Plain
    <3> QED
      BY <3>1, PlainSame
  <2> HIDE DEF d
  <2>4. SetMode(d, v, "global") \in States /\ Same(d, SetMode(d, v, "global"))
    BY <2>3, SetModeType DEF Modes
  <2> QED
    BY <1>3, <2>1, <2>2, <2>3, <2>4 DEF Same, Kept
<1> QED
  BY <1>1, <1>2, <1>4, <1>5 DEF Modes

(* A step that leaves the workspaces alone, after others that keep them.   *)
LEMMA ThenSame ==
    ASSUME NEW t, NEW u, Keeps(t, u), NEW x \in States, Same(u, x)
    PROVE  Keeps(t, x)
BY SameKeeps DEF Keeps, Same, Kept

LEMMA FloatingEnableKeeps ==
    ASSUME NEW t, Sound(t), NEW v \in Views
    PROVE  Keeps(t, FloatingEnable(t, v))
<1> DEFINE p == t.parent[v]
           w == t.ws[v]
           a == Detach(t, v)
           b == AddFloating(a, w, v)
           d == Reap(b, p)
<1>0. v \in Containers /\ w \in Workspaces \union {NIL}
  BY DEF Sound, States, Containers
<1>1. FloatingEnable(t, v) = EndMouseOperation(d, v)
  BY DEF FloatingEnable
<1>2. Keeps(t, a)
  BY <1>0, DetachType, SameKeeps DEF Sound
<1> HIDE DEF a, w
<1>3. Keeps(t, b)
  BY <1>0, <1>2, AddFloatingType, ThenSame DEF Keeps, Sound, Kept
<1> HIDE DEF b, p
<1>4. Keeps(t, d)
  BY <1>3, ReapKeeps, KeepsTwice DEF Keeps, Kept
<1> HIDE DEF d
<1> QED
  BY <1>1, <1>4, EndMouseOperationType, ThenSame DEF Keeps, Sound, Kept

LEMMA FloatingDisableSound ==
    ASSUME NEW t, Sound(t), Roomy(t), NEW v \in Views, NEW i \in Nat \ {0}
    PROVE  Sound(FloatingDisable(t, v, i)) /\ FloatingDisable(t, v, i).outs = t.outs
           /\ (v \notin t.minimized => Kept(t, FloatingDisable(t, v, i)))
<1> DEFINE w == t.ws[v]
           z == [t EXCEPT !.scratch = @ \ {v}]
           a == Detach(z, v)
           col == Fresh(a)
           b == NewColumn(a, w, v)
           d == [b EXCEPT !.tiling[w] = Inserted(@, i, col)]
           e == Place(d, col, w)
<1>0. v \in Containers /\ w \in Workspaces \union {NIL}
  BY DEF Sound, States, Containers
<1>1. FloatingDisable(t, v, i) = EndMouseOperation(e, v)
  BY DEF FloatingDisable
<1>2. /\ Sound(z) /\ z.live = t.live /\ z.outs = t.outs
      /\ v \notin t.minimized => Kept(t, z)
  <2>1. /\ z \in States /\ z.alive = t.alive /\ z.on = t.on /\ z.recent = t.recent
        /\ z.outs = t.outs /\ z.live = t.live /\ z.lost = t.lost /\ z.pool = t.pool
        /\ z.minimized = t.minimized /\ z.scratch = t.scratch \ {v}
    BY DEF Sound, States
  <2> HIDE DEF z
  <2>2. v \notin t.minimized => Kept(t, z)
    BY <2>1 DEF Kept, Stowed
  <2> QED
    BY <2>1, <2>2, SameSound
<1> HIDE DEF z, w
<1>3. Keeps(z, a)
  BY <1>0, <1>2, DetachType, SameKeeps DEF Sound
<1> HIDE DEF a
<1>4. Roomy(a) /\ Sound(a)
  BY <1>2, <1>3 DEF Keeps, Roomy
<1>5. col \in Containers
  BY <1>4, FreshType DEF Containers
<1>6. Sound(b) /\ b.outs = t.outs /\ Kept(z, b)
  BY <1>0, <1>2, <1>3, <1>4, NewColumnSound DEF Keeps, Kept
<1> HIDE DEF b, col
<1>7. d \in States /\ Same(b, d)
  <2>1. CASE w = NIL
    <3>1. w \notin Workspaces
      BY <2>1, TreeAssumption DEF TreeAssumption
    <3> DEFINE k == [b.tiling EXCEPT ![w] = Inserted(@, i, col)]
    <3>2. d = [b EXCEPT !.tiling = k]
      BY <1>6 DEF Sound, States
    <3>3. k = b.tiling
      <4>1. b.tiling \in [Workspaces -> Seq(Containers)]
        BY <1>6 DEF Sound, States
      <4> QED
        BY <3>1, <4>1
    <3> HIDE DEF k, d
    <3>90. d \in States /\ Plain(b, d)
      BY <1>6, <3>2, <3>3 DEF Sound, States, Plain
    <3> QED
      BY <3>90, PlainSame
  <2>2. CASE w # NIL
    BY <1>0, <1>5, <1>6, <2>2, TilingType DEF Sound
  <2> QED
    BY <2>1, <2>2
<1> HIDE DEF d
<1>8. e \in States /\ Same(d, e)
  BY <1>0, <1>5, <1>7, PlaceType
<1> HIDE DEF e
<1>9. Keeps(b, e)
  BY <1>6, <1>7, <1>8, SameKeeps DEF Same, Kept
<1>10. Keeps(b, EndMouseOperation(e, v))
  BY <1>9, EndMouseOperationType, ThenSame DEF Keeps, Sound
<1> QED
  BY <1>1, <1>2, <1>6, <1>10 DEF Keeps, Kept

LEMMA FocusedWsType ==
    ASSUME NEW t \in States
    PROVE  FocusedWs(t) \in Placed(t) \union {NIL}
<1> DEFINE q == t.recent
           S == Placed(t)
           i == SelectInSeq(q, LAMBDA w : w \in S)
<1>1. q \in Seq(Workspaces)
  BY DEF States
<1>2. \/ i = 0 /\ \A j \in 1..Len(q) : q[j] \notin S
      \/ i \in 1..Len(q) /\ q[i] \in S /\ \A j \in 1..(i-1) : q[j] \notin S
  BY <1>1, SelectFirst
<1>3. FocusedWs(t) = IF i = 0 THEN NIL ELSE q[i]
  BY DEF FocusedWs
<1> HIDE DEF i, q, S
<1> QED
  BY <1>2, <1>3 DEF S

(* With an output there is a workspace, and so one that is focused.        *)
LEMMA FocusedWsLive ==
    ASSUME NEW t, Sound(t), t.outs # <<>>
    PROVE  FocusedWs(t) \in Workspaces /\ t.on[FocusedWs(t)] \in Range(t.outs)
<1> DEFINE q == t.recent
           S == Placed(t)
           i == SelectInSeq(q, LAMBDA w : w \in S)
<1>1. q \in Seq(Workspaces) /\ t.outs \in Seq(Outputs) /\ t \in States
  BY DEF Sound, States
<1>2. \/ i = 0 /\ \A j \in 1..Len(q) : q[j] \notin S
      \/ i \in 1..Len(q) /\ q[i] \in S /\ \A j \in 1..(i-1) : q[j] \notin S
  BY <1>1, SelectFirst
<1>3. FocusedWs(t) = IF i = 0 THEN NIL ELSE q[i]
  BY DEF FocusedWs
<1>4. PICK o \in Range(t.outs) : TRUE
  <2>1. Len(t.outs) \in Nat /\ Len(t.outs) # 0
    BY <1>1
  <2>2. 1 \in 1..Len(t.outs)
    BY <2>1
  <2>3. t.outs[1] \in Range(t.outs)
    BY <1>1, <2>2, RangeSeq
  <2> QED
    BY <2>3
<1>5. PICK w \in Workspaces : t.alive[w] = "live"
  <2>1. On(t, o) # {}
    BY <1>4 DEF Sound, Served
  <2> QED
    BY <2>1 DEF On
<1>6. w \in Range(q) /\ w \in S
  BY <1>5 DEF Sound, Served, Placed
<1>7. \E j \in 1..Len(q) : q[j] = w
  BY <1>1, <1>6, RangeSeq
<1> HIDE DEF i, q, S
<1>8. FocusedWs(t) \in S
  BY <1>2, <1>3, <1>6, <1>7
<1>9. FocusedWs(t) \in Workspaces /\ t.alive[FocusedWs(t)] = "live"
  BY <1>8 DEF S, Placed, Sound, Served
<1> QED
  BY <1>9 DEF Sound, Served, Home

LEMMA ScratchpadAddKeeps ==
    ASSUME NEW t, Sound(t), NEW v \in Views
    PROVE  Keeps(t, ScratchpadAdd(t, v))
<1> DEFINE a == DisableIf(t, v)
           b == IF IsFloating(a, v) THEN a ELSE FloatingEnable(a, v)
           d == Detach(b, v)
           e == [d EXCEPT !.scratch = @ \union {v}]
<1>0. v \in Containers
  BY DEF Containers
<1>1. ScratchpadAdd(t, v) = e
  BY DEF ScratchpadAdd
<1>2. Keeps(t, a)
  BY DisableIfType, SameKeeps DEF Sound
<1> HIDE DEF a
<1>3. Keeps(t, b)
  BY <1>2, FloatingEnableKeeps, KeepsTwice DEF Keeps, Kept
<1> HIDE DEF b
<1>4. Keeps(t, d)
  BY <1>0, <1>3, DetachType, ThenSame DEF Keeps, Sound, Kept
<1> HIDE DEF d
<1>5. e \in States /\ Same(d, e)
  <2>1. e \in States /\ Plain(d, e)
    BY <1>4 DEF Keeps, Sound, States, Plain
  <2> QED
    BY <2>1, PlainSame
<1> HIDE DEF e
<1> QED
  BY <1>1, <1>4, <1>5, ThenSame

LEMMA ScratchpadShowKeeps ==
    ASSUME NEW t, Sound(t), NEW v \in Views
    PROVE  Keeps(t, ScratchpadShow(t, v))
<1> DEFINE w == FocusedWs(t)
           old == t.ws[v]
           x == DisableIf(t, t.fs[w])
           a == DisableIf(x, t.gfs)
           d == DetachIf(a, v)
           e == AddFloating(d, w, v)
           b == FocusView(e, v)
<1>0. v \in Containers /\ old \in Workspaces \union {NIL} /\ t.gfs \in Views \union {NIL}
  BY DEF Sound, States, Containers
<1>1. ScratchpadShow(t, v) =
        IF w = NIL THEN t ELSE IF old = NIL THEN b ELSE WorkspaceConsiderDestroy(b, old)
  BY DEF ScratchpadShow
<1>2. CASE w = NIL
  BY <1>1, <1>2 DEF Keeps, Kept
<1>3. CASE w # NIL
  <2>1. w \in Workspaces
    BY <1>3, FocusedWsType DEF Sound, Placed
  <2> HIDE DEF w
  <2>2. t.fs[w] \in Views \union {NIL}
    BY <2>1 DEF Sound, States
  <2>3. Keeps(t, x)
    BY <2>2, DisableIfType, SameKeeps DEF Sound
  <2> HIDE DEF x
  <2>4. Keeps(t, a)
    BY <1>0, <2>3, DisableIfType, ThenSame DEF Keeps, Sound, Kept
  <2> HIDE DEF a
  <2>5. Keeps(t, d)
    BY <1>0, <2>4, DetachIfType, ThenSame DEF Keeps, Sound, Kept
  <2> HIDE DEF d
  <2>6. Keeps(t, e)
    BY <2>1, <2>5, AddFloatingType, ThenSame DEF Keeps, Sound, Kept
  <2> HIDE DEF e
  <2>7. Keeps(t, b)
    BY <2>6, FocusViewKeeps, KeepsTwice DEF Keeps, Kept
  <2> HIDE DEF b, old
  <2>8. old # NIL => Keeps(t, WorkspaceConsiderDestroy(b, old))
    BY <1>0, <2>7, ConsiderKeeps, KeepsTwice DEF Keeps, Kept
  <2> QED
    BY <1>1, <1>3, <2>7, <2>8
<1> QED
  BY <1>2, <1>3

LEMMA ScratchpadHideKeeps ==
    ASSUME NEW t, Sound(t), NEW v \in Views
    PROVE  Keeps(t, ScratchpadHide(t, v))
<1> DEFINE a == DisableIf(t, v)
<1>0. v \in Containers
  BY DEF Containers
<1>1. ScratchpadHide(t, v) = Detach(a, v)
  BY DEF ScratchpadHide
<1>2. Keeps(t, a)
  BY DisableIfType, SameKeeps DEF Sound
<1> HIDE DEF a
<1> QED
  BY <1>0, <1>1, <1>2, DetachType, ThenSame DEF Keeps, Sound, Kept

(* A workspace that is gone may come to wait for its transaction again,    *)
(* and one that waited may be gone.                                        *)
LEMMA SameLiveSound ==
    ASSUME NEW t, NEW u \in States, Sound(t),
           u.on = t.on, u.recent = t.recent, u.outs = t.outs,
           \A w \in Workspaces : u.alive[w] = "live" <=> t.alive[w] = "live"
    PROVE  Sound(u)
<1>1. (\A o : On(u, o) = On(t, o)) /\ Home(u) = Home(t)
  BY DEF On, Home
<1> QED
  BY <1>1 DEF Sound, Served

LEMMA MinimizedHideSound ==
    ASSUME NEW t, Sound(t), NEW v \in Views
    PROVE  LET u == MinimizedHide(t, v) IN Sound(u) /\ u.live \subseteq t.live /\ u.outs = t.outs
<1> DEFINE a == DisableIf(t, v)
           w == a.ws[v]
           p == a.parent[v]
           b == [a EXCEPT !.minimized = @ \union {v},
                          !.wasfloat = IF IsFloating(a, v) THEN @ \union {v} ELSE @ \ {v}]
           x == IF w = NIL THEN b ELSE Detach(b, v)
           d == Reap(x, p)
           e == [d EXCEPT !.pool[w] = @ \union {v}, !.alive[w] = IF @ = "no" THEN "dying" ELSE @]
<1>0. v \in Containers
  BY DEF Containers
<1>1. MinimizedHide(t, v) = IF w = NIL THEN d ELSE e
  BY DEF MinimizedHide
<1>2. Keeps(t, a)
  BY DisableIfType, SameKeeps DEF Sound
<1> HIDE DEF a
<1>3. w \in Workspaces \union {NIL}
  BY <1>0, <1>2 DEF Keeps, Sound, States
<1> HIDE DEF w, p
<1>4. Sound(b) /\ b.live = a.live /\ b.outs = a.outs
  <2>1. /\ b \in States /\ b.alive = a.alive /\ b.on = a.on /\ b.recent = a.recent
        /\ b.outs = a.outs /\ b.live = a.live
    BY <1>2 DEF Keeps, Sound, States
  <2> HIDE DEF b
  <2> QED
    BY <1>2, <2>1, SameSound DEF Keeps
<1> HIDE DEF b
<1>5. Keeps(b, x)
  <2>1. Plain(b, b)
    BY DEF Plain
  <2> QED
    BY <1>0, <1>4, <2>1, PlainSame, DetachType, SameKeeps DEF Sound
<1> HIDE DEF x
<1>6. Keeps(b, d)
  BY <1>5, ReapKeeps, KeepsTwice DEF Keeps
<1> HIDE DEF d
<1>7. CASE w # NIL
  <2> DEFINE k == [d.pool EXCEPT ![w] = @ \union {v}]
             l == [d.alive EXCEPT ![w] = IF @ = "no" THEN "dying" ELSE @]
  <2>1. d \in States
    BY <1>6 DEF Keeps, Sound, Kept
  <2>2. k \in [Workspaces -> SUBSET Views] /\ e = [d EXCEPT !.pool = k, !.alive = l]
    BY <2>1 DEF States
  <2>3. /\ l \in [Workspaces -> {"no", "live", "dying"}]
        /\ \A y \in Workspaces : l[y] = "live" <=> d.alive[y] = "live"
    BY <2>1 DEF States
  <2> HIDE DEF k, l, e
  <2>4. /\ e \in States /\ e.on = d.on /\ e.recent = d.recent /\ e.outs = d.outs
        /\ e.live = d.live /\ e.alive = l
    BY <2>1, <2>2, <2>3 DEF States
  <2>5. Sound(e)
    BY <1>6, <2>3, <2>4, SameLiveSound DEF Keeps, Kept
  <2> QED
    BY <1>1, <1>2, <1>4, <1>6, <1>7, <2>4, <2>5 DEF Keeps
<1> QED
  BY <1>1, <1>2, <1>4, <1>6, <1>7 DEF Keeps

LEMMA MinimizedShowSound ==
    ASSUME NEW t, Sound(t), Roomy(t), NEW v \in Views, NEW w \in Workspaces, NEW i \in Nat \ {0}
    PROVE  Sound(MinimizedShow(t, v, w, i)) /\ MinimizedShow(t, v, w, i).outs = t.outs /\ Kept(t, MinimizedShow(t, v, w, i))
<1> DEFINE old == Owner(t, v)
           a == PoolRemove(t, v)
           x == DisableIf(a, a.fs[w])
           b == DisableIf(x, a.gfs)
           d == IF v \in t.wasfloat THEN AddFloating(b, w, v) ELSE AddTiling(b, w, v, i)
           e == FocusView(d, v)
<1>0. v \in Containers /\ old \in Workspaces \union {NIL}
  BY OwnerType DEF Containers
<1>1. MinimizedShow(t, v, w, i) =
        IF old = NIL \/ old = w \/ e.alive[old] # "live" THEN e ELSE WorkspaceConsiderDestroy(e, old)
  BY DEF MinimizedShow, PoolLeft
<1>2. Keeps(t, a)
  BY PoolRemoveType, SameKeeps DEF Sound
<1> HIDE DEF a, old
<1>3. a.fs[w] \in Views \union {NIL} /\ a.gfs \in Views \union {NIL}
  BY <1>2 DEF Keeps, Sound, States
<1>4. Keeps(t, x)
  BY <1>2, <1>3, DisableIfType, ThenSame DEF Keeps, Sound
<1> HIDE DEF x
<1>5. Keeps(t, b)
  BY <1>3, <1>4, DisableIfType, ThenSame DEF Keeps, Sound
<1> HIDE DEF b
<1>6. Sound(d) /\ d.outs = t.outs /\ Kept(t, d)
  <2>1. Roomy(b) /\ Sound(b)
    BY <1>5 DEF Keeps, Roomy, Kept
  <2>2. Keeps(b, AddFloating(b, w, v))
    BY <2>1, AddFloatingType, SameKeeps DEF Sound
  <2>3. Sound(AddTiling(b, w, v, i)) /\ AddTiling(b, w, v, i).outs = b.outs /\ Kept(b, AddTiling(b, w, v, i))
    BY <1>0, <2>1, AddTilingSound
  <2>4. Sound(d) /\ d.outs = b.outs /\ Kept(b, d)
    BY <2>2, <2>3 DEF Keeps
  <2> HIDE DEF d
  <2> QED
    BY <1>5, <2>4, KeptTwice DEF Keeps
<1> HIDE DEF d
<1>7. Sound(e) /\ e.outs = t.outs /\ Kept(t, e)
  BY <1>6, FocusViewKeeps, KeptTwice DEF Keeps
<1> HIDE DEF e
<1>8. old # NIL => Keeps(e, WorkspaceConsiderDestroy(e, old))
  BY <1>0, <1>7, ConsiderKeeps
<1> QED
  BY <1>1, <1>7, <1>8, KeptTwice DEF Keeps

LEMMA SwappedType ==
    ASSUME NEW S, NEW q \in Seq(S), NEW i \in 1..Len(q), NEW j \in 1..Len(q)
    PROVE  Swapped(q, i, j) \in Seq(S)
<1>1. q[i] \in S /\ q[j] \in S
  OBVIOUS
<1>2. [q EXCEPT ![i] = q[j]] \in Seq(S)
  BY <1>1
<1>3. Swapped(q, i, j) = [[q EXCEPT ![i] = q[j]] EXCEPT ![j] = q[i]]
  BY DEF Swapped
<1> DEFINE r == [q EXCEPT ![i] = q[j]]
<1>4. r \in Seq(S) /\ Len(r) = Len(q)
  BY <1>1, <1>2
<1> HIDE DEF r
<1>5. [r EXCEPT ![j] = q[i]] \in Seq(S)
  BY <1>1, <1>4
<1> QED
  BY <1>3, <1>5 DEF r

LEMMA MoveToWorkspaceSound ==
    ASSUME NEW t, Sound(t), Roomy(t), NEW v \in Views, NEW w \in Workspaces \union {NIL},
           w \in Workspaces \/ IsFloating(t, v), NEW i \in Nat \ {0}
    PROVE  Sound(MoveToWorkspace(t, v, w, i)) /\ MoveToWorkspace(t, v, w, i).outs = t.outs /\ Kept(t, MoveToWorkspace(t, v, w, i))
<1> DEFINE a == Detach(t, v)
<1>0. v \in Containers
  BY DEF Containers
<1>1. MoveToWorkspace(t, v, w, i) =
        IF t.ws[v] = w THEN t
        ELSE IF IsFloating(t, v) THEN AddFloating(a, w, v) ELSE AddTiling(a, w, v, i)
  BY DEF MoveToWorkspace
<1>2. Keeps(t, a)
  BY <1>0, DetachType, SameKeeps DEF Sound
<1> HIDE DEF a
<1>3. Sound(a) /\ Roomy(a)
  BY <1>2 DEF Keeps, Roomy, Kept
<1>4. Keeps(a, AddFloating(a, w, v))
  BY <1>3, AddFloatingType, SameKeeps DEF Sound
<1>5. w \in Workspaces => Sound(AddTiling(a, w, v, i)) /\ AddTiling(a, w, v, i).outs = a.outs /\ Kept(a, AddTiling(a, w, v, i))
  BY <1>0, <1>3, AddTilingSound
<1> QED
  BY <1>1, <1>2, <1>4, <1>5 DEF Keeps, Kept

LEMMA MoveToContainerSound ==
    ASSUME NEW t, Sound(t), Roomy(t), NEW v \in Views, NEW x \in Views, NEW i \in Nat \ {0}
    PROVE  Sound(MoveToContainer(t, v, x, i)) /\ MoveToContainer(t, v, x, i).outs = t.outs /\ Kept(t, MoveToContainer(t, v, x, i))
<1> DEFINE a == Detach(t, v)
<1>0. v \in Containers /\ x \in Containers /\ t.ws[x] \in Workspaces \union {NIL}
  BY DEF Sound, States, Containers
<1>1. MoveToContainer(t, v, x, i) =
        IF v = x THEN t
        ELSE IF IsFloating(t, v) THEN MoveToWorkspace(t, v, t.ws[x], i)
        ELSE AddSibling(a, x, v)
  BY DEF MoveToContainer
<1>2. Keeps(t, a)
  BY <1>0, DetachType, SameKeeps DEF Sound
<1> HIDE DEF a
<1>3. Keeps(t, AddSibling(a, x, v))
  BY <1>0, <1>2, AddSiblingType, ThenSame DEF Keeps, Sound, Kept
<1>4. IsFloating(t, v) => /\ Sound(MoveToWorkspace(t, v, t.ws[x], i))
                             /\ MoveToWorkspace(t, v, t.ws[x], i).outs = t.outs
                             /\ Kept(t, MoveToWorkspace(t, v, t.ws[x], i))
  BY <1>0, MoveToWorkspaceSound
<1> QED
  BY <1>1, <1>3, <1>4 DEF Keeps, Kept

LEMMA PullFloatingKeeps ==
    ASSUME NEW t, Sound(t), NEW v \in Views, t.ws[v] # NIL, NEW w \in Workspaces
    PROVE  Keeps(t, PullFloating(t, v, w))
<1> DEFINE old == t.ws[v]
           a == DisableIf(t, v)
           b == Detach(a, v)
           d == AddFloating(b, w, v)
<1>0. v \in Containers /\ old \in Workspaces \union {NIL}
  BY DEF Sound, States, Containers
<1>1. PullFloating(t, v, w) = IF old = w THEN a ELSE WorkspaceConsiderDestroy(d, old)
  BY DEF PullFloating
<1>2. Keeps(t, a)
  BY DisableIfType, SameKeeps DEF Sound
<1> HIDE DEF a
<1>3. Keeps(t, b)
  BY <1>0, <1>2, DetachType, ThenSame DEF Keeps, Sound, Kept
<1> HIDE DEF b
<1>4. Keeps(t, d)
  BY <1>3, AddFloatingType, ThenSame DEF Keeps, Sound, Kept
<1> HIDE DEF d
<1>5. old # NIL => Keeps(t, WorkspaceConsiderDestroy(d, old))
  BY <1>0, <1>4, ConsiderKeeps, KeepsTwice DEF Keeps, Kept
<1> QED
  BY <1>1, <1>2, <1>5

LEMMA PullAt ==
    ASSUME NEW S, NEW q \in Seq(S), NEW i \in Nat \ {0}, NEW c \in S
    PROVE  LET was == IndexOf(q, c)
               end == Len(q) + 1
               to == IF i > end THEN end ELSE i
               at == IF was # 0 /\ was < to THEN to - 1 ELSE to
           IN  at \in 1..(Len(RemoveFirst(q, c)) + 1)
<1> DEFINE was == IndexOf(q, c)
           end == Len(q) + 1
           to == IF i > end THEN end ELSE i
           at == IF was # 0 /\ was < to THEN to - 1 ELSE to
           r == RemoveFirst(q, c)
<1>1. Len(q) \in Nat
  OBVIOUS
<1>2. \/ was = 0 /\ \A j \in 1..Len(q) : q[j] # c
      \/ was \in 1..Len(q) /\ q[was] = c
  BY IndexOfFirst
<1>3. /\ r \in Seq(S)
      /\ c \notin ToSet(q) => r = q
      /\ c \in ToSet(q) => \E k \in 1..Len(q) : q[k] = c /\ Len(r) = Len(q) - 1
  BY RemoveFirstShifts
<1>4. c \in ToSet(q) <=> was # 0
  <2>1. c \in ToSet(q) <=> \E j \in 1..Len(q) : q[j] = c
    BY RangeSeq
  <2> HIDE DEF was
  <2> QED
    BY <1>1, <1>2, <2>1
<1> HIDE DEF was, r
<1>5. to \in 1..(Len(q) + 1)
  BY <1>1
<1>6. Len(r) = IF was = 0 THEN Len(q) ELSE Len(q) - 1
  BY <1>3, <1>4
<1>7. at \in 1..(Len(r) + 1)
  <2> HIDE DEF to
  <2> QED
    BY <1>1, <1>2, <1>5, <1>6
<1> QED
  BY <1>7 DEF was, r

LEMMA PullPlace ==
    ASSUME NEW S, NEW q \in Seq(S), NEW i \in Nat \ {0}, NEW c \in S
    PROVE  LET was == IndexOf(q, c)
               end == Len(q) + 1
               to == IF i > end THEN end ELSE i
               at == IF was # 0 /\ was < to THEN to - 1 ELSE to
           IN  InsertAt(RemoveFirst(q, c), at, c) \in Seq(S)
<1> DEFINE was == IndexOf(q, c)
           end == Len(q) + 1
           to == IF i > end THEN end ELSE i
           at == IF was # 0 /\ was < to THEN to - 1 ELSE to
<1>1. at \in 1..(Len(RemoveFirst(q, c)) + 1)
  BY PullAt
<1> HIDE DEF at
<1> QED
  BY <1>1, RemoveFirstType, InsertAtType DEF at

LEMMA PullColumnSound ==
    ASSUME NEW t, Sound(t), Roomy(t), NEW v \in Views, t.ws[v] # NIL,
           NEW w \in Workspaces, NEW i \in Nat \ {0}
    PROVE  Sound(PullColumn(t, v, w, i)) /\ PullColumn(t, v, w, i).outs = t.outs /\ Kept(t, PullColumn(t, v, w, i))
<1> DEFINE old == t.ws[v]
           c == IF t.parent[v] = NIL THEN v ELSE t.parent[v]
           own == IF IsColumn(c) THEN t.kids[c] ELSE <<c>>
           first == SelectInSeq(own, LAMBDA x : t.mode[x] # "none")
           a == IF first = 0 THEN t ELSE FullscreenDisable(t, own[first])
           b == DisableIf(a, a.fs[w])
           col == IF c \in Views THEN Fresh(b) ELSE c
           d == IF c \in Views THEN NewColumn(b, w, c) ELSE IF old # w THEN Detach(b, c) ELSE b
           was == IndexOf(d.tiling[w], col)
           end == Len(d.tiling[w]) + 1
           to == IF i > end THEN end ELSE i
           at == IF was # 0 /\ was < to THEN to - 1 ELSE to
           q == InsertAt(RemoveFirst(d.tiling[w], col), at, col)
           k == [d.tiling EXCEPT ![w] = q]
           x == [d EXCEPT !.tiling[w] = InsertAt(RemoveFirst(@, col), at, col)]
           e == Place(x, col, w)
<1>0. /\ t \in States /\ v \in Containers /\ old \in Workspaces
      /\ c \in Containers /\ (IsColumn(c) \/ c = v)
  BY DEF Sound, States, Containers, IsColumn
<1>1. PullColumn(t, v, w, i) = IF old # w THEN WorkspaceConsiderDestroy(e, old) ELSE e
  BY DEF PullColumn
<1> HIDE DEF c, old
<1>2. own \in Seq(Views)
  <2>1. CASE IsColumn(c)
    <3>1. t.kids[c] \in Seq(Views)
      BY <1>0, <2>1 DEF States, IsColumn
    <3> QED
      BY <2>1, <3>1
  <2>2. CASE ~IsColumn(c)
    <3>1. c \in Views
      BY <1>0, <2>2
    <3>2. <<c>> \in Seq(Views)
      BY <3>1
    <3> QED
      BY <2>2, <3>2
  <2> QED
    BY <2>1, <2>2
<1> HIDE DEF own
<1>3. first = 0 \/ own[first] \in Views
  <2> DEFINE M == {y \in Views : t.mode[y] # "none"}
             g == SelectInSeq(own, LAMBDA y : y \in M)
  <2>1. \/ g = 0 /\ \A j \in 1..Len(own) : own[j] \notin M
        \/ g \in 1..Len(own) /\ own[g] \in M /\ \A j \in 1..(g-1) : own[j] \notin M
    BY <1>2, SelectFirst
  <2>2. \A j \in 1..Len(own) : own[j] \in M <=> t.mode[own[j]] # "none"
    BY <1>2
  <2>3. first = g
    <3> HIDE DEF M
    <3> QED
      BY <2>2 DEF SelectInSeq
  <2> HIDE DEF g, first
  <2> QED
    BY <2>1, <2>3
<1> HIDE DEF first
<1>4. Keeps(t, a)
  <2>1. first # 0 => Keeps(t, FullscreenDisable(t, own[first]))
    BY <1>0, <1>3, FullscreenDisableType, SameKeeps
  <2>2. Keeps(t, t)
    BY DEF Keeps, Kept
  <2> QED
    BY <2>1, <2>2
<1> HIDE DEF a
<1>5. Keeps(t, b)
  <2>1. a.fs[w] \in Views \union {NIL}
    BY <1>4 DEF Keeps, Sound, States
  <2> QED
    BY <1>4, <2>1, DisableIfType, ThenSame DEF Keeps, Sound, Kept
<1> HIDE DEF b
<1>6. Sound(b) /\ Roomy(b)
  BY <1>5 DEF Keeps, Roomy, Kept
<1>7. col \in Containers
  BY <1>0, <1>6, FreshType DEF Containers
<1> HIDE DEF col
<1>8. Sound(d) /\ d.outs = b.outs /\ Kept(b, d)
  <2>1. c \in Views => Sound(NewColumn(b, w, c)) /\ NewColumn(b, w, c).outs = b.outs /\ Kept(b, NewColumn(b, w, c))
    BY <1>6, NewColumnSound
  <2>2. Keeps(b, Detach(b, c))
    BY <1>0, <1>6, DetachType, SameKeeps DEF Sound
  <2> QED
    BY <1>6, <2>1, <2>2 DEF Keeps, Kept
<1> HIDE DEF d
<1>9. Sound(x) /\ x.outs = d.outs /\ Kept(d, x)
  <2>1. d.tiling[w] \in Seq(Containers) /\ d.tiling \in [Workspaces -> Seq(Containers)]
    BY <1>8 DEF Sound, States
  <2>2. q \in Seq(Containers)
    BY <1>7, <2>1, PullPlace
  <2>3. x = [d EXCEPT !.tiling = k]
    BY <1>8 DEF Sound, States
  <2> HIDE DEF q, x
  <2>4. k \in [Workspaces -> Seq(Containers)]
    BY <2>1, <2>2
  <2> HIDE DEF k
  <2>5. x \in States /\ Same(d, x)
    <3>1. x \in States /\ Plain(d, x)
      BY <1>8, <2>3, <2>4 DEF Sound, States, Plain
    <3> QED
      BY <3>1, PlainSame
  <2> QED
    BY <1>8, <2>5, SameKeeps DEF Keeps, Kept
<1> HIDE DEF x
<1>10. Sound(e) /\ e.outs = x.outs /\ Kept(x, e)
  BY <1>7, <1>9, PlaceType, SameKeeps DEF Sound, Keeps, Kept
<1> HIDE DEF e
<1>11. e.outs = t.outs /\ Kept(t, e)
  <2>1. Kept(t, b) /\ Kept(b, d) /\ Kept(d, x) /\ Kept(x, e)
    BY <1>5, <1>8, <1>9, <1>10 DEF Keeps
  <2>2. Kept(t, d) /\ Kept(d, e)
    BY <2>1, KeptTwice
  <2>3. Kept(t, e)
    BY <2>2, KeptTwice
  <2> QED
    BY <1>5, <1>8, <1>9, <1>10, <2>3 DEF Keeps
<1>12. Keeps(e, WorkspaceConsiderDestroy(e, old))
  BY <1>0, <1>10, ConsiderKeeps
<1> QED
  BY <1>1, <1>10, <1>11, <1>12, KeptTwice DEF Keeps

-----------------------------------------------------------------------------
(* Workspaces are made.                                                    *)

LEMMA CreateServed ==
    ASSUME NEW t \in States, NEW E, NEW N, Served(t, E, N),
           NEW o \in Outputs \union {Fallback}, o \in Home(t) \union E, NEW w \in Free(t)
    PROVE  LET u == WorkspaceCreate(t, o, w)
           IN  /\ u \in States /\ Served(u, E, N) /\ (N = {o} => Served(u, E, {}))
               /\ u.outs = t.outs /\ u.live = t.live /\ Kept(t, u)
               /\ Free(u) = Free(t) \ {w}
               /\ On(u, o) = On(t, o) \union {w}
               /\ \A x : x # o => On(u, x) = On(t, x)
<1> DEFINE a == [t.alive EXCEPT ![w] = "live"]
           n == [t.on EXCEPT ![w] = o]
           p == [t.prio EXCEPT ![w] = <<o>>]
           r == Append(t.recent, w)
           u == WorkspaceCreate(t, o, w)
<1>0. w \in Workspaces /\ t.alive[w] = "no"
  BY DEF Free
<1>1. u = [t EXCEPT !.alive = a, !.on = n, !.prio = p, !.recent = r]
  BY DEF WorkspaceCreate, States
<1>2. a \in [Workspaces -> {"no", "live", "dying"}] /\ n \in [Workspaces -> Outputs \union {Fallback, NIL}]
  BY DEF States
<1>3. p \in [Workspaces -> Seq(Outputs \union {Fallback})]
  <2>1. t.prio \in [Workspaces -> Seq(Outputs \union {Fallback})]
    BY DEF States
  <2>2. <<o>> \in Seq(Outputs \union {Fallback})
    OBVIOUS
  <2> QED
    BY <2>1, <2>2
<1>4. t.recent \in Seq(Workspaces)
  BY DEF States
<1>5. r \in Seq(Workspaces) /\ Len(r) = Len(t.recent) + 1 /\ r[Len(r)] = w
      /\ \A i \in 1..Len(t.recent) : r[i] = t.recent[i]
  BY <1>0, <1>4
<1> HIDE DEF r
<1>6. Range(t.recent) \subseteq Range(r) /\ w \in Range(r)
  <2>1. Len(t.recent) \in Nat
    BY <1>4
  <2>2. ASSUME NEW x \in Range(t.recent) PROVE x \in Range(r)
    <3>1. PICK i \in 1..Len(t.recent) : t.recent[i] = x
      BY <1>4, RangeSeq
    <3>2. i \in 1..Len(r) /\ r[i] = x
      BY <1>5, <2>1, <3>1
    <3> QED
      BY <1>5, <3>2, RangeSeq
  <2>3. Len(r) \in 1..Len(r)
    BY <1>5, <2>1
  <2>4. w \in Range(r)
    BY <1>5, <2>3, RangeSeq
  <2> QED
    BY <2>2, <2>4
<1>7. \A x \in Workspaces : /\ a[x] = IF x = w THEN "live" ELSE t.alive[x]
                            /\ n[x] = IF x = w THEN o ELSE t.on[x]
  BY <1>0 DEF States
<1> HIDE DEF a, n, p
<1>8. /\ u \in States /\ u.alive = a /\ u.on = n /\ u.recent = r /\ u.prio = p
      /\ u.outs = t.outs /\ u.live = t.live
      /\ u.pool = t.pool /\ u.minimized = t.minimized /\ u.scratch = t.scratch /\ u.lost = t.lost
  <2> HIDE DEF u
  <2> QED
    BY <1>1, <1>2, <1>3, <1>5 DEF States
<1> HIDE DEF u
<1>9. o # NIL
  BY TreeAssumption DEF TreeAssumption
<1>10. On(u, o) = On(t, o) \union {w} /\ \A x : x # o => On(u, x) = On(t, x)
  BY <1>0, <1>7, <1>8 DEF On
<1>11. Free(u) = Free(t) \ {w}
  BY <1>0, <1>7, <1>8 DEF Free
<1>12. Served(u, E, N) /\ (N = {o} => Served(u, E, {}))
  <2>1. \A x \in Workspaces : u.on[x] # NIL <=> u.alive[x] = "live"
    BY <1>7, <1>8, <1>9 DEF Served
  <2>2. \A x \in Workspaces : u.alive[x] = "live" => x \in Range(u.recent)
    BY <1>6, <1>7, <1>8 DEF Served
  <2>3. \A x \in Workspaces : u.alive[x] = "live" => u.on[x] \in Home(u) \union E
    BY <1>7, <1>8 DEF Served, Home
  <2>4. \A x \in Range(u.outs) \ N : On(u, x) # {}
    BY <1>8, <1>10 DEF Served
  <2>5. On(u, o) # {}
    BY <1>10
  <2> QED
    BY <1>8, <2>1, <2>2, <2>3, <2>4, <2>5 DEF Served
<1>13. Kept(t, u)
  <2>1. SUFFICES ASSUME NEW X, Stowed(t, X) PROVE Stowed(u, X)
    BY <1>8 DEF Kept
  <2>2. t.pool[w] = {}
    BY <1>0, <2>1 DEF Stowed
  <2> QED
    BY <1>7, <1>8, <2>1, <2>2 DEF Stowed
<1> QED
  BY <1>8, <1>10, <1>11, <1>12, <1>13 DEF u

(* workspace_create on the output that has the focus. *)
LEMMA CreateFocusedKeeps ==
    ASSUME NEW t, Sound(t), t.outs # <<>>, NEW w \in Free(t)
    PROVE  Keeps(t, WorkspaceCreate(t, t.on[FocusedWs(t)], w))
<1>1. ASSUME NEW o \in Range(t.outs) PROVE Keeps(t, WorkspaceCreate(t, o, w))
  <2>1. t \in States /\ Served(t, {}, {})
    BY DEF Sound
  <2>2. t.outs \in Seq(Outputs)
    BY <2>1 DEF States
  <2>3. o \in Outputs
    BY <2>2, RangeSeq
  <2>4. o \in Outputs \union {Fallback} /\ o \in Home(t) \union {}
    BY <2>3 DEF Home
  <2> DEFINE u == WorkspaceCreate(t, o, w)
  <2>5. u \in States /\ Served(u, {}, {}) /\ u.live = t.live /\ u.outs = t.outs /\ Kept(t, u)
    BY <2>1, <2>4, CreateServed
  <2> QED
    BY <2>5 DEF Keeps, Sound
<1>2. t.on[FocusedWs(t)] \in Range(t.outs)
  BY FocusedWsLive
<1> QED
  BY <1>1, <1>2

LEMMA PositionsType ==
    ASSUME NEW t, Sound(t), NEW w \in Workspaces, NEW i \in Positions(t, w)
    PROVE  i \in Nat \ {0}
<1>1. t.tiling[w] \in Seq(Containers)
  BY DEF Sound, States
<1>2. Len(t.tiling[w]) \in Nat
  BY <1>1
<1> QED
  BY <1>2 DEF Positions

-----------------------------------------------------------------------------
(* The steps on windows.                                                   *)

LEMMA MapSound ==
    ASSUME Sound(s), Roomy(s), NEW v \in Views, NEW w \in Workspaces,
           NEW float \in BOOLEAN, NEW full \in BOOLEAN, Map(v, w, float, full)
    PROVE  Sound(s') /\ s'.outs = s.outs /\ Kept(s, s')
<1> DEFINE a == [s EXCEPT !.live = @ \union {v}, !.mode[v] = "none", !.parent[v] = NIL, !.ws[v] = NIL]
           d(i) == IF float THEN AddFloating(a, w, v) ELSE AddTiling(a, w, v, i)
<1>0. v \in Containers /\ v \notin Columns
  BY TreeAssumption DEF Containers, TreeAssumption
<1>1. PICK i \in Positions(s, w) : s' = IF full THEN Fullscreen(d(i), v, "workspace") ELSE d(i)
  BY DEF Map, Becomes
<1>2. /\ a \in States /\ a.alive = s.alive /\ a.on = s.on /\ a.recent = s.recent
      /\ a.outs = s.outs /\ a.live = s.live \union {v}
      /\ a.pool = s.pool /\ a.minimized = s.minimized /\ a.scratch = s.scratch /\ a.lost = s.lost
  BY <1>0 DEF Sound, States, Modes
<1> HIDE DEF a
<1>3. Sound(a) /\ Roomy(a)
  BY <1>0, <1>2, SameSound DEF Roomy
<1>4. i \in Nat \ {0}
  BY PositionsType
<1>5. Sound(d(i)) /\ d(i).outs = a.outs /\ Kept(a, d(i))
  <2>1. Keeps(a, AddFloating(a, w, v))
    BY <1>3, AddFloatingType, SameKeeps DEF Sound
  <2>2. Sound(AddTiling(a, w, v, i)) /\ AddTiling(a, w, v, i).outs = a.outs /\ Kept(a, AddTiling(a, w, v, i))
    BY <1>0, <1>3, <1>4, AddTilingSound
  <2> QED
    BY <2>1, <2>2 DEF Keeps, Kept
<1> DEFINE e == d(i)
<1>6. Sound(e) /\ e.outs = s.outs /\ Kept(s, e)
  <2>1. Kept(s, a)
    BY <1>2, MovedKept
  <2> HIDE DEF d
  <2> QED
    BY <1>2, <1>5, <2>1, KeptTwice
<1>7. s' = IF full THEN Fullscreen(e, v, "workspace") ELSE e
  BY <1>1
<1> HIDE DEF d, e
<1>8. Keeps(e, Fullscreen(e, v, "workspace"))
  BY <1>6, FullscreenType, SameKeeps DEF Sound, Modes
<1> QED
  BY <1>6, <1>7, <1>8, KeptTwice DEF Keeps

LEMMA UnmapSound ==
    ASSUME Sound(s), NEW v \in Views, Unmap(v)
    PROVE  Sound(s') /\ s'.outs = s.outs /\ Kept(s, s')
<1> DEFINE p == s.parent[v]
           w == s.ws[v]
           a == ContainerBeginDestroy(s, v)
           b == LeftBehind(a, p, w)
<1>0. v \in Containers /\ w \in Workspaces \union {NIL}
  BY DEF Sound, States, Containers
<1>1. s' = b \/ \E x \in Views : s' = FocusView(b, x)
  BY DEF Unmap, FocusNext, BecomesOneOf
<1>2. Keeps(s, a)
  BY <1>0, ContainerBeginDestroyType, SameKeeps DEF Sound
<1> HIDE DEF a, p, w
<1>3. Sound(b) /\ b.outs = s.outs /\ Kept(s, b)
  BY <1>0, <1>2, LeftBehindKeeps DEF Keeps, Kept
<1> HIDE DEF b
<1> QED
  BY <1>1, <1>3, FocusViewKeeps DEF Keeps, Kept

LEMMA SetFloatingSound ==
    ASSUME Sound(s), Roomy(s), NEW v \in Views, SetFloating(v)
    PROVE  Sound(s') /\ s'.outs = s.outs /\ (v \notin s.minimized => Kept(s, s'))
<1> DEFINE n == Len(s.tiling[s.ws[v]]) + 1
<1>1. \/ \E i \in 1..n : s' = FloatingDisable(s, v, i)
      \/ s' = FloatingEnable(s, v)
  BY DEF SetFloating, Becomes
<1>2. \A i \in 1..n : i \in Nat \ {0}
  <2>1. s.ws[v] \in Workspaces
    <3>1. s.ws[v] # NIL /\ v \in Containers
      BY DEF SetFloating, InTree, Containers
    <3>2. s.ws \in [Containers -> Workspaces \union {NIL}]
      BY DEF Sound, States
    <3> QED
      BY <3>1, <3>2
  <2>2. s.tiling[s.ws[v]] \in Seq(Containers)
    BY <2>1 DEF Sound, States
  <2>3. n \in Nat
    BY <2>2
  <2> QED
    BY <2>3
<1> HIDE DEF n
<1> QED
  BY <1>1, <1>2, FloatingDisableSound, FloatingEnableKeeps DEF Keeps

LEMMA SetFullscreenSound ==
    ASSUME Sound(s), NEW v \in Views, NEW m \in Modes, SetFullscreen(v, m)
    PROVE  Sound(s') /\ s'.outs = s.outs /\ Kept(s, s')
<1> DEFINE t == Fullscreen(s, v, m)
<1>1. s' \in {t, FocusView(t, v)}
  BY DEF SetFullscreen, BecomesOneOf
<1>2. Keeps(s, t)
  BY FullscreenType, SameKeeps DEF Sound
<1> HIDE DEF t
<1> QED
  BY <1>1, <1>2, FocusViewKeeps DEF Keeps, Kept

LEMMA MoveContainerSound ==
    ASSUME Sound(s), Roomy(s), NEW v \in Views, NEW w \in Workspaces, MoveContainer(v, w)
    PROVE  Sound(s') /\ s'.outs = s.outs /\ Kept(s, s')
<1> DEFINE made == IF w \in Live THEN s ELSE WorkspaceCreate(s, s.on[FocusedWs(s)], w)
           a == IF Hidden(v) THEN ScratchpadShow(made, v) ELSE made
           Left(t) == LeftBehind(t, s.parent[v], s.ws[v])
<1>1. /\ s.outs # <<>> /\ w \in Live \union Free(s)
      /\ \/ \E i \in Positions(a, w) : s' = Left(MoveToWorkspace(a, v, w, i))
         \/ \E x \in ViewsOn(made, w) : \E i \in Positions(a, w) :
               s' = Left(MoveToContainer(a, v, x, i))
  BY DEF MoveContainer, Becomes
<1>2. Keeps(s, made)
  <2>1. Keeps(s, s)
    BY DEF Keeps, Kept
  <2>2. w \notin Live => Keeps(s, WorkspaceCreate(s, s.on[FocusedWs(s)], w))
    BY <1>1, CreateFocusedKeeps
  <2> QED
    BY <2>1, <2>2
<1>3. ViewsOn(made, w) \subseteq Views
  BY DEF ViewsOn
<1> HIDE DEF made
<1>4. Keeps(s, a)
  BY <1>2, ScratchpadShowKeeps, KeepsTwice DEF Keeps, Kept
<1> HIDE DEF a
<1>5. Sound(a) /\ Roomy(a) /\ a.outs = s.outs /\ Kept(s, a)
  BY <1>4 DEF Keeps, Roomy
<1>6. \A t : Sound(t) /\ t.outs = s.outs /\ Kept(s, t) =>
        Sound(Left(t)) /\ Left(t).outs = s.outs /\ Kept(s, Left(t))
  <2>1. s.ws[v] \in Workspaces \union {NIL}
    BY DEF Sound, States, Containers
  <2> QED
    BY <2>1, LeftBehindKeeps, KeptTwice DEF Keeps
<1>7. \A i \in Positions(a, w) :
        Sound(MoveToWorkspace(a, v, w, i)) /\ MoveToWorkspace(a, v, w, i).outs = s.outs /\ Kept(s, MoveToWorkspace(a, v, w, i))
  BY <1>5, PositionsType, MoveToWorkspaceSound, KeptTwice
<1>8. \A x \in Views : \A i \in Positions(a, w) :
        Sound(MoveToContainer(a, v, x, i)) /\ MoveToContainer(a, v, x, i).outs = s.outs /\ Kept(s, MoveToContainer(a, v, x, i))
  BY <1>5, PositionsType, MoveToContainerSound, KeptTwice
<1> HIDE DEF Left
<1> QED
  BY <1>1, <1>3, <1>6, <1>7, <1>8

LEMMA MoveInDirectionSound ==
    ASSUME Sound(s), NEW v \in Views, NEW i \in 1..Cardinality(Views),
           NEW j \in 1..Cardinality(Views), MoveInDirection(v, i, j)
    PROVE  Sound(s') /\ s'.outs = s.outs /\ Kept(s, s')
<1> DEFINE p == s.parent[v]
           w == s.ws[v]
           k == [s EXCEPT !.kids[p] = Swapped(@, i, j)]
           x == [s EXCEPT !.tiling[w] = Swapped(@, i, j)]
<1>0. /\ s \in States /\ w \in Workspaces /\ p \in Columns \union {NIL}
      /\ j = i + 1 /\ i \in Nat /\ j \in Nat /\ i >= 1
  <2>1. Cardinality(Views) \in Nat
    BY TreeAssumption, FS_CardinalityType DEF TreeAssumption
  <2>2. s \in States /\ v \in Containers
    BY DEF Sound, Containers
  <2>3. w \in Workspaces \union {NIL} /\ p \in Columns \union {NIL}
    BY <2>2 DEF States
  <2>4. w # NIL /\ j = i + 1
    BY DEF MoveInDirection, InTree
  <2> QED
    BY <2>1, <2>2, <2>3, <2>4
<1>1. \/ p # NIL /\ j <= Len(s.kids[p]) /\ s' = EndMouseOperation(k, v)
      \/ j <= Len(s.tiling[w]) /\ s' = EndMouseOperation(x, v)
  BY DEF MoveInDirection, Becomes
<1> HIDE DEF p, w
<1>2. ASSUME p # NIL, j <= Len(s.kids[p]) PROVE Keeps(s, k)
  <2> DEFINE q == s.kids[p]
             y == Swapped(q, i, j)
             z == [s.kids EXCEPT ![p] = y]
  <2>1. q \in Seq(Views)
    BY <1>0, <1>2 DEF States
  <2>2. k = [s EXCEPT !.kids = z]
    BY <1>0 DEF States
  <2>3. i \in 1..Len(q) /\ j \in 1..Len(q)
    <3> HIDE DEF q
    <3>1. Len(q) \in Nat
      BY <2>1
    <3> QED
      BY <1>0, <1>2, <3>1 DEF q
  <2> HIDE DEF q
  <2>4. y \in Seq(Views)
    BY <2>1, <2>3, SwappedType
  <2> HIDE DEF y, k
  <2>5. z \in [Columns -> Seq(Views)]
    BY <1>0, <2>4 DEF States
  <2> HIDE DEF z
  <2>6. k \in States /\ Same(s, k)
    <3>1. k \in States /\ Plain(s, k)
      BY <1>0, <2>2, <2>5 DEF States, Plain
    <3> QED
      BY <3>1, PlainSame
  <2> QED
    BY <2>6, SameKeeps
<1>3. ASSUME j <= Len(s.tiling[w]) PROVE Keeps(s, x)
  <2> DEFINE q == s.tiling[w]
             y == Swapped(q, i, j)
             z == [s.tiling EXCEPT ![w] = y]
  <2>1. q \in Seq(Containers)
    BY <1>0 DEF States
  <2>2. x = [s EXCEPT !.tiling = z]
    BY <1>0 DEF States
  <2>3. i \in 1..Len(q) /\ j \in 1..Len(q)
    <3> HIDE DEF q
    <3>1. Len(q) \in Nat
      BY <2>1
    <3> QED
      BY <1>0, <1>3, <3>1 DEF q
  <2> HIDE DEF q
  <2>4. y \in Seq(Containers)
    BY <2>1, <2>3, SwappedType
  <2> HIDE DEF y, x
  <2>5. z \in [Workspaces -> Seq(Containers)]
    BY <1>0, <2>4 DEF States
  <2> HIDE DEF z
  <2>6. x \in States /\ Same(s, x)
    <3>1. x \in States /\ Plain(s, x)
      BY <1>0, <2>2, <2>5 DEF States, Plain
    <3> QED
      BY <3>1, PlainSame
  <2> QED
    BY <2>6, SameKeeps
<1> HIDE DEF k, x
<1>4. \A u : Keeps(s, u) => Keeps(s, EndMouseOperation(u, v))
  BY EndMouseOperationType, ThenSame DEF Keeps, Sound, Kept
<1> QED
  BY <1>1, <1>2, <1>3, <1>4 DEF Keeps, Kept

LEMMA UnsplitSound ==
    ASSUME Sound(s), NEW v \in Views, Unsplit(v)
    PROVE  Sound(s') /\ s'.outs = s.outs /\ Kept(s, s')
<1> DEFINE p == s.parent[v]
           a == AddSibling(s, p, v)
<1>0. p \in Containers /\ v \in Containers
  BY DEF Unsplit, Sound, States, Containers
<1>1. s' = ContainerBeginDestroy(a, p)
  BY DEF Unsplit, Becomes
<1> HIDE DEF p
<1>2. Keeps(s, a)
  BY <1>0, AddSiblingType, SameKeeps DEF Sound
<1> HIDE DEF a
<1>3. Keeps(s, ContainerBeginDestroy(a, p))
  BY <1>0, <1>2, ContainerBeginDestroyType, ThenSame DEF Keeps, Sound, Kept
<1> QED
  BY <1>1, <1>3 DEF Keeps, Kept

LEMMA MoveToScratchpadSound ==
    ASSUME Sound(s), NEW v \in Views, MoveToScratchpad(v)
    PROVE  Sound(s') /\ s'.outs = s.outs /\ Kept(s, s')
<1> DEFINE t == ScratchpadAdd(s, v)
           w == s.ws[v]
<1>1. s' = ScratchpadHide(s, v) \/ s' \in Refocus(t, w)
  BY DEF MoveToScratchpad, Becomes, BecomesOneOf
<1>2. w \in Workspaces
  BY DEF MoveToScratchpad, InTree, Sound, States, Containers
<1>3. Sound(t) /\ t.outs = s.outs /\ Kept(s, t)
  BY ScratchpadAddKeeps DEF Keeps, Kept
<1> HIDE DEF t, w
<1> QED
  BY <1>1, <1>2, <1>3, ScratchpadHideKeeps, RefocusKeeps DEF Keeps, Kept

LEMMA MinimizeSound ==
    ASSUME Sound(s), NEW v \in Views, Minimize(v)
    PROVE  Sound(s') /\ s'.outs = s.outs
<1> DEFINE t == MinimizedHide(s, v)
           w == s.ws[v]
<1>1. s' = t \/ (w # NIL /\ s' \in Refocus(t, w))
  BY DEF Minimize, BecomesOneOf
<1>2. w \in Workspaces \union {NIL}
  BY DEF Sound, States, Containers
<1>3. Sound(t) /\ t.outs = s.outs
  BY MinimizedHideSound DEF Keeps, Kept
<1> HIDE DEF t, w
<1> QED
  BY <1>1, <1>2, <1>3, RefocusKeeps DEF Keeps, Kept

LEMMA RestoreSound ==
    ASSUME Sound(s), Roomy(s), NEW v \in Views, NEW w \in Workspaces, Restore(v, w)
    PROVE  Sound(s') /\ s'.outs = s.outs /\ Kept(s, s')
<1>1. \E i \in Positions(s, w) : s' = MinimizedShow(s, v, w, i)
  BY DEF Restore, Becomes
<1> QED
  BY <1>1, PositionsType, MinimizedShowSound

LEMMA OverviewPullSound ==
    ASSUME Sound(s), Roomy(s), NEW v \in Views, NEW w \in Workspaces, OverviewPull(v, w)
    PROVE  Sound(s') /\ s'.outs = s.outs /\ Kept(s, s')
<1> DEFINE n == Len(s.tiling[w]) + 1
<1>1. /\ s.ws[v] # NIL
      /\ \/ s' = FocusView(PullFloating(s, v, w), v)
         \/ \E i \in 1..n : s' = FocusView(PullColumn(s, v, w, i), v)
  BY DEF OverviewPull, InTree, Becomes
<1>2. \A i \in 1..n : i \in Nat \ {0}
  <2>1. s.tiling[w] \in Seq(Containers)
    BY DEF Sound, States
  <2>2. n \in Nat
    BY <2>1
  <2> QED
    BY <2>2
<1> HIDE DEF n
<1>3. Sound(PullFloating(s, v, w)) /\ PullFloating(s, v, w).outs = s.outs /\ Kept(s, PullFloating(s, v, w))
  BY <1>1, PullFloatingKeeps DEF Keeps, Kept
<1>4. \A i \in 1..n : Sound(PullColumn(s, v, w, i)) /\ PullColumn(s, v, w, i).outs = s.outs /\ Kept(s, PullColumn(s, v, w, i))
  BY <1>1, <1>2, PullColumnSound
<1>5. \A t : Sound(t) => Sound(FocusView(t, v)) /\ FocusView(t, v).outs = t.outs /\ Kept(t, FocusView(t, v))
  BY FocusViewKeeps DEF Keeps, Kept
<1> QED
  BY <1>1, <1>3, <1>4, <1>5, KeptTwice

LEMMA SwitchSound ==
    ASSUME Sound(s), NEW w \in Workspaces, Switch(w)
    PROVE  Sound(s') /\ s'.outs = s.outs /\ Kept(s, s')
<1> DEFINE t == IF w \in Live THEN s ELSE WorkspaceCreate(s, s.on[FocusedWs(s)], w)
<1>1. s' \in Refocus(t, w) /\ s.outs # <<>> /\ w \in Live \union Free(s)
  BY DEF Switch, BecomesOneOf
<1>2. w \notin Live => Keeps(s, WorkspaceCreate(s, s.on[FocusedWs(s)], w))
  BY <1>1, CreateFocusedKeeps
<1>3. Sound(t) /\ t.outs = s.outs /\ Kept(s, t)
  BY <1>2 DEF Keeps, Kept
<1> HIDE DEF t
<1> QED
  BY <1>1, <1>3, RefocusKeeps DEF Keeps, Kept

LEMMA SetToSeqType ==
    ASSUME NEW S, IsFiniteSet(S)
    PROVE  SetToSeq(S) \in Seq(S) /\ Len(SetToSeq(S)) = Cardinality(S)
<1> DEFINE n == Cardinality(S)
<1>1. n \in Nat /\ \E f : f \in Bijection(1..n, S)
  BY FS_CardinalityType DEF ExistsBijection
<1>2. \E f \in [1..n -> S] : IsInjective(f)
  BY <1>1 DEF Bijection, Injection
<1>3. SetToSeq(S) \in [1..n -> S]
  BY <1>2 DEF SetToSeq
<1> QED
  BY <1>1, <1>3

(* The tree once the two have changed places. *)
SwapOf(v, x) ==
    LET a == s.ws[v]  b == s.ws[x]
        cv == IF s.parent[v] = NIL THEN v ELSE s.parent[v]
        cx == IF s.parent[x] = NIL THEN x ELSE s.parent[x]
        i == IndexOf(s.tiling[a], cv)  j == IndexOf(s.tiling[b], cx)
        apart == Detach(Detach(s, cv), cx)
        crossed == IF IsFloating(s, v)
                     THEN [[apart EXCEPT !.floating[b] = @ \union {v}]
                                  EXCEPT !.floating[a] = @ \union {x}]
                     ELSE [[apart EXCEPT !.tiling[b] = Inserted(@, i, cv)]
                                  EXCEPT !.tiling[a] = Inserted(@, j, cx)]
        t == FullscreenReparent(FullscreenReparent(Within(Within(crossed, cv, b), cx, a), cv), cx)
    IN IF ~IsFloating(s, v) /\ (i = 0 \/ j = 0) THEN s
       ELSE IF a # b THEN t
       ELSE IF IsFloating(s, v) THEN s
       ELSE [s EXCEPT !.tiling[a] = Swapped(@, i, j)]

LEMMA SwapOfSound ==
    ASSUME Sound(s), NEW v \in Views, NEW x \in Views, InTree(v), InTree(x)
    PROVE  Sound(SwapOf(v, x)) /\ SwapOf(v, x).outs = s.outs /\ Kept(s, SwapOf(v, x))
<1> DEFINE a == s.ws[v]
           b == s.ws[x]
           cv == IF s.parent[v] = NIL THEN v ELSE s.parent[v]
           cx == IF s.parent[x] = NIL THEN x ELSE s.parent[x]
           i == IndexOf(s.tiling[a], cv)
           j == IndexOf(s.tiling[b], cx)
           apart == Detach(Detach(s, cv), cx)
           fl == [[apart EXCEPT !.floating[b] = @ \union {v}] EXCEPT !.floating[a] = @ \union {x}]
           ti == [[apart EXCEPT !.tiling[b] = Inserted(@, i, cv)]
                         EXCEPT !.tiling[a] = Inserted(@, j, cx)]
           crossed == IF IsFloating(s, v) THEN fl ELSE ti
           in == Within(Within(crossed, cv, b), cx, a)
           t == FullscreenReparent(FullscreenReparent(in, cv), cx)
           sw == [s EXCEPT !.tiling[a] = Swapped(@, i, j)]
           f == IsFloating(s, v)
           u == IF ~f /\ (i = 0 \/ j = 0) THEN s ELSE IF a # b THEN t ELSE IF f THEN s ELSE sw
<1>0. /\ s \in States /\ a \in Workspaces /\ b \in Workspaces
      /\ cv \in Containers /\ cx \in Containers
  <2>1. s \in States /\ v \in Containers /\ x \in Containers
    BY DEF Sound, Containers
  <2>2. a # NIL /\ b # NIL
    BY DEF InTree
  <2> QED
    BY <2>1, <2>2 DEF States, Containers
<1>1. SwapOf(v, x) = u
  BY DEF SwapOf
<1>2. i \in 0..Len(s.tiling[a]) /\ j \in 0..Len(s.tiling[b])
  <2>1. s.tiling[a] \in Seq(Containers) /\ s.tiling[b] \in Seq(Containers)
    BY <1>0 DEF States
  <2> QED
    BY <2>1, IndexOfType
<1>3. Len(s.tiling[a]) \in Nat /\ Len(s.tiling[b]) \in Nat
  <2>1. s.tiling[a] \in Seq(Containers) /\ s.tiling[b] \in Seq(Containers)
    BY <1>0 DEF States
  <2> QED
    BY <2>1
<1> HIDE DEF a, b, cv, cx, i, j, f
<1>4. Sound(apart) /\ apart.outs = s.outs /\ Kept(s, apart)
  <2> DEFINE d == Detach(s, cv)
  <2>1. Keeps(s, d)
    BY <1>0, DetachType, SameKeeps
  <2> HIDE DEF d
  <2>2. Keeps(s, Detach(d, cx))
    BY <1>0, <2>1, DetachType, ThenSame DEF Keeps, Sound, Kept
  <2> QED
    BY <2>2 DEF Keeps, d, Kept
<1> HIDE DEF apart
<1>5. Sound(fl) /\ fl.outs = s.outs /\ Kept(s, fl)
  <2>1. ASSUME NEW k, Sound(k), NEW w \in Workspaces, NEW y \in Views
        PROVE  /\ Sound([k EXCEPT !.floating[w] = @ \union {y}])
               /\ [k EXCEPT !.floating[w] = @ \union {y}].outs = k.outs
               /\ Kept(k, [k EXCEPT !.floating[w] = @ \union {y}])
    <3> DEFINE z == [k.floating EXCEPT ![w] = @ \union {y}]
               e == [k EXCEPT !.floating[w] = @ \union {y}]
    <3>1. z \in [Workspaces -> SUBSET Views] /\ e = [k EXCEPT !.floating = z]
      BY <2>1 DEF Sound, States
    <3> HIDE DEF z, e
    <3>2. e \in States /\ Same(k, e)
      <4>1. e \in States /\ Plain(k, e)
        BY <2>1, <3>1 DEF Sound, States, Plain
      <4> QED
        BY <4>1, PlainSame
    <3> QED
      BY <2>1, <3>2, SameKeeps DEF Keeps, e
  <2> DEFINE y == [apart EXCEPT !.floating[b] = @ \union {v}]
  <2>2. Sound(y) /\ y.outs = s.outs /\ Kept(s, y)
    BY <1>0, <1>4, <2>1, KeptTwice
  <2> HIDE DEF y
  <2>3. /\ Sound([y EXCEPT !.floating[a] = @ \union {x}])
        /\ [y EXCEPT !.floating[a] = @ \union {x}].outs = s.outs
        /\ Kept(s, [y EXCEPT !.floating[a] = @ \union {x}])
    BY <1>0, <2>1, <2>2, KeptTwice
  <2> QED
    BY <2>3 DEF y
<1>6. ASSUME i # 0, j # 0 PROVE Sound(ti) /\ ti.outs = s.outs /\ Kept(s, ti)
  <2> DEFINE y == [apart EXCEPT !.tiling[b] = Inserted(@, i, cv)]
             z == [y EXCEPT !.tiling[a] = Inserted(@, j, cx)]
  <2>1. ti = z
    OBVIOUS
  <2>2. i \in Nat \ {0} /\ j \in Nat \ {0}
    BY <1>2, <1>3, <1>6
  <2> HIDE DEF ti
  <2>3. y \in States /\ Same(apart, y)
    BY <1>0, <1>4, <2>2, TilingType DEF Sound
  <2> HIDE DEF y
  <2>4. z \in States /\ Same(y, z)
    BY <1>0, <2>2, <2>3, TilingType
  <2> HIDE DEF z
  <2> QED
    BY <1>4, <2>1, <2>3, <2>4, SameKeeps, ThenSame DEF Keeps, Kept
<1> HIDE DEF fl, ti
<1>7. ASSUME f \/ (i # 0 /\ j # 0) PROVE Sound(t) /\ t.outs = s.outs /\ Kept(s, t)
  <2>1. Sound(crossed) /\ crossed.outs = s.outs /\ Kept(s, crossed)
    BY <1>5, <1>6, <1>7 DEF f
  <2> HIDE DEF crossed
  <2>2. Sound(in) /\ in.outs = s.outs /\ Kept(s, in)
    <3> DEFINE y == Within(crossed, cv, b)
    <3>1. Sound(y) /\ y.outs = s.outs /\ Kept(s, y)
      BY <1>0, <2>1, WithinType, SameKeeps DEF Sound, Keeps, Kept
    <3> HIDE DEF y
    <3>2. Sound(Within(y, cx, a)) /\ Within(y, cx, a).outs = s.outs /\ Kept(s, Within(y, cx, a))
      BY <1>0, <3>1, WithinType, SameKeeps DEF Sound, Keeps, Kept
    <3> QED
      BY <3>2 DEF y
  <2> HIDE DEF in
  <2> DEFINE y == FullscreenReparent(in, cv)
  <2>3. Sound(y) /\ y.outs = s.outs /\ Kept(s, y)
    BY <1>0, <2>2, FullscreenReparentType, SameKeeps DEF Sound, Keeps, Kept
  <2> HIDE DEF y
  <2>4. Sound(FullscreenReparent(y, cx)) /\ FullscreenReparent(y, cx).outs = s.outs /\ Kept(s, FullscreenReparent(y, cx))
    BY <1>0, <2>3, FullscreenReparentType, SameKeeps DEF Sound, Keeps, Kept
  <2> QED
    BY <2>4 DEF y
<1> HIDE DEF t
<1>8. ASSUME a = b, i # 0, j # 0 PROVE Sound(sw) /\ sw.outs = s.outs /\ Kept(s, sw)
  <2> DEFINE q == s.tiling[a]
             y == Swapped(q, i, j)
             z == [s.tiling EXCEPT ![a] = y]
  <2>1. q \in Seq(Containers)
    BY <1>0 DEF States
  <2>2. sw = [s EXCEPT !.tiling = z]
    BY <1>0 DEF States
  <2>3. i \in 1..Len(q) /\ j \in 1..Len(q)
    BY <1>2, <1>3, <1>8
  <2> HIDE DEF q, sw
  <2>4. y \in Seq(Containers)
    BY <2>1, <2>3, SwappedType
  <2> HIDE DEF y
  <2>5. z \in [Workspaces -> Seq(Containers)]
    BY <1>0, <2>4 DEF States
  <2> HIDE DEF z
  <2>6. sw \in States /\ Same(s, sw)
    <3>1. sw \in States /\ Plain(s, sw)
      BY <1>0, <2>2, <2>5 DEF States, Plain
    <3> QED
      BY <3>1, PlainSame
  <2> QED
    BY <2>6, SameKeeps DEF Keeps, Kept
<1> HIDE DEF sw
<1>9. Sound(u) /\ u.outs = s.outs /\ Kept(s, u)
  <2>1. Kept(s, s)
    BY DEF Kept
  <2> QED
    BY <1>7, <1>8, <2>1
<1> HIDE DEF u
<1> QED
  BY <1>1, <1>9

LEMMA OverviewSwapSound ==
    ASSUME Sound(s), NEW v \in Views, NEW x \in Views, OverviewSwap(v, x)
    PROVE  Sound(s') /\ s'.outs = s.outs /\ Kept(s, s')
<1>1. s' = FocusView(SwapOf(v, x), x) /\ InTree(v) /\ InTree(x)
  BY DEF OverviewSwap, Becomes, SwapOf
<1>2. Sound(SwapOf(v, x)) /\ SwapOf(v, x).outs = s.outs /\ Kept(s, SwapOf(v, x))
  BY <1>1, SwapOfSound
<1> QED
  BY <1>1, <1>2, FocusViewKeeps DEF Keeps, Kept

(* One window of the pool is destroyed with its workspace. *)
DestroyRound(u, v) == [ContainerBeginDestroy(u, v) EXCEPT !.lost = @ \union ({v} \intersect s.live)]
LEMMA DestroyRoundType ==
    ASSUME NEW t \in States, NEW v \in Views
    PROVE  LET u == DestroyRound(t, v) IN u \in States /\ Same(t, u) /\ (v \in s.live => u.lost # {})
<1> DEFINE d == ContainerBeginDestroy(t, v)
           e == [d EXCEPT !.lost = @ \union ({v} \intersect s.live)]
<1>1. v \in Containers
  BY DEF Containers
<1>2. d \in States /\ Same(t, d)
  BY <1>1, ContainerBeginDestroyType
<1>3. DestroyRound(t, v) = e
  BY DEF DestroyRound
<1> HIDE DEF d
<1>4. e \in States /\ Plain(d, e) /\ e.lost = d.lost \union ({v} \intersect s.live)
  BY <1>2 DEF States, Plain
<1> HIDE DEF e
<1>5. Same(t, e)
  BY <1>2, <1>4, PlainSame, SameTwice
<1> QED
  BY <1>3, <1>4, <1>5

(* All of them: one that is mapped is lost. *)
LEMMA DestroyRounds ==
    ASSUME s \in States, NEW w \in Workspaces
    PROVE  LET snap == SetToSeq(s.pool[w])
               t == Rounds([i \in DOMAIN snap |-> [u \in States |->
                              [ContainerBeginDestroy(u, snap[i]) EXCEPT
                                  !.lost = @ \union ({snap[i]} \intersect s.live)]]], s, Len(snap))
           IN  /\ t \in States /\ Same(s, t)
               /\ s.pool[w] # {} /\ s.pool[w] \subseteq s.live => t.lost # {}
               /\ s.pool[w] = {} => t = s
<1> DEFINE pool == s.pool[w]
           snap == SetToSeq(pool)
           n == Len(snap)
           f == [i \in DOMAIN snap |-> [u \in States |-> DestroyRound(u, snap[i])]]
           t == Rounds(f, s, n)
           S == [i \in 0..n |-> {u \in States : Same(s, u) /\ (i > 0 /\ snap[i] \in s.live => u.lost # {})}]
<1>1. pool \subseteq Views /\ IsFiniteSet(pool)
  <2>1. pool \subseteq Views
    BY DEF States
  <2> QED
    BY <2>1, TreeAssumption, FS_Subset DEF TreeAssumption
<1>2. snap \in Seq(pool) /\ Len(snap) = Cardinality(pool)
  BY <1>1, SetToSeqType
<1>3. /\ t = Rounds([i \in DOMAIN snap |-> [u \in States |->
                        [ContainerBeginDestroy(u, snap[i]) EXCEPT
                            !.lost = @ \union ({snap[i]} \intersect s.live)]]], s, n)
  BY DEF DestroyRound
<1> HIDE DEF snap
<1>4. n \in Nat /\ DOMAIN snap = 1..n /\ (\A i \in 1..n : snap[i] \in pool) /\ (n = 0 <=> pool = {})
  <2>1. n = 0 <=> pool = {}
    BY <1>1, <1>2, FS_EmptySet
  <2> QED
    BY <1>2, <2>1
<1> HIDE DEF n, pool
<1>5. ASSUME NEW i \in 1..n, NEW y \in S[i - 1] PROVE f[i][y] \in S[i]
  <2> DEFINE e == DestroyRound(y, snap[i])
  <2>1. i - 1 \in 0..n /\ i \in 0..n
    BY <1>4
  <2>2. y \in States /\ Same(s, y)
    BY <2>1
  <2>3. f[i][y] = e
    BY <1>4, <2>2
  <2>4. e \in States /\ Same(y, e) /\ (snap[i] \in s.live => e.lost # {})
    BY <1>1, <1>4, <2>2, DestroyRoundType
  <2> HIDE DEF e, f
  <2>5. Same(s, e)
    BY <2>2, <2>4, SameTwice
  <2> QED
    BY <2>1, <2>3, <2>4, <2>5
<1>6. s \in S[0]
  <2>1. Same(s, s)
    BY DEF Same, Kept
  <2> QED
    BY <1>4, <2>1
<1> HIDE DEF f
<1>7. t \in S[n]
  <2> HIDE DEF S
  <2> QED
    BY <1>4, <1>5, <1>6, RoundsReach
<1>8. n = 0 => t = s
  BY <1>4, RoundsSteps
<1> HIDE DEF t
<1>9. t \in States /\ Same(s, t) /\ (n > 0 /\ snap[n] \in s.live => t.lost # {})
  <2>1. n \in 0..n
    BY <1>4
  <2> QED
    BY <1>7, <2>1
<1>10. pool # {} /\ pool \subseteq s.live => t.lost # {}
  <2>1. pool # {} => n > 0 /\ n \in 1..n
    BY <1>4
  <2> QED
    BY <1>4, <1>9, <2>1
<1> QED
  BY <1>3, <1>4, <1>8, <1>9, <1>10 DEF snap, n, pool

LEMMA WorkspaceDestroySound ==
    ASSUME Sound(s), NEW w \in Workspaces, WorkspaceDestroy(w)
    PROVE  /\ Sound(s') /\ s'.outs = s.outs
           /\ Running' /\ Stowed(s, {}) => Stowed(s', {})
<1> DEFINE snap == SetToSeq(s.pool[w])
           t == Rounds([i \in DOMAIN snap |-> [u \in States |->
                          [ContainerBeginDestroy(u, snap[i]) EXCEPT
                              !.lost = @ \union ({snap[i]} \intersect s.live)]]], s, Len(snap))
           r == [t EXCEPT !.alive[w] = "no", !.pool[w] = {},
                          !.crash = IF s.pool[w] \subseteq s.live THEN @ ELSE "used after free"]
<1>1. s \in States /\ s.alive[w] = "dying" /\ s' = r
  BY DEF Sound, WorkspaceDestroy, Becomes
<1>2. /\ t \in States /\ Same(s, t)
      /\ s.pool[w] # {} /\ s.pool[w] \subseteq s.live => t.lost # {}
      /\ s.pool[w] = {} => t = s
  BY <1>1, DestroyRounds
<1> HIDE DEF t
<1>8. Sound(t) /\ t.outs = s.outs
  BY <1>2, SameKeeps DEF Keeps
<1> DEFINE a == [t.alive EXCEPT ![w] = "no"]
           p == [t.pool EXCEPT ![w] = {}]
           k == IF s.pool[w] \subseteq s.live THEN t.crash ELSE "used after free"
<1>9. r = [t EXCEPT !.alive = a, !.pool = p, !.crash = k]
  BY <1>2 DEF States
<1>10. /\ a \in [Workspaces -> {"no", "live", "dying"}] /\ p \in [Workspaces -> SUBSET Views]
       /\ \A x \in Workspaces : a[x] = "live" <=> t.alive[x] = "live"
       /\ \A x \in Workspaces : /\ a[x] = IF x = w THEN "no" ELSE t.alive[x]
                                /\ p[x] = IF x = w THEN {} ELSE t.pool[x]
       /\ k \in {"no", "no list of children", "list overrun", "no workspace", "dragged as tiled",
                 "destroyed twice", "used after free"}
  <2>1. t.alive[w] = "dying"
    BY <1>1, <1>2 DEF Same
  <2> QED
    BY <1>2, <2>1 DEF States
<1>12. k = "no" => s.pool[w] \subseteq s.live
  OBVIOUS
<1> HIDE DEF a, p, r, k
<1>11. /\ r \in States /\ r.on = t.on /\ r.recent = t.recent /\ r.outs = t.outs /\ r.alive = a
       /\ r.pool = p /\ r.minimized = t.minimized /\ r.scratch = t.scratch /\ r.lost = t.lost
       /\ r.crash = k
  BY <1>2, <1>9, <1>10 DEF States
<1>13. ASSUME r.crash = "no", r.lost = {}, Stowed(s, {}) PROVE Stowed(r, {})
  <2>1. s.pool[w] = {}
    BY <1>2, <1>11, <1>12, <1>13
  <2>2. t = s
    BY <1>2, <2>1
  <2> QED
    BY <1>1, <1>10, <1>11, <1>13, <2>1, <2>2 DEF Stowed
<1> QED
  BY <1>1, <1>8, <1>10, <1>11, <1>13, SameLiveSound DEF Running

LEMMA WindowStepSound ==
    ASSUME Sound(s), Roomy(s), NEW v \in Views, WindowStep(v)
    PROVE  Sound(s') /\ s'.outs = s.outs
<1>1. CASE \E w \in Workspaces, float, full \in BOOLEAN : Map(v, w, float, full)
  BY <1>1, MapSound
<1>2. CASE Unmap(v)
  BY <1>2, UnmapSound
<1>3. CASE SetFloating(v)
  BY <1>3, SetFloatingSound
<1>4. CASE \E m \in Modes : SetFullscreen(v, m)
  BY <1>4, SetFullscreenSound
<1>5. CASE \E i, j \in 1 .. Cardinality(Views) : MoveInDirection(v, i, j)
  BY <1>5, MoveInDirectionSound
<1>6. CASE Unsplit(v)
  BY <1>6, UnsplitSound
<1>7. CASE MoveToScratchpad(v)
  BY <1>7, MoveToScratchpadSound
<1>8. CASE ShowScratchpad(v)
  BY <1>8, ScratchpadShowKeeps DEF ShowScratchpad, Becomes, Keeps, Kept
<1>9. CASE Minimize(v)
  BY <1>9, MinimizeSound
<1> QED
  BY <1>1, <1>2, <1>3, <1>4, <1>5, <1>6, <1>7, <1>8, <1>9 DEF WindowStep

-----------------------------------------------------------------------------
(* Workspaces move between outputs.                                        *)

LEMMA LowestFree ==
    ASSUME NEW t, Free(t) # {}
    PROVE  Lowest(Free(t)) \in Free(t)
<1>1. Free(t) \in SUBSET Nat
  BY TreeAssumption DEF TreeAssumption, Free
<1> QED
  BY <1>1, LowestIn

LEMMA PriorityType ==
    ASSUME NEW t \in States, NEW w \in Workspaces, NEW q \in Seq(Outputs \union {Fallback})
    PROVE  LET u == [t EXCEPT !.prio[w] = q] IN u \in States /\ Plain(t, u)
<1> DEFINE p == [t.prio EXCEPT ![w] = q]
           u == [t EXCEPT !.prio[w] = q]
<1>1. t.prio \in [Workspaces -> Seq(Outputs \union {Fallback})]
  BY DEF States
<1>2. p \in [Workspaces -> Seq(Outputs \union {Fallback})]
  BY <1>1
<1>3. u = [t EXCEPT !.prio = p]
  BY DEF States
<1> HIDE DEF p, u
<1>4. u \in States /\ Plain(t, u)
  BY <1>2, <1>3 DEF States, Plain
<1> QED
  BY <1>4 DEF u

LEMMA OutputRaisePriorityType ==
    ASSUME NEW t \in States, NEW w \in Workspaces, NEW old, NEW o \in Outputs
    PROVE  LET u == OutputRaisePriority(t, w, old, o) IN u \in States /\ Same(t, u)
<1> DEFINE q == t.prio[w]
           i == IndexOf(q, old)
           j == IndexOf(q, o)
           r == RemoveFirst(q, o)
           x == Raised(q, i, o)
           u == [t EXCEPT !.prio[w] = x]
<1>1. q \in Seq(Outputs \union {Fallback})
  BY DEF States
<1>2. OutputRaisePriority(t, w, old, o) = IF i = 0 \/ (j # 0 /\ j <= i) THEN t ELSE u
  BY DEF OutputRaisePriority
<1> HIDE DEF q
<1>3. Len(q) \in Nat /\ i \in 0..Len(q)
  BY <1>1, IndexOfType
<1>4. /\ r \in Seq(Outputs \union {Fallback})
      /\ (Len(r) = Len(q) \/ Len(r) = Len(q) - 1)
  <2>1. /\ r \in Seq(Outputs \union {Fallback})
        /\ o \notin ToSet(q) => r = q
        /\ o \in ToSet(q) => \E k \in 1..Len(q) : Len(r) = Len(q) - 1
    BY <1>1, RemoveFirstShifts
  <2> HIDE DEF r
  <2> QED
    BY <2>1
<1> HIDE DEF r, i
<1>5. i # 0 => x \in Seq(Outputs \union {Fallback})
  <2>1. i # 0 => i \in 1..(Len(r) + 1)
    BY <1>3, <1>4
  <2>2. i # 0 => InsertAt(r, i, o) \in Seq(Outputs \union {Fallback})
    BY <1>4, <2>1, InsertAtType
  <2> QED
    BY <2>2 DEF Raised, r
<1> HIDE DEF x
<1>6. i # 0 => u \in States /\ Same(t, u)
  BY <1>5, PriorityType, PlainSame
<1> QED
  BY <1>2, <1>6 DEF Same, Kept

LEMMA OutputAddPriorityType ==
    ASSUME NEW t \in States, NEW w \in Workspaces, NEW o \in Outputs \union {Fallback}
    PROVE  LET u == OutputAddPriority(t, w, o) IN u \in States /\ Plain(t, u)
<1> DEFINE q == Append(t.prio[w], o)
           u == [t EXCEPT !.prio[w] = q]
<1>1. t.prio[w] \in Seq(Outputs \union {Fallback})
  BY DEF States
<1>2. q \in Seq(Outputs \union {Fallback})
  BY <1>1
<1>3. OutputAddPriority(t, w, o) = IF IndexOf(t.prio[w], o) # 0 THEN t ELSE u
  BY DEF OutputAddPriority
<1> HIDE DEF q
<1>4. u \in States /\ Plain(t, u)
  BY <1>2, PriorityType
<1> HIDE DEF u
<1> QED
  BY <1>3, <1>4 DEF Plain

LEMMA HighestAvailableType ==
    ASSUME NEW t \in States, NEW w \in Workspaces
    PROVE  HighestAvailable(t, w) \in Range(t.outs) \union {NIL}
<1> DEFINE q == t.prio[w]
           S == Range(t.outs)
           i == SelectInSeq(q, LAMBDA o : o \in S)
<1>1. q \in Seq(Outputs \union {Fallback})
  BY DEF States
<1>2. \/ i = 0 /\ \A j \in 1..Len(q) : q[j] \notin S
      \/ i \in 1..Len(q) /\ q[i] \in S /\ \A j \in 1..(i-1) : q[j] \notin S
  BY <1>1, SelectFirst
<1>3. HighestAvailable(t, w) = IF i = 0 THEN NIL ELSE q[i]
  BY DEF HighestAvailable
<1> HIDE DEF i, q, S
<1> QED
  BY <1>2, <1>3 DEF S

(* A workspace is on another output. *)
LEMMA OnType ==
    ASSUME NEW t \in States, NEW w \in Workspaces, NEW o \in Outputs \union {Fallback, NIL}
    PROVE  LET u == [t EXCEPT !.on[w] = o]
           IN  /\ u \in States /\ u.outs = t.outs /\ u.live = t.live
               /\ u.alive = t.alive /\ u.recent = t.recent
               /\ \A x \in Workspaces : u.on[x] = IF x = w THEN o ELSE t.on[x]
               /\ t.on[w] # NIL \/ o = NIL => Kept(t, u)
<1> DEFINE n == [t.on EXCEPT ![w] = o]
           u == [t EXCEPT !.on[w] = o]
<1>1. n \in [Workspaces -> Outputs \union {Fallback, NIL}] /\ u = [t EXCEPT !.on = n]
  BY DEF States
<1>2. \A x \in Workspaces : n[x] = IF x = w THEN o ELSE t.on[x]
  BY DEF States
<1> HIDE DEF n, u
<1>3. /\ u \in States /\ u.outs = t.outs /\ u.live = t.live
      /\ u.alive = t.alive /\ u.recent = t.recent /\ u.on = n
      /\ u.pool = t.pool /\ u.minimized = t.minimized /\ u.scratch = t.scratch /\ u.lost = t.lost
  BY <1>1 DEF States
<1>4. t.on[w] # NIL \/ o = NIL => Kept(t, u)
  BY <1>2, <1>3, MovedKept
<1> QED
  BY <1>2, <1>3, <1>4 DEF u

LEMMA MoveToOutputSound ==
    ASSUME NEW t, Sound(t), Free(t) # {}, NEW w \in Workspaces, t.alive[w] = "live",
           NEW o \in Range(t.outs), t.on[w] # o
    PROVE  /\ Sound(MoveToOutput(t, w, o)) /\ MoveToOutput(t, w, o).outs = t.outs
           /\ Kept(t, MoveToOutput(t, w, o))
<1> DEFINE old == t.on[w]
           shown == Active(t, o)
           a == [t EXCEPT !.on[w] = o]
           n == Lowest(Free(a))
           c == WorkspaceCreate(a, old, n)
           b == IF On(a, old) = {} THEN Raise(c, n) ELSE a
           d == WorkspaceConsiderDestroy(b, shown)
<1>1. MoveToOutput(t, w, o) = OutputRaisePriority(d, w, old, o)
  BY DEF MoveToOutput
<1>2. t \in States /\ Served(t, {}, {}) /\ t.outs \in Seq(Outputs)
  BY DEF Sound, States
<1>3. o \in Outputs /\ t.outs # <<>> /\ Home(t) = Range(t.outs)
  <2>1. o \in Outputs /\ \E i \in 1..Len(t.outs) : t.outs[i] = o
    BY <1>2, RangeSeq
  <2>2. t.outs # <<>>
    BY <2>1
  <2> QED
    BY <2>1, <2>2 DEF Home
<1>4. old \in Range(t.outs) /\ old \in Outputs
  <2>1. old \in Range(t.outs)
    BY <1>2, <1>3 DEF Served
  <2> QED
    BY <1>2, <2>1, RangeSeq
<1>5. shown \in Workspaces
  <2>1. On(t, o) # {}
    BY <1>2 DEF Served
  <2>2. shown \in On(t, o)
    BY <1>2, <2>1, ActiveOn
  <2> QED
    BY <2>2 DEF On
<1>6. /\ a \in States /\ a.outs = t.outs
      /\ a.alive = t.alive /\ a.recent = t.recent
      /\ \A x \in Workspaces : a.on[x] = IF x = w THEN o ELSE t.on[x]
      /\ Kept(t, a)
  <2>1. t.on[w] # NIL
    BY <1>2 DEF Served
  <2> QED
    BY <1>2, <1>3, <2>1, OnType
<1> HIDE DEF shown, a
<1>7. Home(a) = Home(t) /\ Free(a) = Free(t)
  BY <1>6 DEF Home, Free
<1>8. \A x : x # old => On(t, x) \subseteq On(a, x)
  BY <1>6 DEF On
<1>9. Served(a, {}, {old}) /\ (On(a, old) # {} => Served(a, {}, {}))
  <2>1. \A x \in Workspaces : a.on[x] # NIL <=> a.alive[x] = "live"
    <3>1. o # NIL
      BY <1>3, TreeAssumption DEF TreeAssumption
    <3> QED
      BY <1>2, <1>6, <3>1 DEF Served
  <2>2. \A x \in Workspaces : a.alive[x] = "live" => a.on[x] \in Home(a)
    BY <1>2, <1>3, <1>6, <1>7 DEF Served
  <2>3. \A x \in Range(a.outs) : x # old => On(a, x) # {}
    BY <1>2, <1>6, <1>8 DEF Served
  <2> QED
    BY <1>2, <1>6, <2>1, <2>2, <2>3 DEF Served
<1> HIDE DEF old
<1>10. b \in States /\ Served(b, {}, {}) /\ b.outs = t.outs /\ Kept(a, b)
  <2>1. CASE On(a, old) = {}
    <3>1. n \in Free(a) /\ n \in Workspaces
      BY <1>7, LowestFree DEF Free
    <3> HIDE DEF n
    <3>2. old \in Outputs \union {Fallback} /\ old \in Home(a) \union {}
      BY <1>3, <1>4, <1>7
    <3>3. c \in States /\ Served(c, {}, {}) /\ c.outs = t.outs /\ Kept(a, c)
      BY <1>6, <1>9, <3>1, <3>2, CreateServed
    <3> HIDE DEF c
    <3> QED
      BY <2>1, <3>1, <3>3, RaiseServed, RaiseFields, KeptTwice
  <2>2. CASE On(a, old) # {}
    BY <1>6, <1>9, <2>2 DEF Kept
  <2> QED
    BY <2>1, <2>2
<1> HIDE DEF b
<1>11. d \in States /\ Served(d, {}, {}) /\ d.outs = t.outs /\ Kept(b, d)
  BY <1>5, <1>10, ConsiderServed
<1> HIDE DEF d
<1>12. Sound(d)
  BY <1>11 DEF Sound
<1> DEFINE e == OutputRaisePriority(d, w, old, o)
<1>13. Keeps(d, e)
  BY <1>3, <1>11, <1>12, OutputRaisePriorityType, SameKeeps
<1> HIDE DEF e
<1>14. Kept(t, b) /\ Kept(b, e)
  BY <1>6, <1>10, <1>11, <1>13, KeptTwice DEF Keeps
<1>15. Kept(t, e)
  BY <1>14, KeptTwice
<1> QED
  BY <1>1, <1>11, <1>13, <1>15 DEF Keeps, e

LEMMA RemoveFirstInjective ==
    ASSUME NEW S, NEW q \in Seq(S), IsInjective(q), NEW n \in Range(q)
    PROVE  LET r == RemoveFirst(q, n)
           IN  r \in Seq(S) /\ IsInjective(r) /\ Range(r) = Range(q) \ {n}
<1> DEFINE r == RemoveFirst(q, n)
<1>1. /\ r \in Seq(S)
      /\ n \in ToSet(q) =>
           \E i \in 1..Len(q) :
              /\ q[i] = n /\ Len(r) = Len(q) - 1
              /\ \A j \in 1..Len(r) : r[j] = IF j < i THEN q[j] ELSE q[j + 1]
  BY RemoveFirstShifts
<1>2. n \in ToSet(q)
  BY RangeSeq
<1> HIDE DEF r
<1>3. PICK i \in 1..Len(q) :
              /\ q[i] = n /\ Len(r) = Len(q) - 1
              /\ \A j \in 1..Len(r) : r[j] = IF j < i THEN q[j] ELSE q[j + 1]
  BY <1>1, <1>2
<1>4. Len(q) \in Nat /\ DOMAIN q = 1..Len(q) /\ DOMAIN r = 1..Len(r)
  BY <1>1
<1>5. \A j, k \in 1..Len(q) : q[j] = q[k] => j = k
  BY <1>4 DEF IsInjective
<1>6. IsInjective(r)
  <2> SUFFICES ASSUME NEW j \in 1..Len(r), NEW k \in 1..Len(r), r[j] = r[k] PROVE j = k
    BY <1>4 DEF IsInjective
  <2> DEFINE x == IF j < i THEN j ELSE j + 1
             y == IF k < i THEN k ELSE k + 1
  <2>1. x \in 1..Len(q) /\ y \in 1..Len(q) /\ q[x] = q[y]
    BY <1>3, <1>4
  <2>2. x = y
    BY <1>5, <2>1
  <2> QED
    BY <1>3, <1>4, <2>2
<1>7. n \notin Range(r)
  <2> SUFFICES ASSUME n \in Range(r) PROVE FALSE
    OBVIOUS
  <2>1. PICK j \in 1..Len(r) : r[j] = n
    BY <1>1, RangeSeq
  <2> DEFINE x == IF j < i THEN j ELSE j + 1
  <2>2. x \in 1..Len(q) /\ q[x] = q[i] /\ x # i
    BY <1>3, <1>4, <2>1
  <2> QED
    BY <1>5, <2>2
<1>8. Range(r) = Range(q) \ {n}
  <2>1. (\A x \in Range(q) : x # n => x \in Range(r)) /\ Range(r) \subseteq Range(q)
    BY RemoveFirstOthers DEF r
  <2> QED
    BY <1>7, <2>1
<1> QED
  BY <1>1, <1>6, <1>8 DEF r

(* One workspace leaves the output that is gone. *)
LEMMA EvacuateServed ==
    ASSUME NEW t \in States, NEW o \in Outputs, o \notin Range(t.outs), Served(t, {o}, {}),
           NEW w \in On(t, o)
    PROVE  LET u == Evacuate(t, w)
           IN  /\ u \in States /\ Served(u, {o}, {}) /\ u.outs = t.outs
               /\ On(u, o) = On(t, o) \ {w} /\ Kept(t, u)
<1> DEFINE a == [t EXCEPT !.on[w] = NIL]
           best == HighestAvailable(a, w)
           to == IF best # NIL THEN best ELSE IF a.outs # <<>> THEN a.outs[1] ELSE Fallback
           shown == Active(a, to)
           p == OutputAddPriority(a, w, to)
           b == [p EXCEPT !.on[w] = to]
           x == WorkspaceBeginDestroy(a, w)
           y == WorkspaceConsiderDestroy(b, shown)
<1>1. Evacuate(t, w) = IF IsEmpty(a, w) THEN x ELSE IF shown = NIL THEN b ELSE y
  BY DEF Evacuate
<1>2. w \in Workspaces /\ t.alive[w] = "live" /\ t.on[w] = o
  BY DEF On
<1>3. /\ a \in States /\ a.outs = t.outs
      /\ a.alive = t.alive /\ a.recent = t.recent
      /\ \A z \in Workspaces : a.on[z] = IF z = w THEN NIL ELSE t.on[z]
      /\ a.pool = t.pool /\ a.minimized = t.minimized /\ a.scratch = t.scratch /\ a.lost = t.lost
      /\ Kept(t, a)
  <2>1. a.pool = t.pool /\ a.minimized = t.minimized /\ a.scratch = t.scratch /\ a.lost = t.lost
    BY DEF States
  <2> QED
    BY <1>2, <2>1, OnType
<1> HIDE DEF a
<1>4. to \in Home(t) /\ to \in Outputs \union {Fallback} /\ to # o /\ to # NIL
  <2>1. best \in Range(t.outs) \union {NIL}
    BY <1>2, <1>3, HighestAvailableType
  <2>2. t.outs \in Seq(Outputs)
    BY DEF States
  <2>3. t.outs # <<>> => t.outs[1] \in Range(t.outs)
    <3>1. t.outs # <<>> => 1 \in 1..Len(t.outs)
      BY <2>2
    <3> QED
      BY <2>2, <3>1, RangeSeq
  <2> HIDE DEF best
  <2>4. to \in Home(t)
    BY <1>3, <2>1, <2>3 DEF Home
  <2>5. Range(t.outs) \subseteq Outputs
    BY <2>2, RangeSeq
  <2>6. Fallback \notin Outputs /\ NIL \notin Outputs \union {Fallback}
    BY TreeAssumption DEF TreeAssumption
  <2> HIDE DEF to
  <2> QED
    BY <2>4, <2>5, <2>6 DEF Home
<1> HIDE DEF to
<1>5. NIL \notin Range(t.outs) /\ NIL # o
  <2>1. t.outs \in Seq(Outputs)
    BY DEF States
  <2>2. Range(t.outs) \subseteq Outputs
    BY <2>1, RangeSeq
  <2> QED
    BY <2>2, TreeAssumption DEF TreeAssumption
<1>6. ASSUME IsEmpty(a, w)
      PROVE  /\ x \in States /\ Served(x, {o}, {}) /\ x.outs = t.outs
             /\ On(x, o) = On(t, o) \ {w} /\ Kept(t, x)
  <2>1. /\ x \in States /\ x.outs = a.outs
        /\ x.on = [a.on EXCEPT ![w] = NIL]
        /\ x.alive[w] # "live"
        /\ \A z \in Workspaces : z # w => x.alive[z] = a.alive[z]
        /\ \A z \in Range(a.recent) : z # w => z \in Range(x.recent)
        /\ Kept(a, x)
    BY <1>2, <1>3, BeginDestroyFields
  <2>2. \A z \in Workspaces : x.on[z] = IF z = w THEN NIL ELSE t.on[z]
    <3>1. a.on \in [Workspaces -> Outputs \union {Fallback, NIL}]
      BY <1>3 DEF States
    <3> QED
      BY <1>3, <2>1, <3>1
  <2> HIDE DEF x
  <2>3. \A z : z # NIL => On(x, z) = On(t, z) \ {w}
    BY <1>3, <2>1, <2>2 DEF On
  <2>4. \A z \in Range(t.outs) : On(x, z) # {}
    <3>1. \A z \in Range(t.outs) : w \notin On(t, z) /\ On(t, z) # {}
      BY <1>2 DEF On, Served
    <3> QED
      BY <1>5, <2>3, <3>1
  <2>5. Served(x, {o}, {})
    <3>1. \A z \in Workspaces : x.on[z] # NIL <=> x.alive[z] = "live"
      BY <1>3, <2>1, <2>2 DEF Served
    <3>2. \A z \in Workspaces : x.alive[z] = "live" => z \in Range(x.recent)
      BY <1>3, <2>1 DEF Served
    <3>3. \A z \in Workspaces : x.alive[z] = "live" => x.on[z] \in Home(x) \union {o}
      BY <1>3, <2>1, <2>2 DEF Served, Home
    <3> QED
      BY <1>3, <2>1, <2>4, <3>1, <3>2, <3>3 DEF Served
  <2> QED
    BY <1>3, <1>5, <2>1, <2>3, <2>5, KeptTwice
<1> HIDE DEF x
<1>7. /\ b \in States /\ b.outs = t.outs /\ b.alive = t.alive /\ b.recent = t.recent
      /\ \A z \in Workspaces : b.on[z] = IF z = w THEN to ELSE t.on[z]
      /\ Kept(t, b)
  <2>1. p \in States /\ Plain(a, p)
    BY <1>2, <1>3, <1>4, OutputAddPriorityType
  <2> HIDE DEF p
  <2>2. /\ b \in States /\ b.outs = p.outs
        /\ b.alive = p.alive /\ b.recent = p.recent
        /\ \A z \in Workspaces : b.on[z] = IF z = w THEN to ELSE p.on[z]
    BY <1>2, <1>4, <2>1, OnType
  <2>3. b.pool = p.pool /\ b.minimized = p.minimized /\ b.scratch = p.scratch /\ b.lost = p.lost
    BY <2>1 DEF States
  <2> HIDE DEF b
  <2>4. \A z \in Workspaces : b.on[z] # NIL => t.on[z] # NIL
    BY <1>2, <1>3, <1>5, <2>1, <2>2 DEF Plain
  <2>5. Kept(t, b)
    BY <1>3, <2>1, <2>2, <2>3, <2>4, MovedKept DEF Plain
  <2> QED
    BY <1>3, <2>1, <2>2, <2>5 DEF Plain
<1> HIDE DEF b
<1>8. On(b, o) = On(t, o) \ {w} /\ \A z : z # o => On(t, z) \subseteq On(b, z)
  BY <1>2, <1>4, <1>7 DEF On
<1>9. Served(b, {o}, {})
  <2>1. \A z \in Workspaces : b.on[z] # NIL <=> b.alive[z] = "live"
    BY <1>2, <1>4, <1>7 DEF Served
  <2>2. \A z \in Workspaces : b.alive[z] = "live" => b.on[z] \in Home(b) \union {o}
    BY <1>4, <1>7 DEF Served, Home
  <2>3. \A z \in Range(b.outs) : On(b, z) # {}
    BY <1>7, <1>8 DEF Served
  <2> QED
    BY <1>7, <2>1, <2>2, <2>3 DEF Served
<1>10. shown = NIL \/ (shown \in Workspaces /\ b.on[shown] = to)
  <2>1. Remembered(a)
    BY <1>3 DEF Remembered, Served
  <2>2. shown = NIL \/ shown \in On(a, to)
    BY <1>3, <2>1, ActiveRemembered
  <2> HIDE DEF shown
  <2> QED
    BY <1>3, <1>7, <2>2 DEF On
<1> HIDE DEF shown
<1>11. ASSUME shown # NIL
       PROVE  /\ y \in States /\ Served(y, {o}, {}) /\ y.outs = t.outs
              /\ On(y, o) = On(b, o) /\ Kept(t, y)
  <2>1. shown \in Workspaces /\ b.on[shown] # o /\ o # NIL
    BY <1>4, <1>5, <1>10, <1>11
  <2> QED
    BY <1>7, <1>9, <2>1, ConsiderServed, KeptTwice
<1> HIDE DEF y
<1> QED
  BY <1>1, <1>6, <1>7, <1>8, <1>9, <1>11

LEMMA OutputDisabledSound ==
    ASSUME NEW t, Sound(t), NEW o \in Range(t.outs)
    PROVE  Sound(OutputDisabled(t, o)) /\ Kept(t, OutputDisabled(t, o))
<1> DEFINE n == Cardinality(On(t, o))
           q == RemoveFirst(t.outs, o)
           a == [t EXCEPT !.outs = q]
           f == [i \in 1..n |-> [u \in States |-> Evacuate(u, Lowest(On(u, o)))]]
           S == [i \in 0..n |-> {u \in States : /\ Served(u, {o}, {}) /\ u.outs = q
                                                /\ Cardinality(On(u, o)) = n - i /\ Kept(t, u)}]
           r == Rounds(f, a, n)
<1>1. OutputDisabled(t, o) = r
  BY DEF OutputDisabled
<1>2. t \in States /\ Served(t, {}, {}) /\ t.outs \in Seq(Outputs) /\ IsInjective(t.outs)
  BY DEF Sound, Served, States
<1>3. q \in Seq(Outputs) /\ IsInjective(q) /\ Range(q) = Range(t.outs) \ {o}
  BY <1>2, RemoveFirstInjective
<1> HIDE DEF q
<1>4. o \in Outputs /\ t.outs # <<>> /\ Home(t) = Range(t.outs)
  <2>1. o \in Outputs /\ \E i \in 1..Len(t.outs) : t.outs[i] = o
    BY <1>2, RangeSeq
  <2>2. t.outs # <<>>
    BY <2>1
  <2> QED
    BY <2>1, <2>2 DEF Home
<1>5. \A u : On(u, o) \in SUBSET Nat /\ IsFiniteSet(On(u, o)) /\ Cardinality(On(u, o)) \in Nat
  <2>1. \A u : On(u, o) \subseteq Workspaces
    BY DEF On
  <2>2. Workspaces \subseteq Nat /\ IsFiniteSet(Workspaces)
    BY TreeAssumption DEF TreeAssumption
  <2> QED
    BY <2>1, <2>2, FS_Subset, FS_CardinalityType
<1>6. n \in Nat
  BY <1>5
<1>7. a \in S[0]
  <2>1. /\ a \in States /\ a.alive = t.alive /\ a.on = t.on /\ a.recent = t.recent /\ a.outs = q
        /\ a.pool = t.pool /\ a.minimized = t.minimized /\ a.scratch = t.scratch /\ a.lost = t.lost
    BY <1>2, <1>3 DEF States
  <2> HIDE DEF a
  <2>2. \A x : On(a, x) = On(t, x)
    BY <2>1 DEF On
  <2>3. \A x \in Workspaces : a.alive[x] = "live" => a.on[x] \in Home(a) \union {o}
    BY <1>2, <1>3, <1>4, <2>1 DEF Served, Home
  <2>4. Served(a, {o}, {})
    BY <1>2, <1>3, <2>1, <2>2, <2>3 DEF Served
  <2>5. Kept(t, a)
    BY <2>1, MovedKept
  <2> QED
    BY <1>6, <2>1, <2>2, <2>4, <2>5
<1>8. ASSUME NEW i \in 1..n, NEW y \in S[i - 1] PROVE f[i][y] \in S[i]
  <2> DEFINE w == Lowest(On(y, o))
             e == Evacuate(y, w)
  <2>1. /\ y \in States /\ Served(y, {o}, {}) /\ y.outs = q
        /\ Cardinality(On(y, o)) = n - (i - 1) /\ Kept(t, y)
    <3>1. i - 1 \in 0..n
      BY <1>6
    <3> QED
      BY <3>1
  <2>2. f[i][y] = e
    BY <2>1
  <2>3. On(y, o) # {}
    <3>1. Cardinality(On(y, o)) # 0
      BY <1>6, <2>1
    <3> QED
      BY <3>1, FS_EmptySet
  <2>4. w \in On(y, o)
    BY <1>5, <2>3, LowestIn
  <2> HIDE DEF f, w
  <2>5. o \notin Range(y.outs)
    BY <1>3, <2>1
  <2>6. /\ e \in States /\ Served(e, {o}, {}) /\ e.outs = q /\ On(e, o) = On(y, o) \ {w}
        /\ Kept(t, e)
    BY <1>4, <2>1, <2>4, <2>5, EvacuateServed, KeptTwice
  <2> HIDE DEF e
  <2>7. Cardinality(On(e, o)) = n - i
    <3>1. Cardinality(On(y, o) \ {w}) = Cardinality(On(y, o)) - 1
      BY <1>5, <2>4, FS_RemoveElement
    <3> QED
      BY <1>6, <2>1, <2>6, <3>1
  <2>8. i \in 0..n
    BY <1>6
  <2> QED
    BY <2>2, <2>6, <2>7, <2>8
<1> HIDE DEF f, a
<1>9. r \in S[n]
  <2> HIDE DEF S, n
  <2> QED
    BY <1>6, <1>7, <1>8, RoundsReach
<1> HIDE DEF r
<1>10. r \in States /\ Served(r, {o}, {}) /\ Cardinality(On(r, o)) = 0 /\ Kept(t, r)
  <2>1. n \in 0..n /\ n - n = 0
    BY <1>6
  <2> QED
    BY <1>9, <2>1
<1>11. On(r, o) = {}
  BY <1>5, <1>10, FS_EmptySet
<1>12. \A x \in Workspaces : r.alive[x] = "live" => r.on[x] # o
  BY <1>11 DEF On
<1>13. Served(r, {}, {})
  BY <1>10, <1>12 DEF Served
<1> QED
  BY <1>1, <1>10, <1>13 DEF Sound

(* The workspaces that like output o best come back from another one. *)
LEMMA RestoreFromServed ==
    ASSUME NEW t \in States, NEW o \in Range(t.outs), Served(t, {Fallback}, {o}),
           NEW other \in Range(t.outs), other # o, Free(t) # {}
    PROVE  LET u == RestoreFrom(t, other, o)
           IN  /\ u \in States /\ Served(u, {Fallback}, {o}) /\ u.outs = t.outs
               /\ (Free(u) = Free(t) \/ \E w : Free(u) = Free(t) \ {w})
               /\ On(u, o) = {} => Free(u) = Free(t)
               /\ On(t, o) \subseteq On(u, o) /\ Kept(t, u)
<1> DEFINE back == {w \in On(t, other) : HighestAvailable(t, w) = o}
           k == [w \in Workspaces |-> IF w \in back THEN o ELSE t.on[w]]
           a == [t EXCEPT !.on = k]
           n == Lowest(Free(a))
           u == WorkspaceCreate(a, other, n)
<1>1. RestoreFrom(t, other, o) = IF On(a, other) = {} THEN u ELSE a
  <2>1. a = [t EXCEPT !.on = [w \in Workspaces |-> IF w \in back THEN o ELSE @[w]]]
    BY DEF States
  <2> QED
    BY <2>1 DEF RestoreFrom
<1>2. o \in Outputs /\ other \in Outputs /\ o # NIL
  <2>1. t.outs \in Seq(Outputs)
    BY DEF States
  <2> QED
    BY <2>1, RangeSeq, TreeAssumption DEF TreeAssumption
<1>3. back \subseteq On(t, other)
  OBVIOUS
<1> HIDE DEF back
<1>4. k \in [Workspaces -> Outputs \union {Fallback, NIL}]
  BY <1>2 DEF States
<1>5. \A w \in Workspaces : k[w] = IF w \in back THEN o ELSE t.on[w]
  OBVIOUS
<1> HIDE DEF k
<1>6. /\ a \in States /\ a.on = k /\ a.alive = t.alive /\ a.recent = t.recent
      /\ a.outs = t.outs
      /\ a.pool = t.pool /\ a.minimized = t.minimized /\ a.scratch = t.scratch /\ a.lost = t.lost
  BY <1>4 DEF States
<1> HIDE DEF a
<1>7. Free(a) = Free(t) /\ Home(a) = Home(t)
  BY <1>6 DEF Free, Home
<1>8. /\ \A x : x # o /\ x # other => On(a, x) = On(t, x)
      /\ On(a, o) = On(t, o) \union back /\ On(a, other) = On(t, other) \ back
  BY <1>3, <1>5, <1>6 DEF On
<1>14. On(t, o) \subseteq On(a, o) /\ Kept(t, a)
  <2>1. \A w \in Workspaces : a.on[w] # NIL => t.on[w] # NIL
    <3>1. \A w \in back : t.on[w] = other /\ other # NIL
      BY <1>2, <1>3, TreeAssumption DEF On, TreeAssumption
    <3> QED
      BY <1>5, <1>6, <3>1
  <2> QED
    BY <1>6, <1>8, <2>1, MovedKept
<1>9. On(t, other) # {} /\ o \in Home(t) /\ other \in Home(t)
  BY DEF Served, Home
<1>10. /\ \A w \in Workspaces : a.on[w] # NIL <=> a.alive[w] = "live"
       /\ \A w \in Workspaces : a.alive[w] = "live" => w \in Range(a.recent)
       /\ \A w \in Workspaces : a.alive[w] = "live" => a.on[w] \in Home(a) \union {Fallback}
       /\ IsInjective(a.outs)
  <2>1. \A w \in back : w \in Workspaces /\ t.alive[w] = "live"
    BY <1>3 DEF On
  <2> QED
    BY <1>2, <1>5, <1>6, <1>7, <1>9, <2>1 DEF Served
<1>11. CASE back = {}
  <2>1. On(a, other) # {}
    BY <1>8, <1>9, <1>11
  <2>2. \A x \in Range(a.outs) \ {o} : On(a, x) # {}
    BY <1>6, <1>8, <1>11, <2>1 DEF Served
  <2>3. Served(a, {Fallback}, {o})
    BY <1>10, <2>2 DEF Served
  <2> QED
    BY <1>1, <1>6, <1>7, <1>14, <2>1, <2>3
<1>12. CASE back # {} /\ On(a, other) # {}
  <2>1. \A x \in Range(a.outs) \ {o} : On(a, x) # {}
    BY <1>6, <1>8, <1>12 DEF Served
  <2>2. Served(a, {Fallback}, {o})
    BY <1>10, <2>1 DEF Served
  <2> QED
    BY <1>1, <1>6, <1>7, <1>12, <1>14, <2>2
<1>13. CASE back # {} /\ On(a, other) = {}
  <2>1. \A x \in Range(a.outs) \ {other} : On(a, x) # {}
    BY <1>6, <1>8, <1>13 DEF Served
  <2>2. Served(a, {Fallback}, {other})
    BY <1>10, <2>1 DEF Served
  <2>3. n \in Free(a)
    BY <1>7, LowestFree
  <2> HIDE DEF n
  <2>4. other \in Outputs \union {Fallback} /\ other \in Home(a) \union {Fallback}
    BY <1>2, <1>7, <1>9
  <2>5. /\ u \in States /\ Served(u, {Fallback}, {}) /\ u.outs = a.outs
        /\ Free(u) = Free(a) \ {n} /\ On(u, o) = On(a, o) /\ Kept(a, u)
    BY <1>6, <2>2, <2>3, <2>4, CreateServed
  <2> HIDE DEF u
  <2>6. Served(u, {Fallback}, {o}) /\ On(u, o) # {}
    BY <1>8, <1>13, <2>5 DEF Served
  <2> QED
    BY <1>1, <1>6, <1>7, <1>13, <1>14, <2>5, <2>6, KeptTwice
<1> QED
  BY <1>11, <1>12, <1>13

LEMMA OutputEnabledSound ==
    ASSUME NEW t, Sound(t), NEW o \in Outputs, o \notin Range(t.outs),
           Free(t) # {}, Cardinality(Free(t)) >= Len(t.outs)
    PROVE  Sound(OutputEnabled(t, o)) /\ Kept(t, OutputEnabled(t, o))
<1> DEFINE n == Len(t.outs)
           m == n + 1
           q == Append(t.outs, o)
           a == [t EXCEPT !.outs = q]
           f == [i \in DOMAIN q |-> [u \in States |-> IF q[i] = o THEN u ELSE RestoreFrom(u, q[i], o)]]
           S == [i \in 0..m |-> {u \in States : /\ Served(u, {Fallback}, {o}) /\ u.outs = q
                                                /\ Cardinality(Free(u)) >= n - i
                                                /\ On(u, o) = {} => Free(u) = Free(t)
                                                /\ Kept(t, u)}]
           r == Rounds(f, a, Len(q))
           k == [w \in Workspaces |-> IF r.on[w] = Fallback THEN o ELSE r.on[w]]
           b == [r EXCEPT !.on = k]
           w == Lowest(Free(b))
           c == WorkspaceCreate(b, o, w)
           d == IF FocusedWs(b) = NIL THEN Raise(c, w) ELSE c
<1>1. t \in States /\ Served(t, {}, {}) /\ t.outs \in Seq(Outputs) /\ IsInjective(t.outs)
  BY DEF Sound, Served, States
<1>2. n \in Nat
  BY <1>1
<1>3. /\ q \in Seq(Outputs) /\ Len(q) = m /\ q[m] = o /\ DOMAIN q = 1..m
      /\ \A i \in 1..n : q[i] = t.outs[i]
  BY <1>1
<1> HIDE DEF q
<1>4. /\ \A i \in 1..n : q[i] # o
      /\ IsInjective(q) /\ Range(q) = Range(t.outs) \union {o}
  <2>1. \A i \in 1..n : q[i] \in Range(t.outs)
    BY <1>1, <1>3, RangeSeq
  <2>2. \A i \in 1..n : q[i] # o
    BY <2>1
  <2>3. \A i, j \in 1..n : t.outs[i] = t.outs[j] => i = j
    <3>1. DOMAIN t.outs = 1..n
      BY <1>1
    <3> QED
      BY <1>1, <3>1 DEF IsInjective
  <2>4. \A i \in 1..m : i \in 1..n \/ i = m
    BY <1>2
  <2>5. \A i, j \in 1..m : q[i] = q[j] => i = j
    BY <1>3, <2>2, <2>3, <2>4
  <2>6. IsInjective(q)
    BY <1>3, <2>5 DEF IsInjective
  <2>7. \A x : x \in Range(q) <=> \E i \in 1..m : q[i] = x
    BY <1>3, RangeSeq
  <2>8. \A x : x \in Range(t.outs) <=> \E i \in 1..n : t.outs[i] = x
    BY <1>1, RangeSeq
  <2>9. m \in 1..m /\ \A i \in 1..n : i \in 1..m
    BY <1>2
  <2>10. Range(q) = Range(t.outs) \union {o}
    BY <1>3, <2>4, <2>7, <2>8, <2>9
  <2> QED
    BY <2>2, <2>6, <2>10
<1>5. \A u : IsFiniteSet(Free(u)) /\ Cardinality(Free(u)) \in Nat
  <2>1. \A u : Free(u) \subseteq Workspaces
    BY DEF Free
  <2>2. IsFiniteSet(Workspaces)
    BY TreeAssumption DEF TreeAssumption
  <2> QED
    BY <2>1, <2>2, FS_Subset, FS_CardinalityType
<1>6. a \in S[0]
  <2>1. /\ a \in States /\ a.alive = t.alive /\ a.on = t.on /\ a.recent = t.recent /\ a.outs = q
        /\ a.pool = t.pool /\ a.minimized = t.minimized /\ a.scratch = t.scratch /\ a.lost = t.lost
    BY <1>1, <1>3 DEF States
  <2> HIDE DEF a
  <2>2. (\A x : On(a, x) = On(t, x)) /\ Free(a) = Free(t)
    BY <2>1 DEF On, Free
  <2>3. \A x \in Workspaces : a.alive[x] = "live" => a.on[x] \in Home(a) \union {Fallback}
    BY <1>1, <1>4, <2>1 DEF Served, Home
  <2>4. Served(a, {Fallback}, {o})
    BY <1>1, <1>4, <2>1, <2>2, <2>3 DEF Served
  <2>5. 0 \in 0..m /\ Cardinality(Free(a)) >= n - 0
    BY <1>2, <1>5, <2>2
  <2>6. Kept(t, a)
    BY <2>1, MovedKept
  <2> QED
    BY <2>1, <2>2, <2>4, <2>5, <2>6
<1>7. ASSUME NEW i \in 1..m, NEW y \in S[i - 1] PROVE f[i][y] \in S[i]
  <2> DEFINE e == RestoreFrom(y, q[i], o)
  <2>1. /\ y \in States /\ Served(y, {Fallback}, {o}) /\ y.outs = q
        /\ Cardinality(Free(y)) >= n - (i - 1)
        /\ On(y, o) = {} => Free(y) = Free(t)
        /\ Kept(t, y)
    <3>1. i - 1 \in 0..m
      BY <1>2
    <3> QED
      BY <3>1
  <2>2. i \in 0..m
    BY <1>2
  <2>3. f[i][y] = IF q[i] = o THEN y ELSE e
    BY <1>3, <2>1
  <2> HIDE DEF f
  <2>4. CASE q[i] = o
    <3>1. Cardinality(Free(y)) >= n - i
      BY <1>2, <1>5, <2>1
    <3> QED
      BY <2>1, <2>2, <2>3, <2>4, <3>1
  <2>5. CASE q[i] # o
    <3>1. i <= n
      BY <1>2, <1>3, <2>5
    <3>2. Free(y) # {}
      <4>1. Cardinality(Free(y)) # 0
        BY <1>2, <1>5, <2>1, <3>1
      <4> QED
        BY <4>1, FS_EmptySet
    <3>3. o \in Range(y.outs) /\ q[i] \in Range(y.outs)
      BY <1>3, <1>4, <2>1, RangeSeq
    <3>4. /\ e \in States /\ Served(e, {Fallback}, {o}) /\ e.outs = y.outs
          /\ (Free(e) = Free(y) \/ \E x : Free(e) = Free(y) \ {x})
          /\ On(e, o) = {} => Free(e) = Free(y)
          /\ On(y, o) \subseteq On(e, o) /\ Kept(t, e)
      BY <2>1, <2>5, <3>2, <3>3, RestoreFromServed, KeptTwice
    <3>5. On(y, o) # {} => On(e, o) # {}
      BY <3>4
    <3> HIDE DEF e
    <3>6. Cardinality(Free(e)) >= n - i
      <4>1. ASSUME NEW x, Free(e) = Free(y) \ {x}
            PROVE  Cardinality(Free(e)) >= Cardinality(Free(y)) - 1
        <5>1. CASE x \in Free(y)
          <6>1. Cardinality(Free(y) \ {x}) = Cardinality(Free(y)) - 1
            BY <1>5, <5>1, FS_RemoveElement
          <6> QED
            BY <1>5, <4>1, <6>1
        <5>2. CASE x \notin Free(y)
          <6>1. Free(e) = Free(y)
            BY <4>1, <5>2
          <6> QED
            BY <1>5, <6>1
        <5> QED
          BY <5>1, <5>2
      <4>2. Cardinality(Free(e)) >= Cardinality(Free(y)) - 1
        <5>1. CASE Free(e) = Free(y)
          BY <1>5, <5>1
        <5>2. CASE \E x : Free(e) = Free(y) \ {x}
          <6>1. PICK x : Free(e) = Free(y) \ {x}
            BY <5>2
          <6> QED
            BY <4>1, <6>1
        <5> QED
          BY <3>4, <5>1, <5>2
      <4> QED
        BY <1>2, <1>5, <2>1, <4>2
    <3>7. On(e, o) = {} => Free(e) = Free(t)
      BY <2>1, <3>4, <3>5
    <3> QED
      BY <2>1, <2>2, <2>3, <2>5, <3>4, <3>6, <3>7
  <2> QED
    BY <2>4, <2>5
<1>8. RestoreWorkspaces(a, o) = b
  <2>1. a.outs = q /\ a \in States
    BY <1>1, <1>3 DEF States
  <2>2. f = [i \in DOMAIN a.outs |-> [u \in States |->
               IF a.outs[i] = o THEN u ELSE RestoreFrom(u, a.outs[i], o)]]
    BY <2>1
  <2> HIDE DEF f, a
  <2>3. RestoreWorkspaces(a, o) =
          [r EXCEPT !.on = [x \in Workspaces |-> IF @[x] = Fallback THEN o ELSE @[x]]]
    BY <2>1, <2>2 DEF RestoreWorkspaces
  <2> HIDE DEF r
  <2> QED
    BY <2>3
<1>9. OutputEnabled(t, o) = IF On(b, o) # {} THEN b ELSE d
  BY <1>8 DEF OutputEnabled, a, q
<1> HIDE DEF f, a
<1>10. r \in S[m]
  <2> HIDE DEF S
  <2>1. m \in Nat /\ Len(q) = m
    BY <1>2, <1>3
  <2> HIDE DEF m
  <2> QED
    BY <1>6, <1>7, <2>1, RoundsReach
<1> HIDE DEF r
<1>11. /\ r \in States /\ Served(r, {Fallback}, {o}) /\ r.outs = q
       /\ On(r, o) = {} => Free(r) = Free(t)
       /\ Kept(t, r)
  <2>1. m \in 0..m
    BY <1>2
  <2> QED
    BY <1>10, <2>1
<1> HIDE DEF S
<1>12. k \in [Workspaces -> Outputs \union {Fallback, NIL}]
  BY <1>11 DEF States
<1>13. \A x \in Workspaces : k[x] = IF r.on[x] = Fallback THEN o ELSE r.on[x]
  OBVIOUS
<1> HIDE DEF k
<1>14. /\ b \in States /\ b.on = k /\ b.alive = r.alive /\ b.recent = r.recent /\ b.outs = q
       /\ b.pool = r.pool /\ b.minimized = r.minimized /\ b.scratch = r.scratch /\ b.lost = r.lost
  BY <1>11, <1>12 DEF States
<1> HIDE DEF b
<1>15. Free(b) = Free(r) /\ On(r, o) \subseteq On(b, o)
  <2>1. Fallback # o
    BY TreeAssumption DEF TreeAssumption
  <2> QED
    BY <1>13, <1>14, <2>1 DEF Free, On
<1>19. Kept(t, b)
  <2>1. \A x \in Workspaces : b.on[x] # NIL => r.on[x] # NIL
    BY <1>13, <1>14, TreeAssumption DEF TreeAssumption
  <2>2. Kept(r, b)
    BY <1>14, <2>1, MovedKept
  <2> QED
    BY <1>11, <2>2, KeptTwice
<1>16. Served(b, {}, {o})
  <2>1. Fallback \notin Range(q) /\ o # NIL /\ Fallback # NIL
    <3>1. Range(q) \subseteq Outputs
      BY <1>3, RangeSeq
    <3> QED
      BY <3>1, TreeAssumption DEF TreeAssumption
  <2>2. \A x \in Workspaces : b.on[x] # NIL <=> b.alive[x] = "live"
    BY <1>11, <1>13, <1>14, <2>1 DEF Served
  <2>3. \A x \in Workspaces : b.alive[x] = "live" => b.on[x] \in Home(b)
    <3>1. o \in Range(q) /\ Home(r) = Range(q) /\ Home(b) = Range(q)
      <4>1. q # <<>>
        BY <1>2, <1>3
      <4> QED
        BY <1>4, <1>11, <1>14, <4>1 DEF Home
    <3> QED
      BY <1>11, <1>13, <1>14, <3>1 DEF Served
  <2>4. \A x \in Range(b.outs) \ {o} : On(b, x) # {}
    <3>1. \A x \in Range(q) \ {o} : On(b, x) = On(r, x)
      BY <1>13, <1>14, <2>1 DEF On
    <3> QED
      BY <1>11, <1>14, <3>1 DEF Served
  <2> QED
    BY <1>4, <1>11, <1>14, <2>2, <2>3, <2>4 DEF Served
<1>17. CASE On(b, o) # {}
  <2>1. Served(b, {}, {})
    BY <1>16, <1>17 DEF Served
  <2> QED
    BY <1>9, <1>14, <1>17, <1>19, <2>1 DEF Sound
<1>18. CASE On(b, o) = {}
  <2>1. Free(b) # {}
    BY <1>11, <1>15, <1>18
  <2>2. w \in Free(b) /\ w \in Workspaces
    BY <2>1, LowestFree DEF Free
  <2> HIDE DEF w
  <2>3. o \in Outputs \union {Fallback} /\ o \in Home(b) \union {}
    BY <1>4, <1>14 DEF Home
  <2>4. c \in States /\ Served(c, {}, {}) /\ Kept(t, c)
    BY <1>14, <1>16, <1>19, <2>2, <2>3, CreateServed, KeptTwice
  <2> HIDE DEF c
  <2>5. Raise(c, w) \in States /\ Served(Raise(c, w), {}, {}) /\ Kept(t, Raise(c, w))
    BY <2>2, <2>4, RaiseServed, KeptTwice
  <2> QED
    BY <1>9, <1>18, <2>4, <2>5 DEF Sound
<1> QED
  BY <1>17, <1>18

-----------------------------------------------------------------------------
(* Sound is an invariant.                                                  *)

LEMMA InitSound ==
    ASSUME Init
    PROVE  Sound(s)
<1>1. <<>> \in Seq(Outputs) /\ <<>> \in Seq(Workspaces) /\ <<>> \in Seq(Views)
      /\ <<>> \in Seq(Containers) /\ <<>> \in Seq(Outputs \union {Fallback})
  OBVIOUS
<1>2. NoOperation \in Operations
  BY DEF NoOperation, Operations
<1>3. s \in States
  BY <1>1, <1>2 DEF Init, States, Modes
<1>4. s.outs = <<>> /\ \A w \in Workspaces : s.on[w] = NIL /\ s.alive[w] = "no"
  BY DEF Init
<1>5. Range(s.outs) = {}
  <2>1. Len(s.outs) = 0 /\ s.outs \in Seq(Outputs)
    BY <1>1, <1>4
  <2> QED
    BY <2>1, RangeSeq
<1>6. IsInjective(s.outs)
  BY <1>4 DEF IsInjective
<1>7. Served(s, {}, {})
  BY <1>4, <1>5, <1>6 DEF Served
<1> QED
  BY <1>3, <1>7 DEF Sound

LEMMA MoveWorkspaceSound ==
    ASSUME Sound(s), NEW w \in Workspaces, NEW o \in Outputs, MoveWorkspace(w, o)
    PROVE  Sound(s') /\ s'.outs = s.outs /\ Kept(s, s')
<1> DEFINE t == MoveToOutput(s, w, o)
<1>1. /\ Free(s) # {} /\ s.alive[w] = "live" /\ s.on[w] # o /\ o \in Range(s.outs)
      /\ s' \in {t} \union Refocus(t, w)
  BY DEF MoveWorkspace, BecomesOneOf, Live
<1>2. Sound(t) /\ t.outs = s.outs /\ Kept(s, t)
  BY <1>1, MoveToOutputSound
<1> QED
  BY <1>1, <1>2, RefocusKeeps, KeptTwice DEF Keeps

LEMMA WorkspaceStepSound ==
    ASSUME Sound(s), Roomy(s), NEW w \in Workspaces, WorkspaceStep(w)
    PROVE  Sound(s') /\ s'.outs = s.outs
<1>1. CASE \E v \in Views : MoveContainer(v, w)
  BY <1>1, MoveContainerSound
<1>2. CASE \E v \in Views : Restore(v, w)
  BY <1>2, RestoreSound
<1>3. CASE \E v \in Views : OverviewPull(v, w)
  BY <1>3, OverviewPullSound
<1>4. CASE WorkspaceDestroy(w)
  BY <1>4, WorkspaceDestroySound
<1>5. CASE Switch(w)
  BY <1>5, SwitchSound
<1>6. CASE \E o \in Outputs : MoveWorkspace(w, o)
  BY <1>6, MoveWorkspaceSound
<1> QED
  BY <1>1, <1>2, <1>3, <1>4, <1>5, <1>6 DEF WorkspaceStep

LEMMA NextSound ==
    ASSUME Sound(s), [Next]_s
    PROVE  Sound(s')
<1>1. CASE UNCHANGED s
  BY <1>1
<1>2. CASE Next
  <2>1. Roomy(s)
    BY <1>2 DEF Next, Roomy
  <2>2. CASE \E v \in Views : WindowStep(v)
    BY <2>1, <2>2, WindowStepSound
  <2>3. CASE \E v, x \in Views : OverviewSwap(v, x)
    BY <2>3, OverviewSwapSound
  <2>4. CASE \E w \in Workspaces : WorkspaceStep(w)
    BY <2>1, <2>4, WorkspaceStepSound
  <2>5. CASE \E o \in Outputs : OutputEnable(o)
    BY <2>5, OutputEnabledSound DEF OutputEnable, Becomes
  <2>6. CASE \E o \in Outputs : OutputDisable(o)
    BY <2>6, OutputDisabledSound DEF OutputDisable, Becomes
  <2> QED
    BY <1>2, <2>2, <2>3, <2>4, <2>5, <2>6 DEF Next
<1> QED
  BY <1>1, <1>2

(* Whatever becomes of the windows, a workspace is on an output as long as *)
(* it lives and known to the focus order; it is on an output that is there *)
(* or, without any, on the fallback one; and an output that is there is    *)
(* listed once and has a workspace (output_enable, output_disable,         *)
(* workspace_consider_destroy).                                            *)
THEOREM TreeSound == Spec => []Sound(s)
<1>1. Init => Sound(s)
  BY InitSound
<1>2. Sound(s) /\ [Next]_s => Sound(s)'
  BY NextSound
<1> QED
  BY <1>1, <1>2, PTL DEF Spec

(* A tree of the declared shape is typed.                                  *)
LEMMA SoundTyped ==
    ASSUME Sound(s)
    PROVE  TypeOK
<1>1. s \in States
  BY DEF Sound
<1>2. /\ s.kids \in [Columns -> Seq(Views)] /\ s.tiling \in [Workspaces -> Seq(Containers)]
      /\ s.outs \in Seq(Outputs) /\ s.recent \in Seq(Workspaces)
  BY <1>1 DEF States
<1>3. /\ \A c \in Columns : Range(s.kids[c]) \subseteq Views
      /\ \A w \in Workspaces : Range(s.tiling[w]) \subseteq Containers
      /\ Range(s.outs) \subseteq Outputs /\ Range(s.recent) \subseteq Workspaces
  BY <1>2, RangeSeq
<1>4. /\ s.live \subseteq Containers /\ s.lost \subseteq Views
      /\ s.parent \in [Containers -> Columns \union {NIL}]
      /\ s.ws \in [Containers -> Workspaces \union {NIL}]
      /\ s.mode \in [Views -> Modes]
      /\ s.minimized \subseteq Views /\ s.wasfloat \subseteq Views /\ s.scratch \subseteq Views
      /\ s.gfs \in Views \union {NIL} /\ s.op \in Operations
  BY <1>1 DEF States
<1>5. \A w \in Workspaces : /\ s.floating[w] \subseteq Views /\ s.pool[w] \subseteq Views
                            /\ s.fs[w] \in Views \union {NIL}
                            /\ s.on[w] \in Outputs \union {Fallback, NIL}
                            /\ s.alive[w] \in {"no", "live", "dying"}
  BY <1>1 DEF States
<1> QED
  BY <1>3, <1>4, <1>5 DEF TypeOK

(* The fields of the tree hold what they are declared to hold: no list of  *)
(* windows takes a column, and no step leaves a link to something else.    *)
THEOREM TreeTyped == Spec => []TypeOK
<1>1. Sound(s) => TypeOK
  BY SoundTyped
<1> QED
  BY <1>1, TreeSound, PTL

(* Every output shows a workspace, and no workspace is on an output that   *)
(* is gone: workspace_consider_destroy keeps the one that is shown,        *)
(* workspace_move_to_output and restore_workspaces make another where they *)
(* take the last one, and output_evacuate leaves none behind.              *)
THEOREM OutputsKeepShowing == Spec => []OutputsServed
<1>1. Sound(s) => OutputsServed
  BY DEF Sound, Served, OutputsServed, Home, Live, On
<1> QED
  BY <1>1, TreeSound, PTL
=============================================================================
