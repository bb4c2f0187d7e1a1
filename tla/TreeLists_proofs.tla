-------------------------- MODULE TreeLists_proofs --------------------------
(***************************************************************************)
(* The lists of the tree and the pointers of its containers tell the same  *)
(* (Linked of Tree): the inductive invariant, Wired, and what each         *)
(* function of the tree does to it.                                        *)
(***************************************************************************)
EXTENDS Tree_proofs

-----------------------------------------------------------------------------
(* The inductive invariant.  X are containers out of the lists for now,    *)
(* and E columns that may be empty for now.                                *)

(* The lists hold what the pointers name. *)
Listed(t, X) ==
    /\ \A p \in Columns : IsInjective(t.kids[p])
    /\ \A w \in Workspaces : IsInjective(t.tiling[w])
    /\ \A p \in Columns, v \in Views : v \in Range(t.kids[p]) <=> t.parent[v] = p
    /\ \A w \in Workspaces, c \in Containers :
          c \in Range(t.tiling[w]) \/ c \in t.floating[w] <=> c \notin X /\ t.parent[c] = NIL /\ t.ws[c] = w
    /\ \A w \in Workspaces, v \in t.scratch : v \notin Range(t.tiling[w])
(* The pointers of a window and of its column agree. *)
Pointers(t, X) ==
    /\ \A c \in Columns : t.parent[c] = NIL
    /\ \A c \in Containers : c \in X => t.parent[c] = NIL
    /\ \A v \in Views : t.parent[v] # NIL => t.ws[v] = t.ws[t.parent[v]] /\ t.parent[v] \in t.live
    /\ \A c \in Containers : c \notin t.live => t.parent[c] = NIL /\ t.ws[c] = NIL
    /\ \A c \in Containers : c \notin X /\ t.parent[c] = NIL /\ t.ws[c] # NIL => t.alive[t.ws[c]] = "live"
(* What is not in the tree is put away, and what is put away is not in a    *)
(* column, nor, when it is minimized, in the tree.                         *)
PutAway(t, X) ==
    /\ \A c \in Columns : c \in t.live /\ c \notin X => t.ws[c] # NIL
    /\ \A v \in Views : v \in t.live /\ v \notin X /\ t.parent[v] = NIL /\ t.ws[v] = NIL
                         => v \in t.scratch \/ v \in t.minimized
    /\ \A v \in Views : v \in t.scratch => v \in t.live /\ t.parent[v] = NIL /\ (v \in t.minimized => v \in t.wasfloat)
    /\ \A v \in Views : v \in t.minimized => t.parent[v] = NIL /\ t.ws[v] = NIL
Filled(t, E) == t.lost = {} => \A c \in Columns : c \in t.live /\ c \notin E => \E v \in Views : t.parent[v] = c
Wired(t, X, E) ==
    t \in States /\ Listed(t, X) /\ Pointers(t, X) /\ PutAway(t, X) /\ Filled(t, E) /\ t.crash # "destroyed twice"

(* The same lists and pointers tell the same. *)
LEMMA ListedSame ==
    ASSUME NEW t, NEW X, Listed(t, X), NEW u,
           u.kids = t.kids, u.tiling = t.tiling, u.floating = t.floating, u.parent = t.parent,
           u.scratch \subseteq t.scratch, \A c \in Containers : c \notin X => u.ws[c] = t.ws[c]
    PROVE  Listed(u, X)
<1>1. /\ \A p \in Columns : IsInjective(u.kids[p])
      /\ \A w \in Workspaces : IsInjective(u.tiling[w])
  BY DEF Listed
<1>2. \A p \in Columns, v \in Views : v \in Range(u.kids[p]) <=> u.parent[v] = p
  <2>1. \A p \in Columns, v \in Views : v \in Range(t.kids[p]) <=> t.parent[v] = p
    BY DEF Listed
  <2> QED
    BY <2>1
<1>3. \A w \in Workspaces, c \in Containers :
        c \in Range(u.tiling[w]) \/ c \in u.floating[w] <=> c \notin X /\ u.parent[c] = NIL /\ u.ws[c] = w
  <2>1. \A w \in Workspaces, c \in Containers :
          c \in Range(t.tiling[w]) \/ c \in t.floating[w] <=> c \notin X /\ t.parent[c] = NIL /\ t.ws[c] = w
    BY DEF Listed
  <2> QED
    BY <2>1
<1>4. \A w \in Workspaces, v \in u.scratch : v \notin Range(u.tiling[w])
  BY DEF Listed
<1> QED
  BY <1>1, <1>2, <1>3, <1>4 DEF Listed

-----------------------------------------------------------------------------
(* Lists.                                                                  *)
Fewer(q, r, c) == Range(r) = Range(q) \ {c} /\ (IsInjective(q) => IsInjective(r))
More(q, r, c) == Range(r) = Range(q) \union {c} /\ (IsInjective(q) /\ c \notin Range(q) => IsInjective(r))

LEMMA RemoveFirstFewer ==
    ASSUME NEW S, NEW q \in Seq(S), NEW c, IsInjective(q)
    PROVE  Fewer(q, RemoveFirst(q, c), c)
<1> DEFINE r == RemoveFirst(q, c)
<1>1. /\ r \in Seq(S)
      /\ c \notin ToSet(q) => r = q
      /\ c \in ToSet(q) =>
           \E k \in 1..Len(q) :
              /\ q[k] = c
              /\ Len(r) = Len(q) - 1
              /\ \A j \in 1..Len(r) : r[j] = IF j < k THEN q[j] ELSE q[j + 1]
  BY RemoveFirstShifts
<1>2. /\ \A x : x \in Range(q) <=> \E i \in 1..Len(q) : q[i] = x
      /\ \A x : x \in Range(r) <=> \E i \in 1..Len(r) : r[i] = x
      /\ Range(q) = ToSet(q)
  BY <1>1, RangeSeq
<1>3. /\ IsInjective(r) <=> \A a, b \in 1..Len(r) : r[a] = r[b] => a = b
      /\ \A a, b \in 1..Len(q) : q[a] = q[b] => a = b
  BY <1>1 DEF IsInjective
<1> HIDE DEF r
<1>4. CASE c \notin ToSet(q)
  <2>1. r = q
    BY <1>1, <1>4
  <2>2. c \notin Range(q)
    BY <1>2, <1>4
  <2> QED
    BY <2>1, <2>2 DEF Fewer, r
<1>5. CASE c \in ToSet(q)
  <2>1. PICK k \in 1..Len(q) : /\ q[k] = c
                               /\ Len(r) = Len(q) - 1
                               /\ \A j \in 1..Len(r) : r[j] = IF j < k THEN q[j] ELSE q[j + 1]
    BY <1>1, <1>5
  <2>0. Len(q) \in Nat /\ Len(r) \in Nat
    BY <1>1
  <2>2. IsInjective(r)
    BY <2>0, <1>3, <2>1
  <2>3. ASSUME NEW x \in Range(r) PROVE x \in Range(q) /\ x # c
    <3>1. PICK i \in 1..Len(r) : r[i] = x
      BY <1>2
    <3>2. CASE i < k
      BY <2>0, <2>1, <1>2, <1>3, <3>1, <3>2
    <3>3. CASE ~(i < k)
      <4>1. i + 1 \in 1..Len(q) /\ i + 1 # k /\ q[i + 1] = x
        BY <2>0, <2>1, <3>1, <3>3
      <4> QED
        BY <4>1, <2>1, <1>2, <1>3
    <3> QED
      BY <3>2, <3>3
  <2>4. ASSUME NEW x \in Range(q), x # c PROVE x \in Range(r)
    <3>1. PICK i \in 1..Len(q) : q[i] = x
      BY <1>2
    <3>2. i # k
      BY <3>1, <2>1, <2>4
    <3>3. CASE i < k
      <4>1. i \in 1..Len(r) /\ r[i] = x
        BY <2>0, <2>1, <3>1, <3>3
      <4> QED
        BY <4>1, <1>2
    <3>4. CASE i > k
      <4>1. i - 1 \in 1..Len(r) /\ ~(i - 1 < k) /\ (i - 1) + 1 = i
        BY <2>0, <2>1, <3>1, <3>4
      <4>2. r[i - 1] = x
        BY <4>1, <2>1, <3>1
      <4> QED
        BY <4>1, <4>2, <1>2
    <3> QED
      BY <3>2, <3>3, <3>4, <2>0, <2>1
  <2> QED
    BY <2>2, <2>3, <2>4 DEF Fewer, r
<1> QED
  BY <1>4, <1>5

LEMMA InsertAtMore ==
    ASSUME NEW S, NEW q \in Seq(S), NEW i \in 1..(Len(q) + 1), NEW c \in S
    PROVE  More(q, InsertAt(q, i, c), c)
<1> DEFINE r == InsertAt(q, i, c)
<1>0. Len(q) \in Nat /\ i \in Nat
  OBVIOUS
<1>1. /\ r \in Seq(S) /\ Len(r) = Len(q) + 1
      /\ \A j \in 1..Len(r) : r[j] = IF j < i THEN q[j] ELSE IF j = i THEN c ELSE q[j - 1]
  <2>1. SubSeq(q, 1, i - 1) \in Seq(S) /\ Len(SubSeq(q, 1, i - 1)) = i - 1
        /\ \A j \in 1..(i - 1) : SubSeq(q, 1, i - 1)[j] = q[j]
    <3>1. \A j \in 1..(i - 1) : q[j] \in S
      BY <1>0
    <3> QED
      BY <1>0, <3>1, SubSeqProperties
  <2>2. SubSeq(q, i, Len(q)) \in Seq(S) /\ Len(SubSeq(q, i, Len(q))) = Len(q) - i + 1
        /\ \A j \in 1..(Len(q) - i + 1) : SubSeq(q, i, Len(q))[j] = q[i + j - 1]
    <3>1. \A j \in i..Len(q) : q[j] \in S
      BY <1>0
    <3> QED
      BY <1>0, <3>1, SubSeqProperties
  <2> DEFINE a == SubSeq(q, 1, i - 1)
             b == SubSeq(q, i, Len(q))
  <2>3. r = a \o <<c>> \o b
    BY DEF InsertAt
  <2> HIDE DEF a, b, r
  <2>4. a \in Seq(S) /\ b \in Seq(S) /\ Len(a) = i - 1 /\ Len(b) = Len(q) - i + 1
    BY <2>1, <2>2 DEF a, b
  <2>5. /\ (a \o <<c>>) \in Seq(S) /\ Len(a \o <<c>>) = i
        /\ \A j \in 1..i : (a \o <<c>>)[j] = IF j < i THEN a[j] ELSE c
    BY <1>0, <2>4
  <2>6. /\ r \in Seq(S) /\ Len(r) = Len(q) + 1
        /\ \A j \in 1..Len(r) : r[j] = IF j <= i THEN (a \o <<c>>)[j] ELSE b[j - i]
    <3> DEFINE d == a \o <<c>>
    <3>1. d \in Seq(S) /\ Len(d) = i /\ b \in Seq(S)
      BY <2>4, <2>5
    <3>2. r = d \o b
      BY <2>3
    <3> HIDE DEF d
    <3>3. /\ r \in Seq(S) /\ Len(r) = Len(d) + Len(b)
          /\ \A j \in 1..(Len(d) + Len(b)) : r[j] = IF j <= Len(d) THEN d[j] ELSE b[j - Len(d)]
      BY <3>1, <3>2, ConcatProperties
    <3>4. /\ r \in Seq(S) /\ Len(r) = Len(q) + 1
          /\ \A j \in 1..Len(r) : r[j] = IF j <= i THEN d[j] ELSE b[j - i]
      BY <1>0, <2>4, <3>1, <3>3
    <3> QED
      BY <3>4 DEF d
  <2>7. ASSUME NEW j \in 1..Len(r)
        PROVE  r[j] = IF j < i THEN q[j] ELSE IF j = i THEN c ELSE q[j - 1]
    <3>1. CASE j < i
      BY <1>0, <2>1, <2>5, <2>6, <3>1 DEF a
    <3>2. CASE j = i
      BY <1>0, <2>5, <2>6, <3>2
    <3>3. CASE j > i
      <4>0. j \in 1..(Len(q) + 1)
        BY <2>6
      <4>1. j - i \in 1..(Len(q) - i + 1) /\ i + (j - i) - 1 = j - 1
        BY <1>0, <3>3, <4>0
      <4>2. b[j - i] = q[j - 1]
        BY <4>1, <2>2 DEF b
      <4> QED
        BY <1>0, <2>6, <3>3, <4>2
    <3> QED
      BY <1>0, <2>6, <3>1, <3>2, <3>3
  <2> QED
    BY <2>6, <2>7
<1>2. /\ \A x : x \in Range(q) <=> \E k \in 1..Len(q) : q[k] = x
      /\ \A x : x \in Range(r) <=> \E k \in 1..Len(r) : r[k] = x
  BY <1>1, RangeSeq
<1>3. /\ IsInjective(r) <=> \A a, b \in 1..Len(r) : r[a] = r[b] => a = b
      /\ IsInjective(q) <=> \A a, b \in 1..Len(q) : q[a] = q[b] => a = b
  BY <1>1 DEF IsInjective
<1> HIDE DEF r
<1>4. ASSUME NEW x \in Range(r) PROVE x \in Range(q) \/ x = c
  <2>1. PICK k \in 1..Len(r) : r[k] = x
    BY <1>2
  <2>2. CASE k < i
    <3>1. k \in 1..Len(q) /\ q[k] = x
      BY <2>1, <2>2, <1>0, <1>1
    <3> QED
      BY <3>1, <1>2
  <2>3. CASE k = i
    BY <2>1, <2>3, <1>0, <1>1
  <2>4. CASE k > i
    <3>1. k - 1 \in 1..Len(q) /\ q[k - 1] = x
      BY <2>1, <2>4, <1>0, <1>1
    <3> QED
      BY <3>1, <1>2
  <2> QED
    BY <2>2, <2>3, <2>4, <1>0, <1>1
<1>5. ASSUME NEW x \in Range(q) PROVE x \in Range(r)
  <2>1. PICK k \in 1..Len(q) : q[k] = x
    BY <1>2
  <2>2. CASE k < i
    BY <2>1, <2>2, <1>0, <1>1, <1>2
  <2>3. CASE k >= i
    <3>1. k + 1 \in 1..Len(r) /\ ~(k + 1 < i) /\ k + 1 # i /\ (k + 1) - 1 = k
      BY <2>1, <2>3, <1>0, <1>1
    <3>2. r[k + 1] = x
      BY <3>1, <2>1, <1>1
    <3> QED
      BY <3>1, <3>2, <1>2
  <2> QED
    BY <2>2, <2>3, <1>0
<1>6. c \in Range(r)
  <2>1. i \in 1..Len(r) /\ ~(i < i)
    BY <1>0, <1>1
  <2> QED
    BY <2>1, <1>1, <1>2
<1>7. ASSUME IsInjective(q), c \notin Range(q) PROVE IsInjective(r)
  <2> SUFFICES ASSUME NEW a \in 1..Len(r), NEW b \in 1..Len(r), r[a] = r[b] PROVE a = b
    BY <1>3
  <2> DEFINE At(k) == IF k < i THEN k ELSE k - 1
  <2>1. \A k \in 1..Len(r) : k # i => At(k) \in 1..Len(q) /\ r[k] = q[At(k)]
    BY <1>0, <1>1
  <2>2. \A k \in 1..Len(r) : k # i => r[k] # c
    BY <2>1, <1>2, <1>7
  <2>3. r[i] = c
    BY <1>0, <1>1
  <2>4. CASE a = i \/ b = i
    BY <2>2, <2>3, <2>4
  <2>5. CASE a # i /\ b # i
    <3>1. At(a) = At(b)
      BY <2>1, <2>5, <1>3, <1>7
    <3> QED
      BY <3>1, <2>5, <1>0, <1>1
  <2> QED
    BY <2>4, <2>5
<1> QED
  BY <1>4, <1>5, <1>6, <1>7 DEF More, r

-----------------------------------------------------------------------------
(* Functions that leave the tree alone.                                    *)
Alike(t, u) ==
    /\ u.live = t.live /\ u.parent = t.parent /\ u.ws = t.ws /\ u.kids = t.kids
    /\ u.tiling = t.tiling /\ u.floating = t.floating /\ u.scratch = t.scratch
    /\ u.minimized = t.minimized /\ u.wasfloat = t.wasfloat
    /\ u.alive = t.alive /\ u.pool = t.pool /\ u.lost = t.lost /\ u.crash = t.crash

LEMMA AlikeWired ==
    ASSUME NEW t, NEW u \in States, NEW X, NEW E, Wired(t, X, E), Alike(t, u)
    PROVE  Wired(u, X, E)
<1>1. Listed(u, X)
  <2>1. /\ u.kids = t.kids /\ u.tiling = t.tiling /\ u.floating = t.floating
        /\ u.parent = t.parent /\ u.ws = t.ws /\ u.scratch = t.scratch
    BY DEF Alike
  <2>2. Listed(t, X)
    BY DEF Wired
  <2> QED
    BY <2>1, <2>2, ListedSame
<1>2. Pointers(u, X)
  BY DEF Wired, Alike, Pointers
<1>3. PutAway(u, X)
  BY DEF Wired, Alike, PutAway
<1>4. Filled(u, E) /\ u.crash # "destroyed twice"
  BY DEF Wired, Alike, Filled
<1> QED
  BY <1>1, <1>2, <1>3, <1>4 DEF Wired

LEMMA AlikeTwice ==
    ASSUME NEW t, NEW u, NEW k, Alike(t, u), Alike(u, k)
    PROVE  Alike(t, k)
BY DEF Alike

LEMMA EndMouseOperationAlike ==
    ASSUME NEW t \in States, NEW c
    PROVE  Alike(t, EndMouseOperation(t, c))
<1>1. \A x : Alike(t, [t EXCEPT !.op = x])
  BY DEF States, Alike
<1>2. [t EXCEPT !.op.on = NIL] = [t EXCEPT !.op = [t.op EXCEPT !.on = NIL]]
  BY DEF States
<1>3. Alike(t, t)
  BY DEF Alike
<1> QED
  BY <1>1, <1>2, <1>3 DEF EndMouseOperation

LEMMA SetModeAlike ==
    ASSUME NEW t \in States, NEW v \in Views, NEW m \in Modes
    PROVE  Alike(t, SetMode(t, v, m))
<1> DEFINE a == [t EXCEPT !.mode[v] = m]
<1>1. a \in States /\ Alike(t, a)
  BY DEF States, Alike
<1> HIDE DEF a
<1>2. SetMode(t, v, m) = EndMouseOperation(a, v)
  BY DEF SetMode, a
<1> QED
  BY <1>1, <1>2, EndMouseOperationAlike, AlikeTwice

LEMMA FullscreenDisableAlike ==
    ASSUME NEW t \in States, NEW v \in Views
    PROVE  Alike(t, FullscreenDisable(t, v))
<1> DEFINE w == t.ws[v]
           a == IF t.mode[v] = "workspace"
                  THEN IF w = NIL THEN t ELSE [t EXCEPT !.fs[w] = NIL]
                  ELSE [t EXCEPT !.gfs = NIL]
<1>1. a \in States /\ Alike(t, a)
  BY DEF States, Alike
<1>2. FullscreenDisable(t, v) = SetMode(a, v, "none")
  BY DEF FullscreenDisable
<1> HIDE DEF a
<1> QED
  BY <1>1, <1>2, SetModeAlike, AlikeTwice DEF Modes

LEMMA DisableIfAlike ==
    ASSUME NEW t \in States, NEW v \in Views \union {NIL}
    PROVE  LET u == DisableIf(t, v) IN u \in States /\ Alike(t, u)
<1>1. Alike(t, t)
  BY DEF Alike
<1> QED
  BY <1>1, FullscreenDisableAlike, DisableIfType DEF DisableIf

LEMMA FullscreenReparentAlike ==
    ASSUME NEW t \in States, NEW c \in Containers
    PROVE  LET u == FullscreenReparent(t, c) IN u \in States /\ Alike(t, u)
<1> DEFINE glob == GlobalIn(t, c)
           work == OverIn(t, c)
<1>4. glob \subseteq Views /\ work \subseteq Views
  BY DEF GlobalIn, OverIn
<1>0. FullscreenReparent(t, c) \in States /\ Alike(t, t)
  BY FullscreenReparentType DEF Alike
<1>1. CASE glob # {}
  <2> DEFINE v == CHOOSE x \in glob : TRUE
             a == DisableIf(t, t.gfs)
  <2>2. FullscreenReparent(t, c) = IF t.gfs = v THEN t ELSE [a EXCEPT !.gfs = v]
    BY <1>1, FullscreenReparentCases
  <2>3. a \in States /\ Alike(t, a)
    <3>1. t.gfs \in Views \union {NIL}
      BY DEF States
    <3> QED
      BY <3>1, DisableIfAlike
  <2> HIDE DEF v, a
  <2>4. Alike(a, [a EXCEPT !.gfs = v])
    BY <2>3 DEF States, Alike
  <2> QED
    BY <1>0, <2>2, <2>3, <2>4, AlikeTwice
<1>2. CASE glob = {} /\ work # {}
  <2> DEFINE v == CHOOSE x \in work : TRUE
             w == t.ws[v]
             a == DisableIf(t, t.fs[w])
  <2>1. v \in Views /\ w \in Workspaces \union {NIL}
    <3>1. v \in Views
      BY <1>2, <1>4
    <3> HIDE DEF v
    <3> QED
      BY <3>1 DEF States, Containers
  <2>2. FullscreenReparent(t, c) = IF w = NIL \/ t.fs[w] = v THEN t ELSE [a EXCEPT !.fs[w] = v]
    BY <1>2, FullscreenReparentCases
  <2>3. CASE w = NIL
    BY <1>0, <2>2, <2>3
  <2>4. CASE w # NIL
    <3>1. t.fs[w] \in Views \union {NIL}
      BY <2>1, <2>4 DEF States
    <3>2. a \in States /\ Alike(t, a)
      BY <3>1, DisableIfAlike
    <3> HIDE DEF v, a, w
    <3>3. Alike(a, [a EXCEPT !.fs[w] = v])
      BY <3>2 DEF States, Alike
    <3> QED
      BY <1>0, <2>2, <3>2, <3>3, AlikeTwice
  <2> QED
    BY <2>3, <2>4
<1>3. CASE glob = {} /\ work = {}
  BY <1>0, <1>3, FullscreenReparentCases
<1> QED
  BY <1>1, <1>2, <1>3

LEMMA PlaceAlike ==
    ASSUME NEW t \in States, NEW c \in Containers, NEW w \in Workspaces \union {NIL}
    PROVE  LET u == Place(t, c, w) IN u \in States /\ Alike(Within(t, c, w), u)
BY WithinType, FullscreenReparentAlike DEF Place

LEMMA FullscreenAlike ==
    ASSUME NEW t \in States, NEW v \in Views, NEW m \in Modes
    PROVE  LET u == Fullscreen(t, v, m) IN u \in States /\ Alike(t, u)
<1>0. Fullscreen(t, v, m) \in States /\ Alike(t, t) /\ v \in Containers
  BY FullscreenType DEF Alike, Containers
<1> DEFINE a == DisableIf(t, t.gfs)
<1>1. a \in States /\ Alike(t, a)
  <2>1. t.gfs \in Views \union {NIL}
    BY DEF States
  <2> QED
    BY <2>1, DisableIfAlike
<1>2. CASE m = t.mode[v]
  BY <1>0, <1>2 DEF Fullscreen
<1>3. CASE m # t.mode[v] /\ m = "none"
  <2>1. Fullscreen(t, v, m) = FullscreenDisable(t, v)
    BY <1>3 DEF Fullscreen
  <2> QED
    BY <1>0, <2>1, FullscreenDisableAlike
<1>4. CASE m # t.mode[v] /\ m = "workspace"
  <2> DEFINE w == a.ws[v]
             b == IF w = NIL THEN a ELSE [DisableIf(a, a.fs[w]) EXCEPT !.fs[w] = v]
  <2>1. Fullscreen(t, v, m) = SetMode(b, v, "workspace")
    BY <1>4 DEF Fullscreen
  <2> HIDE DEF a
  <2>2. w \in Workspaces \union {NIL}
    BY <1>0, <1>1 DEF States
  <2>3. b \in States /\ Alike(a, b)
    <3>1. CASE w = NIL
      BY <3>1, <1>1 DEF Alike
    <3>2. CASE w # NIL
      <4> DEFINE d == DisableIf(a, a.fs[w])
      <4>1. a.fs[w] \in Views \union {NIL}
        BY <1>1, <2>2, <3>2 DEF States
      <4>2. d \in States /\ Alike(a, d)
        BY <1>1, <4>1, DisableIfAlike
      <4>3. b = [d EXCEPT !.fs[w] = v]
        BY <3>2
      <4> HIDE DEF d, b
      <4>4. b \in States /\ Alike(d, b)
        BY <2>2, <3>2, <4>2, <4>3 DEF States, Alike
      <4> QED
        BY <4>2, <4>4, AlikeTwice
    <3> QED
      BY <3>1, <3>2
  <2> HIDE DEF b
  <2>4. Alike(b, SetMode(b, v, "workspace"))
    BY <2>3, SetModeAlike DEF Modes
  <2> QED
    BY <1>0, <1>1, <2>1, <2>3, <2>4, AlikeTwice
<1>5. CASE m # t.mode[v] /\ m = "global"
  <2> DEFINE b == IF a.mode[v] = "workspace" THEN FullscreenDisable(a, v) ELSE a
             d == [b EXCEPT !.gfs = v]
  <2>1. Fullscreen(t, v, m) = SetMode(d, v, "global")
    BY <1>5 DEF Fullscreen
  <2> HIDE DEF a
  <2>2. b \in States /\ Alike(a, b)
    <3>1. Alike(a, a)
      BY DEF Alike
    <3> QED
      BY <1>1, <3>1, FullscreenDisableAlike, FullscreenDisableType
  <2> HIDE DEF b
  <2>3. d \in States /\ Alike(b, d)
    BY <2>2 DEF States, Alike
  <2> HIDE DEF d
  <2>4. Alike(d, SetMode(d, v, "global"))
    BY <2>3, SetModeAlike DEF Modes
  <2>5. Alike(t, d)
    BY <1>1, <2>2, <2>3, AlikeTwice
  <2> QED
    BY <1>0, <2>1, <2>4, <2>5, AlikeTwice
<1> QED
  BY <1>2, <1>3, <1>4, <1>5 DEF Modes

-----------------------------------------------------------------------------
(* Out of the tree.                                                        *)

LEMMA Names ==
    /\ NIL \notin Views /\ NIL \notin Columns /\ NIL \notin Workspaces
    /\ Views \intersect Columns = {} /\ Containers = Views \union Columns
BY TreeAssumption DEF TreeAssumption, Containers

LEMMA Fields ==
    ASSUME NEW t \in States
    PROVE  /\ t.parent \in [Containers -> Columns \union {NIL}] /\ t.ws \in [Containers -> Workspaces \union {NIL}]
           /\ t.kids \in [Columns -> Seq(Views)] /\ t.tiling \in [Workspaces -> Seq(Containers)]
           /\ t.floating \in [Workspaces -> SUBSET Views] /\ t.live \subseteq Containers
           /\ t.scratch \subseteq Views /\ t.minimized \subseteq Views /\ t.wasfloat \subseteq Views
           /\ t.lost \subseteq Views
BY DEF States

Rest(t, u) ==
    /\ u.live = t.live /\ u.scratch = t.scratch /\ u.minimized = t.minimized
    /\ u.wasfloat = t.wasfloat /\ u.alive = t.alive /\ u.lost = t.lost /\ u.crash = t.crash
(* c is in no list any more. *)
Unlists(t, c, u) ==
    /\ \A p \in Columns : Fewer(t.kids[p], u.kids[p], c)
    /\ \A w \in Workspaces : Fewer(t.tiling[w], u.tiling[w], c) /\ u.floating[w] = t.floating[w] \ {c}
(* Nor do c and its children have a workspace. *)
Out(t, c, u) ==
    /\ Unlists(t, c, u)
    /\ \A d \in Containers : u.parent[d] = IF d = c THEN NIL ELSE t.parent[d]
    /\ \A d \in Containers : u.ws[d] = IF d = c \/ t.parent[d] = c THEN NIL ELSE t.ws[d]

LEMMA NoneFewer ==
    ASSUME NEW q, NEW c, c \notin Range(q)
    PROVE  Fewer(q, q, c)
BY DEF Fewer

LEMMA UnlistedOut ==
    ASSUME NEW t \in States, NEW X, Listed(t, X), NEW c \in Containers
    PROVE  LET u == Unlisted(t, c)
           IN  /\ u \in States /\ Rest(t, u) /\ u.parent = t.parent /\ u.ws = t.ws
               /\ Unlists(t, c, u)
<1> DEFINE w == t.ws[c]
           p == t.parent[c]
           u == Unlisted(t, c)
<1>0. u \in States /\ w \in Workspaces \union {NIL} /\ p \in Columns \union {NIL} /\ NIL \notin Workspaces
  BY UnlistedType, Fields, Names
<1>1. /\ \A q \in Columns : c \in Range(t.kids[q]) => p = q
      /\ \A x \in Workspaces : c \in Range(t.tiling[x]) \/ c \in t.floating[x] => p = NIL /\ w = x
  <2>1. \A q \in Columns : Range(t.kids[q]) \subseteq Views
    BY Fields, RangeSeq
  <2> QED
    BY <2>1 DEF Listed
<1>2. /\ \A q \in Columns : t.kids[q] \in Seq(Views) /\ IsInjective(t.kids[q])
      /\ \A x \in Workspaces : t.tiling[x] \in Seq(Containers) /\ IsInjective(t.tiling[x])
  BY Fields DEF Listed
<1>3. CASE p # NIL
  <2> DEFINE r == RemoveFirst(t.kids[p], c)
             k == [t.kids EXCEPT ![p] = r]
  <2>1. u = [t EXCEPT !.kids[p] = RemoveFirst(@, c)]
    BY <1>3 DEF Unlisted
  <2>2. Fewer(t.kids[p], r, c) /\ p \in Columns
    BY <1>0, <1>2, <1>3, RemoveFirstFewer
  <2>3. u = [t EXCEPT !.kids = k]
    BY <2>1 DEF States
  <2>4. k[p] = r /\ \A q \in Columns \ {p} : k[q] = t.kids[q]
    BY <2>2, Fields
  <2> HIDE DEF u, k, r, p, w
  <2>5. /\ u.kids = k /\ Rest(t, u) /\ u.parent = t.parent /\ u.ws = t.ws
        /\ u.tiling = t.tiling /\ u.floating = t.floating
    BY <2>3 DEF States, Rest
  <2>6. \A q \in Columns : Fewer(t.kids[q], u.kids[q], c)
    BY <1>1, <2>2, <2>4, <2>5, NoneFewer
  <2>7. \A x \in Workspaces : Fewer(t.tiling[x], u.tiling[x], c) /\ u.floating[x] = t.floating[x] \ {c}
    <3>1. \A x \in Workspaces : c \notin Range(t.tiling[x]) /\ c \notin t.floating[x]
      BY <1>1, <1>3
    <3> QED
      BY <3>1, <2>5, NoneFewer
  <2> QED
    BY <1>0, <2>5, <2>6, <2>7 DEF u, Unlists
<1>4. CASE p = NIL /\ w # NIL
  <2> DEFINE r == RemoveFirst(t.tiling[w], c)
             k == [t.tiling EXCEPT ![w] = r]
             f == [t.floating EXCEPT ![w] = @ \ {c}]
  <2>1. u = [t EXCEPT !.tiling[w] = RemoveFirst(@, c), !.floating[w] = @ \ {c}]
    BY <1>4 DEF Unlisted
  <2>2. Fewer(t.tiling[w], r, c) /\ w \in Workspaces
    BY <1>0, <1>2, <1>4, RemoveFirstFewer
  <2>3. u = [t EXCEPT !.tiling = k, !.floating = f]
    BY <2>1 DEF States
  <2>4. /\ k[w] = r /\ f[w] = t.floating[w] \ {c}
        /\ \A x \in Workspaces \ {w} : k[x] = t.tiling[x] /\ f[x] = t.floating[x]
    BY <2>2, Fields
  <2> HIDE DEF u, k, f, r, w, p
  <2>5. /\ u.tiling = k /\ u.floating = f /\ Rest(t, u) /\ u.parent = t.parent /\ u.ws = t.ws
        /\ u.kids = t.kids
    BY <2>3 DEF States, Rest
  <2>6. \A q \in Columns : Fewer(t.kids[q], u.kids[q], c)
    <3>1. \A q \in Columns : c \notin Range(t.kids[q])
      BY <1>0, <1>1, <1>4, Names
    <3> QED
      BY <3>1, <2>5, NoneFewer
  <2>7. ASSUME NEW x \in Workspaces
        PROVE  Fewer(t.tiling[x], u.tiling[x], c) /\ u.floating[x] = t.floating[x] \ {c}
    <3>1. CASE x = w
      BY <2>2, <2>4, <2>5, <3>1
    <3>2. CASE x # w
      <4>1. c \notin Range(t.tiling[x]) /\ c \notin t.floating[x]
        BY <1>1, <3>2
      <4> QED
        BY <3>2, <4>1, <2>4, <2>5, NoneFewer
    <3> QED
      BY <3>1, <3>2
  <2> QED
    BY <1>0, <2>5, <2>6, <2>7 DEF u, Unlists
<1>5. CASE p = NIL /\ w = NIL
  <2>1. u = t
    BY <1>5 DEF Unlisted
  <2> HIDE DEF u, w, p
  <2>2. /\ \A q \in Columns : c \notin Range(t.kids[q])
        /\ \A x \in Workspaces : c \notin Range(t.tiling[x]) /\ c \notin t.floating[x]
    BY <1>0, <1>1, <1>5, Names
  <2>3. Rest(t, t)
    BY DEF Rest
  <2> QED
    BY <1>0, <2>1, <2>2, <2>3, NoneFewer DEF u, Unlists
<1> QED
  BY <1>0, <1>3, <1>4, <1>5

(* The children a column lists are those that name it. *)
LEMMA KidsNamed ==
    ASSUME NEW t \in States, NEW X, Listed(t, X), NEW c \in Containers, NEW d \in Containers,
           \A p \in Columns : t.parent[p] = NIL
    PROVE  d \in KidsOf(t, c) <=> t.parent[d] = c
<1>1. t.parent[d] \in Columns \union {NIL}
  BY Fields
<1>2. CASE c \in Columns
  <2>1. Range(t.kids[c]) \subseteq Views
    BY <1>2, Fields, RangeSeq
  <2> QED
    BY <1>2, <2>1, Names DEF Listed, KidsOf, IsColumn
<1>3. CASE c \notin Columns
  BY <1>1, <1>3, Names DEF KidsOf, IsColumn
<1> QED
  BY <1>2, <1>3

LEMMA DetachOut ==
    ASSUME NEW t \in States, NEW X, Listed(t, X), \A p \in Columns : t.parent[p] = NIL,
           NEW c \in Containers
    PROVE  LET u == Detach(t, c) IN u \in States /\ Rest(t, u) /\ Out(t, c, u)
<1> DEFINE a == LeaveFullscreen(t, c)
           b == Unlisted(a, c)
           d == [b EXCEPT !.parent[c] = NIL]
           u == Within(d, c, NIL)
<1>1. a \in States /\ Alike(t, a)
  <2>1. a \in States
    BY LeaveFullscreenType
  <2>2. Alike(t, a)
    BY DEF States, Alike, LeaveFullscreen
  <2> QED
    BY <2>1, <2>2
<1> HIDE DEF a
<1>2. Listed(a, X)
  BY <1>1 DEF Listed, Alike
<1>3. b \in States /\ Rest(a, b) /\ b.parent = a.parent /\ b.ws = a.ws /\ Unlists(a, c, b)
  BY <1>1, <1>2, UnlistedOut
<1> HIDE DEF b
<1>4. /\ d \in States /\ Rest(b, d) /\ d.parent = [b.parent EXCEPT ![c] = NIL] /\ d.ws = b.ws
      /\ d.kids = b.kids /\ d.tiling = b.tiling /\ d.floating = b.floating
  BY <1>3 DEF States, Rest
<1> HIDE DEF d
<1>5. /\ u \in States /\ Rest(d, u) /\ u.parent = d.parent /\ u.kids = d.kids
      /\ u.tiling = d.tiling /\ u.floating = d.floating
      /\ \A x \in Containers : u.ws[x] = IF x = c \/ x \in KidsOf(d, c) THEN NIL ELSE d.ws[x]
  <2>1. u \in States
    BY <1>4, WithinType, Names
  <2> QED
    BY <2>1, <1>4 DEF States, Rest, Within
<1>6. KidsOf(d, c) = KidsOf(t, c)
  <2>1. CASE c \in Columns
    <3>1. c \notin Range(a.kids[c])
      <4>1. Range(a.kids[c]) \subseteq Views
        BY <1>1, <2>1, Fields, RangeSeq
      <4> QED
        BY <4>1, <2>1, Names
    <3>2. Range(b.kids[c]) = Range(a.kids[c]) \ {c}
      BY <1>3, <2>1 DEF Unlists, Fewer
    <3>3. d.kids = b.kids /\ a.kids = t.kids
      BY <1>1, <1>4 DEF Alike
    <3>4. Range(d.kids[c]) = Range(t.kids[c])
      BY <3>1, <3>2, <3>3
    <3> QED
      BY <2>1, <3>4 DEF KidsOf, IsColumn
  <2>2. CASE c \notin Columns
    BY <2>2 DEF KidsOf, IsColumn
  <2> QED
    BY <2>1, <2>2
<1> HIDE DEF u
<1>7. Rest(t, u)
  BY <1>1, <1>3, <1>4, <1>5 DEF Rest, Alike
<1>8. Out(t, c, u)
  <2>1. Unlists(t, c, u)
    BY <1>1, <1>3, <1>4, <1>5 DEF Unlists, Alike
  <2>2. \A x \in Containers : u.parent[x] = IF x = c THEN NIL ELSE t.parent[x]
    BY <1>1, <1>3, <1>4, <1>5, Fields DEF Alike
  <2>3. \A x \in Containers : u.ws[x] = IF x = c \/ t.parent[x] = c THEN NIL ELSE t.ws[x]
    BY <1>1, <1>3, <1>4, <1>5, <1>6, KidsNamed DEF Alike
  <2> QED
    BY <2>1, <2>2, <2>3 DEF Out
<1> QED
  BY <1>5, <1>7, <1>8 DEF Detach, u, d, b, a

(* A container that is nowhere is out of the tree. *)
LEMMA NowhereOut ==
    ASSUME NEW t \in States, NEW X, Listed(t, X), NEW c \in Containers,
           t.parent[c] = NIL, t.ws[c] = NIL, \A d \in Containers : t.parent[d] = c => t.ws[d] = NIL
    PROVE  Out(t, c, t)
<1>1. \A p \in Columns : c \notin Range(t.kids[p])
  <2>1. \A p \in Columns : Range(t.kids[p]) \subseteq Views
    BY Fields, RangeSeq
  <2> QED
    BY <2>1, Names DEF Listed
<1>2. \A w \in Workspaces : c \notin Range(t.tiling[w]) /\ c \notin t.floating[w]
  BY Names DEF Listed
<1> QED
  BY <1>1, <1>2, NoneFewer DEF Out, Unlists

(* All but c is put away, or gone, as it was. *)
Flags(t, u, c) ==
    /\ \A d \in Containers : d # c => /\ d \in u.live <=> d \in t.live
                                      /\ d \in u.scratch <=> d \in t.scratch
                                      /\ d \in u.minimized <=> d \in t.minimized
                                      /\ d \in u.wasfloat <=> d \in t.wasfloat
    /\ c \in u.live => c \in t.live
    /\ c \in u.scratch => c \in u.live /\ (c \in u.minimized => c \in u.wasfloat)
    /\ u.alive = t.alive /\ t.lost \subseteq u.lost /\ u.crash # "destroyed twice"

LEMMA OutWired ==
    ASSUME NEW t, NEW X, NEW E, Wired(t, X, E), NEW c \in Containers,
           NEW u \in States, Out(t, c, u), Flags(t, u, c),
           c \in u.live \/ \A v \in Views : t.parent[v] # c
    PROVE  Wired(u, X \union {c}, E \union {t.parent[c]}) /\ u.parent[c] = NIL /\ u.ws[c] = NIL
<1>0. /\ t \in States /\ Listed(t, X) /\ Pointers(t, X) /\ PutAway(t, X) /\ Filled(t, E)
      /\ \A d \in Containers : u.parent[d] = IF d = c THEN NIL ELSE t.parent[d]
      /\ \A d \in Containers : u.ws[d] = IF d = c \/ t.parent[d] = c THEN NIL ELSE t.ws[d]
      /\ \A d \in Containers : t.parent[d] \in Columns \union {NIL} /\ t.ws[d] \in Workspaces \union {NIL}
      /\ Unlists(t, c, u)
  BY Fields DEF Wired, Out
<1>1. Listed(u, X \union {c})
  <2>1. /\ \A p \in Columns : IsInjective(u.kids[p])
        /\ \A w \in Workspaces : IsInjective(u.tiling[w])
    BY <1>0 DEF Unlists, Fewer, Listed
  <2>2. /\ \A p \in Columns : Range(u.kids[p]) = Range(t.kids[p]) \ {c}
        /\ \A w \in Workspaces : Range(u.tiling[w]) = Range(t.tiling[w]) \ {c} /\ u.floating[w] = t.floating[w] \ {c}
    BY <1>0 DEF Unlists, Fewer
  <2>3. \A p \in Columns, v \in Views : v \in Range(u.kids[p]) <=> u.parent[v] = p
    <3>1. \A p \in Columns, v \in Views : v \in Range(t.kids[p]) <=> t.parent[v] = p
      BY <1>0 DEF Listed
    <3> QED
      BY <3>1, <1>0, <2>2, Names
  <2>4. ASSUME NEW w \in Workspaces, NEW d \in Containers
        PROVE  d \in Range(u.tiling[w]) \/ d \in u.floating[w]
                 <=> d \notin X \union {c} /\ u.parent[d] = NIL /\ u.ws[d] = w
    <3>1. d \in Range(t.tiling[w]) \/ d \in t.floating[w] <=> d \notin X /\ t.parent[d] = NIL /\ t.ws[d] = w
      BY <1>0 DEF Listed
    <3>2. d \in Range(u.tiling[w]) \/ d \in u.floating[w]
            <=> d # c /\ (d \in Range(t.tiling[w]) \/ d \in t.floating[w])
      BY <2>2
    <3>3. d # c /\ t.parent[d] = NIL => u.parent[d] = NIL /\ u.ws[d] = t.ws[d]
      BY <1>0, Names
    <3>4. d # c => u.parent[d] = t.parent[d]
      BY <1>0
    <3> QED
      BY <3>1, <3>2, <3>3, <3>4
  <2>5. \A w \in Workspaces, v \in u.scratch : v \notin Range(u.tiling[w])
    <3>1. \A w \in Workspaces, v \in t.scratch : v \notin Range(t.tiling[w])
      BY <1>0 DEF Listed
    <3>2. \A v \in u.scratch : v \in Containers /\ (v # c => v \in t.scratch)
      BY Fields, Names DEF Flags
    <3> QED
      BY <3>1, <3>2, <2>2
  <2> QED
    BY <2>1, <2>3, <2>4, <2>5 DEF Listed
<1>2. Pointers(u, X \union {c})
  <2>1. \A v \in Views : u.parent[v] # NIL => u.ws[v] = u.ws[u.parent[v]] /\ u.parent[v] \in u.live
    <3> SUFFICES ASSUME NEW v \in Views, u.parent[v] # NIL
                 PROVE  u.ws[v] = u.ws[u.parent[v]] /\ u.parent[v] \in u.live
      OBVIOUS
    <3> DEFINE p == t.parent[v]
    <3>1. v # c /\ u.parent[v] = p /\ p \in Columns /\ p \in Containers /\ v \in Containers
      BY <1>0, Names
    <3>2. t.ws[v] = t.ws[p] /\ p \in t.live /\ t.parent[p] = NIL
      BY <1>0, <3>1 DEF Pointers
    <3>3. c \in Containers /\ t.parent[p] # c
      BY <3>2, Names
    <3>4. u.ws[v] = u.ws[p]
      BY <3>1, <3>2, <3>3, <1>0
    <3>5. p \in u.live
      BY <3>1, <3>2 DEF Flags
    <3> QED
      BY <3>1, <3>4, <3>5
  <2>2. /\ \A d \in Columns : t.parent[d] = NIL
        /\ \A d \in Containers : d \in X => t.parent[d] = NIL
        /\ \A d \in Containers : d \notin t.live => t.parent[d] = NIL /\ t.ws[d] = NIL
        /\ \A d \in Containers : d \notin X /\ t.parent[d] = NIL /\ t.ws[d] # NIL => t.alive[t.ws[d]] = "live"
    BY <1>0 DEF Pointers
  <2>3. \A d \in Containers : d \notin u.live => u.parent[d] = NIL /\ u.ws[d] = NIL
    BY <2>2, <1>0 DEF Flags
  <2>4. \A d \in Containers : d \notin X \union {c} /\ u.parent[d] = NIL /\ u.ws[d] # NIL => u.alive[u.ws[d]] = "live"
    <3>1. u.alive = t.alive
      BY DEF Flags
    <3> QED
      BY <2>2, <3>1, <1>0
  <2> QED
    BY <1>0, <2>1, <2>2, <2>3, <2>4, Names DEF Pointers
<1>3. PutAway(u, X \union {c})
  <2>1. \A d \in Columns : d \in u.live /\ d \notin X \union {c} => u.ws[d] # NIL
    <3>1. \A d \in Columns : t.parent[d] = NIL
      BY <1>0 DEF Pointers
    <3>2. \A d \in Columns : d \in t.live /\ d \notin X => t.ws[d] # NIL
      BY <1>0 DEF PutAway
    <3> QED
      BY <1>0, <3>1, <3>2, Names DEF Flags
  <2>2. \A v \in Views : v \in u.live /\ v \notin X \union {c} /\ u.parent[v] = NIL /\ u.ws[v] = NIL
                         => v \in u.scratch \/ v \in u.minimized
    <3> SUFFICES ASSUME NEW v \in Views, v \in u.live, v \notin X, v # c, u.parent[v] = NIL, u.ws[v] = NIL
                 PROVE  v \in u.scratch \/ v \in u.minimized
      OBVIOUS
    <3>1. v \in Containers /\ NIL \notin Containers
      BY Names
    <3>2. t.parent[v] = NIL /\ t.ws[v] = NIL
      BY <1>0, <3>1
    <3> QED
      BY <1>0, <3>1, <3>2 DEF Flags, PutAway
  <2>3. \A v \in Views : v \in u.scratch => v \in u.live /\ u.parent[v] = NIL /\ (v \in u.minimized => v \in u.wasfloat)
    BY <1>0, Names DEF Flags, PutAway
  <2>4. \A v \in Views : v \in u.minimized => u.parent[v] = NIL /\ u.ws[v] = NIL
    BY <1>0, Names DEF Flags, PutAway
  <2> QED
    BY <2>1, <2>2, <2>3, <2>4 DEF PutAway
<1>4. Filled(u, E \union {t.parent[c]}) /\ u.crash # "destroyed twice"
  <2> SUFFICES ASSUME u.lost = {}, NEW d \in Columns, d \in u.live, d \notin E \union {t.parent[c]}
               PROVE  \E v \in Views : u.parent[v] = d
    BY DEF Filled, Flags
  <2>1. t.lost = {}
    BY DEF Flags
  <2>2. d \in t.live
    <3>1. CASE d = c
      BY <3>1 DEF Flags
    <3>2. CASE d # c
      BY <3>2, Names DEF Flags
    <3> QED
      BY <3>1, <3>2
  <2>3. PICK v \in Views : t.parent[v] = d
    BY <2>1, <2>2, <1>0 DEF Filled
  <2>4. v # c
    BY <2>3
  <2> QED
    BY <2>3, <2>4, <1>0, Names
<1> QED
  BY <1>0, <1>1, <1>2, <1>3, <1>4 DEF Wired

-----------------------------------------------------------------------------
(* Into the tree.                                                          *)

(* c is a child of column p. *)
InColumn(t, c, p, u) ==
    /\ Range(u.kids[p]) = Range(t.kids[p]) \union {c} /\ IsInjective(u.kids[p])
    /\ \A q \in Columns : q # p => u.kids[q] = t.kids[q]
    /\ u.tiling = t.tiling /\ u.floating = t.floating
    /\ \A d \in Containers : u.parent[d] = IF d = c THEN p ELSE t.parent[d]
    /\ \A d \in Containers : u.ws[d] = IF d = c THEN t.ws[p] ELSE t.ws[d]
(* c is on workspace w, a column or window of its own. *)
InWorkspace(t, c, w, u) ==
    /\ u.kids = t.kids
    /\ \A x \in Workspaces : x # w => u.tiling[x] = t.tiling[x] /\ u.floating[x] = t.floating[x]
    /\ IsInjective(u.tiling[w])
    /\ \/ Range(u.tiling[w]) = Range(t.tiling[w]) \union {c} /\ u.floating[w] = t.floating[w] /\ c \notin t.scratch
       \/ u.tiling[w] = t.tiling[w] /\ u.floating[w] = t.floating[w] \union {c}
    /\ \A d \in Containers : u.parent[d] = t.parent[d]
    /\ \A d \in Containers : u.ws[d] = IF d = c \/ t.parent[d] = c THEN w ELSE t.ws[d]

LEMMA InColumnWired ==
    ASSUME NEW t, NEW X, NEW E, Wired(t, X, E), NEW c \in Views, NEW p \in Columns, NEW u \in States,
           c \in X, c \in t.live, c \notin t.scratch, c \notin t.minimized, p \in t.live,
           InColumn(t, c, p, u), Rest(t, u)
    PROVE  Wired(u, X \ {c}, E \ {p})
<1>0. /\ t \in States /\ Listed(t, X) /\ Pointers(t, X) /\ PutAway(t, X) /\ Filled(t, E)
      /\ \A d \in Containers : u.parent[d] = IF d = c THEN p ELSE t.parent[d]
      /\ \A d \in Containers : u.ws[d] = IF d = c THEN t.ws[p] ELSE t.ws[d]
      /\ \A d \in Containers : t.parent[d] \in Columns \union {NIL} /\ t.ws[d] \in Workspaces \union {NIL}
      /\ c \in Containers /\ p \in Containers /\ p # NIL /\ p # c
      /\ t.parent[c] = NIL
  <2>1. c \in Containers /\ p \in Containers /\ p # NIL /\ p # c
    BY Names
  <2> QED
    BY <2>1, Fields DEF Wired, InColumn, Pointers
<1>1. Listed(u, X \ {c})
  <2>1. /\ \A q \in Columns : IsInjective(u.kids[q])
        /\ \A w \in Workspaces : IsInjective(u.tiling[w])
    BY <1>0 DEF InColumn, Listed
  <2>2. \A q \in Columns, v \in Views : v \in Range(u.kids[q]) <=> u.parent[v] = q
    <3>1. \A q \in Columns, v \in Views : v \in Range(t.kids[q]) <=> t.parent[v] = q
      BY <1>0 DEF Listed
    <3>2. \A q \in Columns : Range(u.kids[q]) = IF q = p THEN Range(t.kids[q]) \union {c} ELSE Range(t.kids[q])
      BY DEF InColumn
    <3>3. ASSUME NEW q \in Columns, NEW v \in Views
          PROVE  v \in Range(u.kids[q]) <=> u.parent[v] = q
      <4>1. v \in Containers
        BY Names
      <4>2. CASE v = c
        <5>1. u.parent[v] = p /\ t.parent[v] = NIL /\ q # NIL
          BY <4>1, <4>2, <1>0, Names
        <5>2. v \in Range(u.kids[q]) <=> q = p \/ v \in Range(t.kids[q])
          BY <3>2, <4>2
        <5>3. v \notin Range(t.kids[q])
          BY <3>1, <5>1
        <5> QED
          BY <5>1, <5>2, <5>3
      <4>3. CASE v # c
        <5>1. v \in Range(u.kids[q]) <=> v \in Range(t.kids[q])
          BY <3>2, <4>3
        <5> QED
          BY <3>1, <5>1, <4>1, <4>3, <1>0
      <4> QED
        BY <4>2, <4>3
    <3> QED
      BY <3>3
  <2>3. \A w \in Workspaces, d \in Containers :
          d \in Range(u.tiling[w]) \/ d \in u.floating[w] <=> d \notin X \ {c} /\ u.parent[d] = NIL /\ u.ws[d] = w
    <3>1. \A w \in Workspaces, d \in Containers :
            d \in Range(t.tiling[w]) \/ d \in t.floating[w] <=> d \notin X /\ t.parent[d] = NIL /\ t.ws[d] = w
      BY <1>0 DEF Listed
    <3>2. u.tiling = t.tiling /\ u.floating = t.floating
      BY DEF InColumn
    <3> QED
      BY <3>1, <3>2, <1>0
  <2>4. \A w \in Workspaces, v \in u.scratch : v \notin Range(u.tiling[w])
    BY <1>0 DEF InColumn, Listed, Rest
  <2> QED
    BY <2>1, <2>2, <2>3, <2>4 DEF Listed
<1>2. Pointers(u, X \ {c})
  <2>1. ASSUME NEW v \in Views, u.parent[v] # NIL
        PROVE  u.ws[v] = u.ws[u.parent[v]] /\ u.parent[v] \in u.live
    <3>1. v \in Containers
      BY Names
    <3>2. CASE v = c
      BY <3>2, <1>0 DEF Rest
    <3>3. CASE v # c
      <4>1. u.parent[v] = t.parent[v] /\ t.parent[v] # c /\ t.parent[v] \in Containers
        BY <2>1, <3>1, <3>3, <1>0, Names
      <4>2. t.ws[v] = t.ws[t.parent[v]] /\ t.parent[v] \in t.live
        BY <4>1, <2>1, <1>0 DEF Pointers
      <4> QED
        BY <3>1, <3>3, <4>1, <4>2, <1>0 DEF Rest
    <3> QED
      BY <3>2, <3>3
  <2>2. /\ \A d \in Columns : t.parent[d] = NIL
        /\ \A d \in Containers : d \in X => t.parent[d] = NIL
        /\ \A d \in Containers : d \notin t.live => t.parent[d] = NIL /\ t.ws[d] = NIL
        /\ \A d \in Containers : d \notin X /\ t.parent[d] = NIL /\ t.ws[d] # NIL => t.alive[t.ws[d]] = "live"
    BY <1>0 DEF Pointers
  <2>3. u.live = t.live /\ u.alive = t.alive
    BY DEF Rest
  <2> QED
    BY <1>0, <2>1, <2>2, <2>3, Names DEF Pointers
<1>3. PutAway(u, X \ {c})
  BY <1>0, Names DEF PutAway, Rest
<1>4. Filled(u, E \ {p}) /\ u.crash # "destroyed twice"
  <2> SUFFICES ASSUME u.lost = {}, NEW d \in Columns, d \in u.live, d \notin E \ {p}
               PROVE  \E v \in Views : u.parent[v] = d
    BY DEF Filled, Rest, Wired
  <2>1. CASE d = p
    BY <2>1, <1>0
  <2>2. CASE d # p
    <3>1. PICK v \in Views : t.parent[v] = d
      BY <2>2, <1>0 DEF Filled, Rest
    <3>2. v # c /\ v \in Containers
      BY <3>1, <1>0, Names
    <3> QED
      BY <3>1, <3>2, <1>0
  <2> QED
    BY <2>1, <2>2
<1> QED
  BY <1>0, <1>1, <1>2, <1>3, <1>4 DEF Wired

LEMMA InWorkspaceWired ==
    ASSUME NEW t, NEW X, NEW E, Wired(t, X, E), NEW c \in Containers, NEW w \in Workspaces, NEW u \in States,
           c \in t.live, c \notin t.minimized, t.parent[c] = NIL, c \in X \/ t.ws[c] = w, t.alive[w] = "live",
           InWorkspace(t, c, w, u), Rest(t, u)
    PROVE  Wired(u, X \ {c}, E)
<1>0. /\ t \in States /\ Listed(t, X) /\ Pointers(t, X) /\ PutAway(t, X) /\ Filled(t, E)
      /\ \A d \in Containers : u.parent[d] = t.parent[d]
      /\ \A d \in Containers : u.ws[d] = IF d = c \/ t.parent[d] = c THEN w ELSE t.ws[d]
      /\ \A d \in Containers : t.parent[d] \in Columns \union {NIL} /\ t.ws[d] \in Workspaces \union {NIL}
      /\ u.kids = t.kids /\ w # NIL /\ c # NIL
  <2>1. w # NIL /\ c # NIL
    BY Names
  <2> QED
    BY <2>1, Fields DEF Wired, InWorkspace
<1>1. Listed(u, X \ {c})
  <2>1. /\ \A q \in Columns : IsInjective(u.kids[q])
        /\ \A x \in Workspaces : IsInjective(u.tiling[x])
    BY <1>0 DEF InWorkspace, Listed
  <2>2. \A q \in Columns, v \in Views : v \in Range(u.kids[q]) <=> u.parent[v] = q
    <3>1. \A q \in Columns, v \in Views : v \in Range(t.kids[q]) <=> t.parent[v] = q
      BY <1>0 DEF Listed
    <3> QED
      BY <3>1, <1>0, Names
  <2>3. ASSUME NEW x \in Workspaces, NEW d \in Containers
        PROVE  d \in Range(u.tiling[x]) \/ d \in u.floating[x] <=> d \notin X \ {c} /\ u.parent[d] = NIL /\ u.ws[d] = x
    <3>1. d \in Range(t.tiling[x]) \/ d \in t.floating[x] <=> d \notin X /\ t.parent[d] = NIL /\ t.ws[d] = x
      BY <1>0 DEF Listed
    <3>2. d \in Range(u.tiling[x]) \/ d \in u.floating[x]
            <=> (d \in Range(t.tiling[x]) \/ d \in t.floating[x]) \/ (x = w /\ d = c)
      BY DEF InWorkspace
    <3>3. d # c /\ t.parent[d] = NIL => u.ws[d] = t.ws[d]
      BY <1>0
    <3>4. u.parent[d] = t.parent[d]
      BY <1>0
    <3>5. CASE d = c
      <4>1. u.ws[d] = w
        BY <1>0, <3>5
      <4> QED
        BY <3>1, <3>2, <3>4, <3>5, <4>1
    <3>6. CASE d # c
      BY <3>1, <3>2, <3>3, <3>4, <3>6
    <3> QED
      BY <3>5, <3>6
  <2>4. \A x \in Workspaces, v \in u.scratch : v \notin Range(u.tiling[x])
    <3>1. \A x \in Workspaces, v \in t.scratch : v \notin Range(t.tiling[x])
      BY <1>0 DEF Listed
    <3>2. \A x \in Workspaces : \/ Range(u.tiling[x]) = Range(t.tiling[x])
                                \/ Range(u.tiling[x]) = Range(t.tiling[x]) \union {c} /\ c \notin t.scratch
      BY DEF InWorkspace
    <3>3. u.scratch = t.scratch
      BY DEF Rest
    <3> QED
      BY <3>1, <3>2, <3>3
  <2> QED
    BY <2>1, <2>2, <2>3, <2>4 DEF Listed
<1>2. Pointers(u, X \ {c})
  <2>1. ASSUME NEW v \in Views, u.parent[v] # NIL
        PROVE  u.ws[v] = u.ws[u.parent[v]] /\ u.parent[v] \in u.live
    <3> DEFINE p == t.parent[v]
    <3>1. v \in Containers /\ u.parent[v] = p /\ p # NIL /\ p \in Containers
      BY <1>0, <2>1, Names
    <3>2. t.ws[v] = t.ws[p] /\ p \in t.live /\ t.parent[p] = NIL /\ v # c
      BY <1>0, <2>1, <3>1 DEF Pointers
    <3>3. u.ws[p] = IF p = c THEN w ELSE t.ws[p]
      BY <1>0, <3>1, <3>2
    <3>4. u.ws[v] = IF p = c THEN w ELSE t.ws[v]
      BY <1>0, <3>1, <3>2
    <3> QED
      BY <3>1, <3>2, <3>3, <3>4 DEF Rest
  <2>2. /\ \A d \in Columns : t.parent[d] = NIL
        /\ \A d \in Containers : d \in X => t.parent[d] = NIL
        /\ \A d \in Containers : d \notin t.live => t.parent[d] = NIL /\ t.ws[d] = NIL
        /\ \A d \in Containers : d \notin X /\ t.parent[d] = NIL /\ t.ws[d] # NIL => t.alive[t.ws[d]] = "live"
        /\ \A v \in Views : t.parent[v] # NIL => t.parent[v] \in t.live
    BY <1>0 DEF Pointers
  <2>3. u.live = t.live /\ u.alive = t.alive
    BY DEF Rest
  <2>4. \A d \in Containers : d \notin u.live => u.parent[d] = NIL /\ u.ws[d] = NIL
    BY <1>0, <2>2, <2>3
  <2>5. \A d \in Containers : d \notin X \ {c} /\ u.parent[d] = NIL /\ u.ws[d] # NIL => u.alive[u.ws[d]] = "live"
    BY <1>0, <2>2, <2>3
  <2> QED
    BY <1>0, <2>1, <2>2, <2>4, <2>5, Names DEF Pointers
<1>3. PutAway(u, X \ {c})
  <2>1. /\ u.live = t.live /\ u.scratch = t.scratch /\ u.minimized = t.minimized /\ u.wasfloat = t.wasfloat
    BY DEF Rest
  <2>2. \A d \in Columns : d \in u.live /\ d \notin X \ {c} => u.ws[d] # NIL
    BY <1>0, <2>1, Names DEF PutAway
  <2>3. \A v \in Views : v \in u.live /\ v \notin X \ {c} /\ u.parent[v] = NIL /\ u.ws[v] = NIL
                         => v \in u.scratch \/ v \in u.minimized
    BY <1>0, <2>1, Names DEF PutAway
  <2>4. \A v \in Views : v \in u.scratch => v \in u.live /\ u.parent[v] = NIL /\ (v \in u.minimized => v \in u.wasfloat)
    BY <1>0, <2>1, Names DEF PutAway
  <2>5. \A v \in Views : v \in u.minimized => u.parent[v] = NIL /\ u.ws[v] = NIL
    BY <1>0, <2>1, Names DEF PutAway
  <2> QED
    BY <2>2, <2>3, <2>4, <2>5 DEF PutAway
<1>4. Filled(u, E) /\ u.crash # "destroyed twice"
  <2>1. \A v \in Views : u.parent[v] = t.parent[v]
    BY <1>0, Names
  <2>2. u.lost = t.lost /\ u.live = t.live /\ u.crash = t.crash
    BY DEF Rest
  <2>3. ASSUME t.lost = {}, NEW d \in Columns, d \in t.live, d \notin E
        PROVE  \E v \in Views : u.parent[v] = d
    <3>1. PICK v \in Views : t.parent[v] = d
      BY <1>0, <2>3 DEF Filled
    <3> QED
      BY <3>1, <2>1
  <2>4. Filled(u, E)
    BY <2>2, <2>3 DEF Filled
  <2> QED
    BY <2>2, <2>4 DEF Wired
<1> QED
  BY <1>0, <1>1, <1>2, <1>3, <1>4 DEF Wired

(* A container that is nowhere and put away, or gone. *)
LEMMA Settled ==
    ASSUME NEW t, NEW X, NEW E, Wired(t, X, E), NEW c \in Containers, c \in X, t.ws[c] = NIL,
           c \notin t.live \/ c \in t.scratch \/ c \in t.minimized
    PROVE  Wired(t, X \ {c}, E)
<1>1. c \in Columns => c \notin t.live
  BY Fields, Names DEF Wired
<1>2. Listed(t, X \ {c})
  <2>1. Listed(t, X) /\ NIL \notin Workspaces
    BY Names DEF Wired
  <2> QED
    BY <2>1 DEF Listed
<1> QED
  BY <1>1, <1>2, Names DEF Wired, Pointers, PutAway

(* A container that is nowhere may be left out of account. *)
LEMMA Unsettled ==
    ASSUME NEW t, NEW X, NEW E, Wired(t, X, E), NEW c \in Containers, t.parent[c] = NIL, t.ws[c] = NIL
    PROVE  Wired(t, X \union {c}, E)
<1>1. Listed(t, X \union {c})
  <2>1. Listed(t, X) /\ NIL \notin Workspaces
    BY Names DEF Wired
  <2> QED
    BY <2>1 DEF Listed
<1> QED
  BY <1>1, Names DEF Wired, Pointers, PutAway

(* Every column that is there is in the account of those that may be empty. *)
LEMMA FilledEnough ==
    ASSUME NEW t, NEW X, NEW E, NEW D, Wired(t, X, E),
           t.lost # {} \/ \A c \in Columns : c \in t.live /\ c \in E /\ c \notin D => \E v \in Views : t.parent[v] = c
    PROVE  Wired(t, X, D)
BY DEF Wired, Filled

-----------------------------------------------------------------------------
(* The functions that move one container.                                  *)

(* All but c are where they were. *)
Beside(t, u, c) ==
    \A d \in Containers : d # c => /\ u.parent[d] = t.parent[d] /\ u.ws[d] = t.ws[d]
                                   /\ d \in u.live <=> d \in t.live
                                   /\ d \in u.scratch <=> d \in t.scratch
                                   /\ d \in u.minimized <=> d \in t.minimized
                                   /\ d \in u.wasfloat <=> d \in t.wasfloat

LEMMA RestFlags ==
    ASSUME NEW t, NEW u, NEW X, NEW E, Wired(t, X, E), NEW c \in Containers, Rest(t, u)
    PROVE  Flags(t, u, c)
<1>1. c \in t.scratch => c \in Views
  BY Fields DEF Wired
<1> QED
  BY <1>1 DEF Wired, PutAway, Flags, Rest

(* A window has no children. *)
LEMMA NoChildren ==
    ASSUME NEW t \in States, NEW c \in Views, NEW d \in Containers
    PROVE  t.parent[d] # c
BY Fields, Names

LEMMA DetachWired ==
    ASSUME NEW t, NEW X, NEW E, Wired(t, X, E), NEW c \in Containers
    PROVE  LET u == Detach(t, c)
           IN  /\ Wired(u, X \union {c}, E \union {t.parent[c]}) /\ Out(t, c, u) /\ Rest(t, u)
               /\ u.parent[c] = NIL /\ u.ws[c] = NIL
<1> DEFINE u == Detach(t, c)
<1>1. /\ t \in States /\ Listed(t, X) /\ \A p \in Columns : t.parent[p] = NIL
      /\ \A v \in Views : t.parent[v] # NIL => t.parent[v] \in t.live
  BY DEF Wired, Pointers
<1>2. u \in States /\ Rest(t, u) /\ Out(t, c, u)
  BY <1>1, DetachOut
<1>3. c \in u.live \/ \A v \in Views : t.parent[v] # c
  <2>1. c # NIL
    BY Names
  <2> QED
    BY <1>1, <1>2, <2>1 DEF Rest
<1> HIDE DEF u
<1>4. Flags(t, u, c)
  BY <1>2, RestFlags
<1> QED
  BY <1>2, <1>3, <1>4, OutWired DEF u

LEMMA Nowhere ==
    ASSUME NEW t, NEW X, NEW E, Wired(t, X, E), NEW c \in Containers, t.parent[c] = NIL, t.ws[c] = NIL
    PROVE  Out(t, c, t) /\ Wired(t, X \union {c}, E \union {t.parent[c]})
<1>1. \A d \in Containers : t.parent[d] = c => t.ws[d] = NIL
  BY Names DEF Wired, Pointers
<1>2. Wired(t, X \union {c}, E)
  BY Unsettled
<1>3. Wired(t, X \union {c}, E \union {t.parent[c]})
  BY <1>2, FilledEnough
<1> QED
  BY <1>1, <1>3, NowhereOut DEF Wired

LEMMA DetachIfWired ==
    ASSUME NEW t, NEW X, NEW E, Wired(t, X, E), NEW c \in Containers, t.ws[c] = NIL => t.parent[c] = NIL
    PROVE  LET u == DetachIf(t, c)
           IN  /\ Wired(u, X \union {c}, E \union {t.parent[c]}) /\ Out(t, c, u) /\ Rest(t, u)
               /\ u.parent[c] = NIL /\ u.ws[c] = NIL
<1>1. CASE t.ws[c] # NIL
  BY <1>1, DetachWired DEF DetachIf
<1>2. CASE t.ws[c] = NIL
  <2>1. DetachIf(t, c) = t
    BY <1>2 DEF DetachIf
  <2> QED
    BY <1>2, <2>1, Nowhere DEF Rest
<1> QED
  BY <1>1, <1>2

LEMMA AppendMore ==
    ASSUME NEW S, NEW q \in Seq(S), NEW c \in S
    PROVE  Append(q, c) \in Seq(S) /\ More(q, Append(q, c), c)
<1> DEFINE r == Append(q, c)
<1>1. /\ r \in Seq(S) /\ Len(r) = Len(q) + 1 /\ r[Len(r)] = c
      /\ \A i \in 1..Len(q) : r[i] = q[i]
      /\ Len(q) \in Nat
  OBVIOUS
<1> HIDE DEF r
<1>2. /\ \A x : x \in Range(q) <=> \E k \in 1..Len(q) : q[k] = x
      /\ \A x : x \in Range(r) <=> \E k \in 1..Len(r) : r[k] = x
  BY <1>1, RangeSeq
<1>3. /\ IsInjective(r) <=> \A a, b \in 1..Len(r) : r[a] = r[b] => a = b
      /\ IsInjective(q) <=> \A a, b \in 1..Len(q) : q[a] = q[b] => a = b
  BY <1>1 DEF IsInjective
<1>4. \A k \in 1..Len(r) : k \in 1..Len(q) \/ k = Len(r)
  BY <1>1
<1>5. \A x : x \in Range(r) <=> x \in Range(q) \/ x = c
  <2>1. ASSUME NEW x \in Range(r) PROVE x \in Range(q) \/ x = c
    <3>1. PICK k \in 1..Len(r) : r[k] = x
      BY <1>2
    <3> QED
      BY <3>1, <1>1, <1>2, <1>4
  <2>2. ASSUME NEW x \in Range(q) PROVE x \in Range(r)
    <3>1. PICK k \in 1..Len(q) : q[k] = x
      BY <1>2
    <3>2. k \in 1..Len(r) /\ r[k] = x
      BY <3>1, <1>1
    <3> QED
      BY <3>2, <1>2
  <2>3. c \in Range(r)
    <3>1. Len(r) \in 1..Len(r)
      BY <1>1
    <3> QED
      BY <3>1, <1>1, <1>2
  <2> QED
    BY <2>1, <2>2, <2>3
<1>6. ASSUME IsInjective(q), c \notin Range(q) PROVE IsInjective(r)
  <2> SUFFICES ASSUME NEW a \in 1..Len(r), NEW b \in 1..Len(r), r[a] = r[b] PROVE a = b
    BY <1>3
  <2>1. \A k \in 1..Len(q) : r[k] # c
    BY <1>1, <1>2, <1>6
  <2> QED
    BY <2>1, <1>1, <1>3, <1>4, <1>6
<1> QED
  BY <1>1, <1>5, <1>6 DEF More, r

(* Only the lists and the parent say where c goes. *)
ToColumn(t, c, p, a) ==
    /\ Rest(t, a) /\ a.ws = t.ws /\ a.tiling = t.tiling /\ a.floating = t.floating
    /\ \A d \in Containers : a.parent[d] = IF d = c THEN p ELSE t.parent[d]
    /\ More(t.kids[p], a.kids[p], c) /\ \A q \in Columns : q # p => a.kids[q] = t.kids[q]
ToWorkspace(t, c, w, a) ==
    /\ Rest(t, a) /\ a.kids = t.kids /\ a.parent = t.parent /\ a.ws = t.ws
    /\ \A x \in Workspaces : x # w => a.tiling[x] = t.tiling[x] /\ a.floating[x] = t.floating[x]
    /\ IsInjective(a.tiling[w])
    /\ \/ Range(a.tiling[w]) = Range(t.tiling[w]) \union {c} /\ a.floating[w] = t.floating[w] /\ c \notin t.scratch
       \/ a.tiling[w] = t.tiling[w] /\ a.floating[w] = t.floating[w] \union {c}

(* Where the pointers lead when c is there. *)
LeadsToWorkspace(t, c, w, u) ==
    /\ \A d \in Containers : u.parent[d] = t.parent[d]
    /\ \A d \in Containers : u.ws[d] = IF d = c \/ t.parent[d] = c THEN w ELSE t.ws[d]
LeadsToColumn(t, c, p, u) ==
    /\ \A d \in Containers : u.parent[d] = IF d = c THEN p ELSE t.parent[d]
    /\ \A d \in Containers : u.ws[d] = IF d = c THEN t.ws[p] ELSE t.ws[d]

(* A window into column p, at the end or behind another. *)
LEMMA IntoColumn ==
    ASSUME NEW t, NEW X, NEW E, Wired(t, X, E), NEW c \in Views, NEW p \in Columns,
           c \in X, c \in t.live, c \notin t.scratch, c \notin t.minimized, p \in t.live,
           NEW a \in States, ToColumn(t, c, p, a), NEW u, u = Place(a, c, t.ws[p])
    PROVE  Wired(u, X \ {c}, E \ {p}) /\ Rest(t, u) /\ LeadsToColumn(t, c, p, u)
<1> DEFINE w == t.ws[p]
           b == Within(a, c, w)
<1>0. /\ t \in States /\ c \in Containers /\ p \in Containers /\ w \in Workspaces \union {NIL} /\ c \notin Columns
  <2>1. c \in Containers /\ p \in Containers /\ c \notin Columns
    BY Names
  <2>2. t \in States
    BY DEF Wired
  <2> QED
    BY <2>1, <2>2, Fields
<1>9. u = Place(a, c, w)
  OBVIOUS
<1> HIDE DEF w
<1>1. b \in States /\ u \in States /\ Alike(b, u)
  BY <1>0, <1>9, PlaceAlike, WithinType
<1>2. KidsOf(a, c) = {}
  BY <1>0 DEF KidsOf, IsColumn
<1>3. /\ Rest(a, b) /\ b.parent = a.parent /\ b.kids = a.kids
      /\ b.tiling = a.tiling /\ b.floating = a.floating
      /\ \A d \in Containers : b.ws[d] = IF d = c THEN w ELSE a.ws[d]
  <2>1. b = [a EXCEPT !.ws = [d \in Containers |-> IF d = c \/ d \in KidsOf(a, c) THEN w ELSE @[d]]]
    BY DEF Within
  <2> HIDE DEF b
  <2> QED
    BY <2>1, <1>2 DEF States, Rest
<1> HIDE DEF b
<1>4. IsInjective(a.kids[p]) /\ Range(a.kids[p]) = Range(t.kids[p]) \union {c}
  <2>1. IsInjective(t.kids[p])
    BY DEF Wired, Listed
  <2>2. c \notin Range(t.kids[p])
    <3>1. t.parent[c] = NIL /\ p # NIL
      BY <1>0, Names DEF Wired, Pointers
    <3>2. c \in Range(t.kids[p]) <=> t.parent[c] = p
      <4>1. Listed(t, X)
        BY DEF Wired
      <4> QED
        BY <4>1 DEF Listed
    <3> QED
      BY <3>1, <3>2
  <2> QED
    BY <2>1, <2>2 DEF More, ToColumn
<1>5. /\ u.parent = a.parent /\ u.kids = a.kids /\ u.tiling = t.tiling /\ u.floating = t.floating
      /\ \A d \in Containers : u.ws[d] = IF d = c THEN w ELSE t.ws[d]
  BY <1>1, <1>3 DEF Alike, ToColumn
<1>6. Rest(t, u)
  BY <1>1, <1>3 DEF Alike, Rest, ToColumn
<1>7. InColumn(t, c, p, u)
  BY <1>4, <1>5 DEF InColumn, ToColumn, w
<1>8. Wired(u, X \ {c}, E \ {p})
  BY <1>1, <1>6, <1>7, InColumnWired
<1> QED
  BY <1>5, <1>6, <1>8 DEF w, ToColumn, LeadsToColumn

(* A container onto workspace w, with the children it has. *)
LEMMA OntoAlike ==
    ASSUME NEW t, NEW X, NEW E, Wired(t, X, E), NEW c \in Containers, NEW w \in Workspaces,
           c \in t.live, c \notin t.minimized, t.parent[c] = NIL, c \in X \/ t.ws[c] = w, t.alive[w] = "live",
           NEW a \in States, ToWorkspace(t, c, w, a), NEW u \in States, Alike(Within(a, c, w), u)
    PROVE  Wired(u, X \ {c}, E) /\ Rest(t, u) /\ LeadsToWorkspace(t, c, w, u)
<1> DEFINE b == Within(a, c, w)
<1>1. b \in States /\ u \in States /\ Alike(b, u)
  BY WithinType
<1>2. /\ Rest(a, b) /\ b.parent = a.parent /\ b.kids = a.kids
      /\ b.tiling = a.tiling /\ b.floating = a.floating
      /\ \A d \in Containers : b.ws[d] = IF d = c \/ d \in KidsOf(a, c) THEN w ELSE a.ws[d]
  <2>1. b = [a EXCEPT !.ws = [d \in Containers |-> IF d = c \/ d \in KidsOf(a, c) THEN w ELSE @[d]]]
    BY DEF Within
  <2> HIDE DEF b
  <2> QED
    BY <2>1 DEF States, Rest
<1> HIDE DEF b
<1>3. \A d \in Containers : d \in KidsOf(a, c) <=> t.parent[d] = c
  <2>1. \A d : d \in KidsOf(a, c) <=> d \in KidsOf(t, c)
    BY DEF KidsOf, ToWorkspace
  <2>2. t \in States /\ Listed(t, X) /\ \A p \in Columns : t.parent[p] = NIL
    BY DEF Wired, Pointers
  <2> QED
    BY <2>1, <2>2, KidsNamed
<1>4. /\ u.parent = t.parent /\ u.kids = t.kids /\ u.tiling = a.tiling /\ u.floating = a.floating
      /\ \A d \in Containers : u.ws[d] = IF d = c \/ t.parent[d] = c THEN w ELSE t.ws[d]
  BY <1>1, <1>2, <1>3 DEF Alike, ToWorkspace
<1>5. Rest(t, u)
  BY <1>1, <1>2 DEF Alike, Rest, ToWorkspace
<1>6. InWorkspace(t, c, w, u)
  BY <1>4 DEF InWorkspace, ToWorkspace
<1>7. Wired(u, X \ {c}, E)
  BY <1>1, <1>5, <1>6, InWorkspaceWired
<1> QED
  BY <1>4, <1>5, <1>7 DEF LeadsToWorkspace

LEMMA OntoWorkspace ==
    ASSUME NEW t, NEW X, NEW E, Wired(t, X, E), NEW c \in Containers, NEW w \in Workspaces,
           c \in t.live, c \notin t.minimized, t.parent[c] = NIL, c \in X \/ t.ws[c] = w, t.alive[w] = "live",
           NEW a \in States, ToWorkspace(t, c, w, a), NEW u, u = Place(a, c, w)
    PROVE  Wired(u, X \ {c}, E) /\ Rest(t, u) /\ LeadsToWorkspace(t, c, w, u)
BY PlaceAlike, OntoAlike

LEMMA AddChildWired ==
    ASSUME NEW t, NEW X, NEW E, Wired(t, X, E), NEW c \in Views, NEW p \in Columns,
           c \in t.live, c \notin t.scratch, c \notin t.minimized, p \in t.live,
           t.ws[c] = NIL => t.parent[c] = NIL
    PROVE  LET u == AddChild(t, p, c)
           IN  Wired(u, X \ {c}, (E \union {t.parent[c]}) \ {p}) /\ Rest(t, u) /\ LeadsToColumn(t, c, p, u)
<1> DEFINE b == DetachIf(t, c)
           a == [b EXCEPT !.kids[p] = Append(@, c), !.parent[c] = p]
           u == Place(a, c, b.ws[p])
<1>0. t \in States /\ c \in Containers /\ p \in Containers /\ p # c
  BY Names DEF Wired
<1>1. /\ Wired(b, X \union {c}, E \union {t.parent[c]}) /\ Out(t, c, b) /\ Rest(t, b)
  BY <1>0, DetachIfWired
<1>2. AddChild(t, p, c) = u
  BY DEF AddChild
<1> HIDE DEF b
<1> DEFINE r == Append(b.kids[p], c)
           k == [b.kids EXCEPT ![p] = r]
           f == [b.parent EXCEPT ![c] = p]
<1>3. b \in States /\ b.kids \in [Columns -> Seq(Views)] /\ b.parent \in [Containers -> Columns \union {NIL}]
  BY <1>1, Fields DEF Wired
<1>4. r \in Seq(Views) /\ More(b.kids[p], r, c)
  BY <1>3, AppendMore
<1> HIDE DEF r
<1>5. /\ k \in [Columns -> Seq(Views)] /\ f \in [Containers -> Columns \union {NIL}]
      /\ k[p] = r /\ \A q \in Columns : q # p => k[q] = b.kids[q]
      /\ \A d \in Containers : f[d] = IF d = c THEN p ELSE b.parent[d]
  BY <1>0, <1>3, <1>4
<1>6. a = [b EXCEPT !.kids = k, !.parent = f]
  BY <1>3 DEF States, r
<1> HIDE DEF k, f, a
<1>12. /\ a \in States /\ Rest(b, a) /\ a.ws = b.ws /\ a.tiling = b.tiling /\ a.floating = b.floating
       /\ a.kids = k /\ a.parent = f
  BY <1>3, <1>5, <1>6 DEF States, Rest
<1> DEFINE Y == X \union {c}
           D == E \union {t.parent[c]}
<1>13. Wired(b, Y, D) /\ c \in Y
  BY <1>1
<1> HIDE DEF Y, D
<1>14. c \in b.live /\ c \notin b.scratch /\ c \notin b.minimized /\ p \in b.live
  BY <1>1 DEF Rest
<1>15. More(b.kids[p], a.kids[p], c) /\ (\A q \in Columns : q # p => a.kids[q] = b.kids[q])
       /\ \A d \in Containers : a.parent[d] = IF d = c THEN p ELSE b.parent[d]
  BY <1>4, <1>5, <1>12
<1>7. Wired(u, Y \ {c}, D \ {p}) /\ Rest(b, u) /\ LeadsToColumn(b, c, p, u)
  <2>1. a \in States /\ ToColumn(b, c, p, a)
    BY <1>12, <1>15 DEF ToColumn
  <2>2. u = Place(a, c, b.ws[p])
    OBVIOUS
  <2> HIDE DEF u
  <2> QED
    BY <1>13, <1>14, <2>1, <2>2, IntoColumn
<1> HIDE DEF u
<1>8. \A d \in Containers : t.parent[d] # c
  BY <1>0, NoChildren
<1>9. LeadsToColumn(t, c, p, u)
  BY <1>0, <1>1, <1>7, <1>8 DEF Out, LeadsToColumn
<1>10. Rest(t, u)
  BY <1>1, <1>7 DEF Rest
<1>11. Y \ {c} = X \ {c} /\ D \ {p} = (E \union {t.parent[c]}) \ {p}
  BY DEF Y, D
<1> QED
  BY <1>2, <1>7, <1>9, <1>10, <1>11

LEMMA PoolRemoveFields ==
    ASSUME NEW t \in States, NEW c \in Views
    PROVE  LET u == PoolRemove(t, c)
           IN  /\ u \in States /\ u.parent = t.parent /\ u.ws = t.ws /\ u.kids = t.kids
               /\ u.tiling = t.tiling /\ u.floating = t.floating
               /\ u.live = t.live /\ u.scratch = t.scratch
               /\ u.minimized = t.minimized \ {c} /\ u.wasfloat = t.wasfloat \ {c}
               /\ u.alive = t.alive /\ u.lost = t.lost /\ u.crash = t.crash
<1> DEFINE u == PoolRemove(t, c)
           w == Owner(t, c)
           a == [t EXCEPT !.minimized = @ \ {c}, !.wasfloat = @ \ {c}]
<1>1. u \in States /\ w \in Workspaces \union {NIL}
  BY PoolRemoveType, OwnerType
<1>2. u = IF w = NIL THEN a ELSE [a EXCEPT !.pool[w] = @ \ {c}]
  BY DEF PoolRemove
<1> HIDE DEF u, w, a
<1>3. /\ a \in States /\ a.parent = t.parent /\ a.ws = t.ws /\ a.kids = t.kids
      /\ a.tiling = t.tiling /\ a.floating = t.floating
      /\ a.live = t.live /\ a.scratch = t.scratch
      /\ a.minimized = t.minimized \ {c} /\ a.wasfloat = t.wasfloat \ {c}
      /\ a.alive = t.alive /\ a.lost = t.lost /\ a.crash = t.crash
  BY DEF States, a
<1>4. /\ u.parent = a.parent /\ u.ws = a.ws /\ u.kids = a.kids
      /\ u.tiling = a.tiling /\ u.floating = a.floating
      /\ u.live = a.live /\ u.scratch = a.scratch
      /\ u.minimized = a.minimized /\ u.wasfloat = a.wasfloat
      /\ u.alive = a.alive /\ u.lost = a.lost /\ u.crash = a.crash
  <2>1. CASE w = NIL
    BY <1>2, <2>1
  <2>2. CASE w # NIL
    <3> DEFINE k == [a.pool EXCEPT ![w] = @ \ {c}]
    <3>1. u = [a EXCEPT !.pool = k]
      BY <1>2, <1>3, <2>2 DEF States
    <3> HIDE DEF k
    <3> QED
      BY <1>3, <3>1 DEF States
  <2> QED
    BY <2>1, <2>2
<1> QED
  BY <1>1, <1>3, <1>4 DEF u

LEMMA UnparkFields ==
    ASSUME NEW t \in States, NEW c \in Containers
    PROVE  LET u == Unpark(t, c)
           IN  /\ u \in States /\ u.parent = t.parent /\ u.ws = t.ws /\ u.kids = t.kids
               /\ u.tiling = t.tiling /\ u.floating = t.floating
               /\ u.live = t.live /\ u.scratch = t.scratch
               /\ u.minimized = t.minimized \ {c}
               /\ \A d \in Containers : d # c => (d \in u.wasfloat <=> d \in t.wasfloat)
               /\ u.alive = t.alive /\ u.lost = t.lost /\ u.crash = t.crash
<1>1. CASE c \in t.minimized
  <2>1. c \in Views
    BY <1>1, Fields
  <2>2. Unpark(t, c) = PoolRemove(t, c)
    BY <1>1 DEF Unpark
  <2> QED
    BY <2>1, <2>2, PoolRemoveFields
<1>2. CASE c \notin t.minimized
  BY <1>2 DEF Unpark
<1> QED
  BY <1>1, <1>2

(* A window that is minimized is taken from its pool. *)
LEMMA UnparkWired ==
    ASSUME NEW t, NEW X, NEW E, Wired(t, X, E), NEW c \in Views,
           t.ws[c] = NIL => c \in X \/ c \in t.minimized
    PROVE  LET u == Unpark(t, c)
           IN  Wired(u, X, E) \/ (c \in t.minimized /\ Wired(u, X \union {c}, E))
<1> DEFINE u == Unpark(t, c)
<1>0. t \in States /\ c \in Containers
  BY Names DEF Wired
<1>1. CASE c \in t.minimized
  <2>1. t.parent[c] = NIL /\ t.ws[c] = NIL
    BY <1>1 DEF Wired, PutAway
  <2>2. Out(t, c, t) /\ Wired(t, X \union {c}, E \union {t.parent[c]})
    BY <1>0, <2>1, Nowhere
  <2>3. /\ u \in States /\ u.parent = t.parent /\ u.ws = t.ws /\ u.kids = t.kids
        /\ u.tiling = t.tiling /\ u.floating = t.floating
        /\ u.live = t.live /\ u.scratch = t.scratch
        /\ u.minimized = t.minimized \ {c}
        /\ \A d \in Containers : d # c => (d \in u.wasfloat <=> d \in t.wasfloat)
        /\ u.alive = t.alive /\ u.lost = t.lost /\ u.crash = t.crash
    BY <1>0, UnparkFields
  <2> HIDE DEF u
  <2>4. Out(t, c, u)
    BY <2>2, <2>3 DEF Out, Unlists
  <2>5. Flags(t, u, c)
    BY <2>3 DEF Flags, Wired, PutAway
  <2>6. Wired(u, X \union {c}, E \union {t.parent[c]})
    <3>1. \A v \in Views : t.parent[v] # c
      BY <1>0, NoChildren, Names
    <3> QED
      BY <1>0, <2>3, <2>4, <2>5, <3>1, OutWired
  <2>7. Wired(u, X \union {c}, E)
    BY <2>1, <2>6, FilledEnough, Names
  <2> QED
    BY <1>1, <2>7 DEF u
<1>2. CASE c \notin t.minimized
  BY <1>2 DEF Unpark
<1> QED
  BY <1>1, <1>2

(* Out of a pool, and of the tree. *)
LEMMA TakenOut ==
    ASSUME NEW t, NEW X, NEW E, Wired(t, X, E), NEW v \in Views, t.ws[v] = NIL => t.parent[v] = NIL
    PROVE  LET u == DetachIf(Unpark(t, v), v)
           IN  /\ Wired(u, X \union {v}, E \union {t.parent[v]})
               /\ u.parent[v] = NIL /\ u.ws[v] = NIL /\ v \notin u.minimized
               /\ Beside(t, u, v) /\ u.live = t.live /\ u.scratch = t.scratch /\ u.alive = t.alive
               /\ u.lost = t.lost
<1> DEFINE a == Unpark(t, v)
           u == DetachIf(a, v)
<1>0. t \in States /\ v \in Containers
  BY Names DEF Wired
<1>1. /\ a \in States /\ a.parent = t.parent /\ a.ws = t.ws
      /\ a.live = t.live /\ a.scratch = t.scratch
      /\ a.minimized = t.minimized \ {v}
      /\ \A d \in Containers : d # v => (d \in a.wasfloat <=> d \in t.wasfloat)
      /\ a.alive = t.alive /\ a.lost = t.lost /\ a.crash = t.crash
  BY <1>0, UnparkFields
<1>2. PICK Y : (Y = X \/ Y = X \union {v}) /\ Wired(a, Y, E)
  <2>1. CASE v \in t.minimized
    BY <2>1, UnparkWired
  <2>2. CASE v \notin t.minimized
    BY <2>2 DEF Unpark
  <2> QED
    BY <2>1, <2>2
<1> HIDE DEF a
<1>3. /\ Wired(u, Y \union {v}, E \union {a.parent[v]}) /\ Out(a, v, u) /\ Rest(a, u)
      /\ u.parent[v] = NIL /\ u.ws[v] = NIL
  BY <1>0, <1>1, <1>2, DetachIfWired
<1> HIDE DEF u
<1>4. Y \union {v} = X \union {v}
  BY <1>2
<1>5. Beside(t, u, v)
  <2>1. \A d \in Containers : t.parent[d] # v
    BY <1>0, NoChildren
  <2> QED
    BY <1>1, <1>3, <2>1 DEF Beside, Out, Rest
<1>6. v \notin u.minimized /\ u.live = t.live /\ u.scratch = t.scratch /\ u.alive = t.alive /\ u.lost = t.lost
  BY <1>1, <1>3 DEF Rest
<1> QED
  BY <1>1, <1>3, <1>4, <1>5, <1>6 DEF u, a

LEMMA AddFloatingWired ==
    ASSUME NEW t, NEW X, NEW E, Wired(t, X, E), NEW v \in Views, t.ws[v] = NIL => t.parent[v] = NIL,
           v \in t.live, NEW w \in Workspaces, t.alive[w] = "live"
    PROVE  LET u == AddFloating(t, w, v)
           IN  /\ Wired(u, X \ {v}, E \union {t.parent[v]})
               /\ u.parent[v] = NIL /\ u.ws[v] = w /\ v \notin u.minimized
               /\ Beside(t, u, v) /\ u.live = t.live /\ u.scratch = t.scratch /\ u.alive = t.alive
               /\ u.lost = t.lost
<1> DEFINE b == DetachIf(Unpark(t, v), v)
           a == [b EXCEPT !.floating[w] = @ \union {v}]
           f == [b.floating EXCEPT ![w] = @ \union {v}]
           u == Place(a, v, w)
<1>0. t \in States /\ v \in Containers
  BY Names DEF Wired
<1>1. /\ Wired(b, X \union {v}, E \union {t.parent[v]})
      /\ b.parent[v] = NIL /\ b.ws[v] = NIL /\ v \notin b.minimized
      /\ Beside(t, b, v) /\ b.live = t.live /\ b.scratch = t.scratch /\ b.alive = t.alive
      /\ b.lost = t.lost
  BY TakenOut
<1>2. AddFloating(t, w, v) = u
  BY DEF AddFloating
<1> HIDE DEF b
<1>3. b \in States /\ IsInjective(b.tiling[w])
  BY <1>1 DEF Wired, Listed
<1>4. f \in [Workspaces -> SUBSET Views] /\ f[w] = b.floating[w] \union {v} /\ \A x \in Workspaces : x # w => f[x] = b.floating[x]
  BY <1>3, Fields
<1>5. a = [b EXCEPT !.floating = f]
  BY <1>3 DEF States
<1> HIDE DEF f
<1>6. /\ a \in States /\ a.kids = b.kids /\ a.parent = b.parent /\ a.ws = b.ws /\ Rest(b, a)
      /\ a.tiling = b.tiling /\ a.floating = f
  BY <1>3, <1>4, <1>5 DEF States, Rest
<1> HIDE DEF a
<1>7. /\ Wired(u, (X \union {v}) \ {v}, E \union {t.parent[v]}) /\ Rest(b, u)
      /\ LeadsToWorkspace(b, v, w, u)
  <2> DEFINE Y == X \union {v}
             D == E \union {t.parent[v]}
  <2>1. v \in b.live /\ v \notin b.minimized /\ b.parent[v] = NIL /\ v \in Y /\ b.alive[w] = "live" /\ Wired(b, Y, D)
    BY <1>1
  <2>2. /\ \A x \in Workspaces : x # w => a.tiling[x] = b.tiling[x] /\ a.floating[x] = b.floating[x]
        /\ IsInjective(a.tiling[w])
        /\ a.tiling[w] = b.tiling[w] /\ a.floating[w] = b.floating[w] \union {v}
    BY <1>3, <1>4, <1>6
  <2>4. a \in States /\ ToWorkspace(b, v, w, a)
    BY <1>6, <2>2 DEF ToWorkspace
  <2>5. u = Place(a, v, w)
    OBVIOUS
  <2>6. v \in Y \/ b.ws[v] = w
    BY <2>1
  <2> HIDE DEF Y, D, u
  <2>3. Wired(u, Y \ {v}, D) /\ Rest(b, u) /\ LeadsToWorkspace(b, v, w, u)
    BY <1>0, <2>1, <2>4, <2>5, <2>6, OntoWorkspace
  <2> QED
    BY <2>3 DEF Y, D
<1> HIDE DEF u
<1>8. (X \union {v}) \ {v} = X \ {v}
  OBVIOUS
<1>9. Beside(t, u, v)
  <2>1. \A d \in Containers : b.parent[d] # v
    BY <1>3, NoChildren
  <2> QED
    BY <1>1, <1>7, <2>1 DEF Beside, Rest, LeadsToWorkspace
<1>10. /\ u.parent[v] = NIL /\ u.ws[v] = w /\ v \notin u.minimized
       /\ u.live = t.live /\ u.scratch = t.scratch /\ u.alive = t.alive /\ u.lost = t.lost
  BY <1>0, <1>1, <1>7 DEF Rest, LeadsToWorkspace
<1> QED
  BY <1>2, <1>7, <1>8, <1>9, <1>10

-----------------------------------------------------------------------------
(* Containers and workspaces go.                                           *)

Still(t, u) ==
    u.parent = t.parent /\ u.ws = t.ws /\ u.kids = t.kids /\ u.tiling = t.tiling /\ u.floating = t.floating

LEMMA DestroyFlags ==
    ASSUME NEW t \in States, NEW c \in Containers
    PROVE  \E d \in States :
              /\ ContainerBeginDestroy(t, c) = DetachLinked(d, c)
              /\ Still(t, d)
              /\ d.live = t.live \ {c} /\ d.scratch = t.scratch \ {c} /\ d.minimized = t.minimized \ {c}
              /\ \A x \in Containers : x # c => (x \in d.wasfloat <=> x \in t.wasfloat)
              /\ d.alive = t.alive /\ d.lost = t.lost /\ d.crash = t.crash
<1> DEFINE m == IF c \in Views THEN t.mode[c] ELSE "none"
           a == IF m = "workspace" /\ t.ws[c] # NIL THEN [t EXCEPT !.fs[t.ws[c]] = NIL] ELSE t
           h == [a EXCEPT !.live = @ \ {c}, !.scratch = @ \ {c}]
           b == Unpark(h, c)
           k == [b EXCEPT !.op.stale = @ \/ b.op.far = c]
           e == EndMouseOperation(k, c)
           d == IF m = "global" THEN FullscreenDisable(e, c) ELSE e
<1>1. a \in States /\ Alike(t, a)
  BY DEF States, Alike
<1>2. h \in States /\ Still(a, h) /\ h.live = a.live \ {c} /\ h.scratch = a.scratch \ {c}
      /\ h.minimized = a.minimized /\ h.wasfloat = a.wasfloat
      /\ h.alive = a.alive /\ h.lost = a.lost /\ h.crash = a.crash
  <2> HIDE DEF a
  <2> QED
    BY <1>1 DEF States, Still
<1> HIDE DEF h
<1>3. /\ b \in States /\ b.parent = h.parent /\ b.ws = h.ws /\ b.kids = h.kids
      /\ b.tiling = h.tiling /\ b.floating = h.floating
      /\ b.live = h.live /\ b.scratch = h.scratch
      /\ b.minimized = h.minimized \ {c}
      /\ \A x \in Containers : x # c => (x \in b.wasfloat <=> x \in h.wasfloat)
      /\ b.alive = h.alive /\ b.lost = h.lost /\ b.crash = h.crash
  BY <1>2, UnparkFields
<1> HIDE DEF b
<1>4. k \in States /\ Alike(b, k)
  <2> DEFINE x == [b.op EXCEPT !.stale = @ \/ b.op.far = c]
  <2>1. b.op \in Operations
    BY <1>3 DEF States
  <2>2. x \in Operations
    BY <2>1 DEF Operations
  <2>3. k = [b EXCEPT !.op = x]
    BY <1>3 DEF States
  <2> HIDE DEF x, k
  <2> QED
    BY <1>3, <2>2, <2>3 DEF States, Alike
<1> HIDE DEF k
<1>5. e \in States /\ Alike(k, e)
  BY <1>4, EndMouseOperationType, EndMouseOperationAlike
<1> HIDE DEF e
<1>6. d \in States /\ Alike(e, d)
  <2>1. CASE m = "global"
    <3>1. c \in Views
      BY <2>1
    <3> QED
      BY <2>1, <3>1, <1>5, FullscreenDisableType, FullscreenDisableAlike
  <2>2. CASE m # "global"
    BY <2>2, <1>5 DEF Alike
  <2> QED
    BY <2>1, <2>2
<1>7. ContainerBeginDestroy(t, c) = DetachLinked(d, c)
  BY DEF ContainerBeginDestroy, d, e, k, b, h
<1> HIDE DEF d, a
<1>8. Still(t, d)
  BY <1>1, <1>2, <1>3, <1>4, <1>5, <1>6 DEF Still, Alike
<1>9. /\ d.live = t.live \ {c} /\ d.scratch = t.scratch \ {c} /\ d.minimized = t.minimized \ {c}
      /\ \A x \in Containers : x # c => (x \in d.wasfloat <=> x \in t.wasfloat)
      /\ d.alive = t.alive /\ d.lost = t.lost /\ d.crash = t.crash
  BY <1>1, <1>2, <1>3, <1>4, <1>5, <1>6 DEF Alike
<1> QED
  BY <1>6, <1>7, <1>8, <1>9

LEMMA DestroyWired ==
    ASSUME NEW t, NEW X, NEW E, Wired(t, X, E), NEW c \in Containers, \A v \in Views : t.parent[v] # c
    PROVE  LET u == ContainerBeginDestroy(t, c)
           IN  /\ Wired(u, X \ {c}, E \union {t.parent[c]})
               /\ u.parent[c] = NIL /\ u.ws[c] = NIL
               /\ Beside(t, u, c) /\ u.live = t.live \ {c} /\ u.alive = t.alive /\ u.lost = t.lost
<1> DEFINE u == ContainerBeginDestroy(t, c)
           Y == X \union {c}
           D == E \union {t.parent[c]}
<1>0. /\ t \in States /\ Listed(t, X) /\ \A p \in Columns : t.parent[p] = NIL
  BY DEF Wired, Pointers
<1>1. PICK d \in States : /\ u = DetachLinked(d, c)
                          /\ Still(t, d)
                          /\ d.live = t.live \ {c} /\ d.scratch = t.scratch \ {c} /\ d.minimized = t.minimized \ {c}
                          /\ \A x \in Containers : x # c => (x \in d.wasfloat <=> x \in t.wasfloat)
                          /\ d.alive = t.alive /\ d.lost = t.lost /\ d.crash = t.crash
  BY <1>0, DestroyFlags
<1> HIDE DEF u
<1>2. Listed(d, X) /\ \A p \in Columns : d.parent[p] = NIL
  <2>1. /\ d.kids = t.kids /\ d.tiling = t.tiling /\ d.floating = t.floating
        /\ d.parent = t.parent /\ d.ws = t.ws /\ d.scratch \subseteq t.scratch
    BY <1>1 DEF Still
  <2> QED
    BY <1>0, <2>1, ListedSame
<1>3. u \in States /\ Out(t, c, u) /\ Rest(d, u)
  <2>1. CASE d.parent[c] # NIL \/ d.ws[c] # NIL
    <3>1. u = Detach(d, c)
      BY <1>1, <2>1 DEF DetachLinked
    <3>2. u \in States /\ Rest(d, u) /\ Out(d, c, u)
      BY <1>2, <3>1, DetachOut
    <3> QED
      BY <1>1, <3>2 DEF Out, Unlists, Still
  <2>2. CASE ~(d.parent[c] # NIL \/ d.ws[c] # NIL)
    <3>1. u = d
      BY <1>1, <2>2 DEF DetachLinked
    <3>2. Out(t, c, t)
      BY <1>1, <2>2, Nowhere DEF Still
    <3> QED
      BY <1>1, <3>1, <3>2 DEF Out, Unlists, Still, Rest
  <2> QED
    BY <2>1, <2>2
<1>4. /\ u.live = t.live \ {c} /\ u.scratch = t.scratch \ {c} /\ u.minimized = t.minimized \ {c}
      /\ \A x \in Containers : x # c => (x \in u.wasfloat <=> x \in t.wasfloat)
      /\ u.alive = t.alive /\ u.lost = t.lost /\ u.crash = t.crash
  BY <1>1, <1>3 DEF Rest
<1>5. Flags(t, u, c)
  BY <1>4 DEF Flags, Wired
<1>6. Wired(u, Y, D) /\ u.parent[c] = NIL /\ u.ws[c] = NIL
  BY <1>3, <1>5, OutWired
<1>7. Y \ {c} = X \ {c}
  OBVIOUS
<1>8. c \in Y /\ c \notin u.live
  BY <1>4
<1> HIDE DEF Y, D
<1>9. Wired(u, X \ {c}, D)
  BY <1>6, <1>7, <1>8, Settled
<1>10. Beside(t, u, c)
  <2>1. \A x \in Containers : t.parent[x] # c
    <3>1. \A x \in Columns : t.parent[x] # c
      BY <1>0, Names
    <3> QED
      BY <3>1, Names
  <2> QED
    BY <1>3, <1>4, <2>1 DEF Beside, Out
<1> QED
  BY <1>4, <1>6, <1>9, <1>10 DEF u, D

(* The workspaces that are on an output. *)
LEMMA BeginDestroyStill ==
    ASSUME NEW t \in States, NEW w \in Workspaces
    PROVE  LET u == WorkspaceBeginDestroy(t, w)
           IN  /\ u \in States /\ Still(t, u)
               /\ u.live = t.live /\ u.scratch = t.scratch /\ u.minimized = t.minimized
               /\ u.wasfloat = t.wasfloat /\ u.pool = t.pool /\ u.lost = t.lost
               /\ u.crash = IF t.alive[w] = "live" THEN t.crash ELSE "destroyed twice"
               /\ \A x \in Workspaces : x # w => u.alive[x] = t.alive[x]
<1> DEFINE u == WorkspaceBeginDestroy(t, w)
           x == [t.op EXCEPT !.on = IF @ = w THEN NIL ELSE @]
           r == RemoveFirst(t.recent, w)
           p == [t.prio EXCEPT ![w] = <<>>]
           a == [t.alive EXCEPT ![w] = IF @ # "live" THEN @ ELSE IF t.pool[w] = {} THEN "no" ELSE "dying"]
           n == [t.on EXCEPT ![w] = NIL]
           k == IF t.alive[w] = "live" THEN t.crash ELSE "destroyed twice"
<1>1. u \in States
  BY BeginDestroyFields
<1>2. u = [t EXCEPT !.alive = a, !.crash = k, !.on = n, !.prio = p, !.recent = r, !.op = x]
  BY DEF States, WorkspaceBeginDestroy
<1>3. \A y \in Workspaces : y # w => a[y] = t.alive[y]
  BY DEF States
<1> HIDE DEF u, x, r, p, a, n, k
<1>4. /\ Still(t, u) /\ u.live = t.live /\ u.scratch = t.scratch /\ u.minimized = t.minimized
      /\ u.wasfloat = t.wasfloat /\ u.pool = t.pool /\ u.lost = t.lost /\ u.crash = k /\ u.alive = a
  BY <1>2 DEF States, Still
<1> QED
  BY <1>1, <1>3, <1>4 DEF u, k

(* A workspace that goes is alive and nobody is on it. *)
LEMMA BeginDestroyWired ==
    ASSUME NEW t, NEW X, NEW E, Wired(t, X, E), NEW w \in Workspaces, t.alive[w] = "live",
           t.tiling[w] = <<>>, t.floating[w] = {}
    PROVE  LET u == WorkspaceBeginDestroy(t, w)
           IN  /\ Wired(u, X, E) /\ Still(t, u)
               /\ u.live = t.live /\ u.scratch = t.scratch /\ u.minimized = t.minimized
               /\ u.wasfloat = t.wasfloat /\ u.pool = t.pool /\ u.lost = t.lost /\ u.crash = t.crash
               /\ \A x \in Workspaces : x # w => u.alive[x] = t.alive[x]
<1> DEFINE u == WorkspaceBeginDestroy(t, w)
<1>1. /\ u \in States /\ Still(t, u)
      /\ u.live = t.live /\ u.scratch = t.scratch /\ u.minimized = t.minimized
      /\ u.wasfloat = t.wasfloat /\ u.pool = t.pool /\ u.lost = t.lost /\ u.crash = t.crash
      /\ \A x \in Workspaces : x # w => u.alive[x] = t.alive[x]
  BY BeginDestroyStill DEF Wired
<1> HIDE DEF u
<1>2. /\ u.kids = t.kids /\ u.tiling = t.tiling /\ u.floating = t.floating
      /\ u.parent = t.parent /\ u.ws = t.ws
  BY <1>1 DEF Still
<1>3. Listed(u, X)
  <2>1. Listed(t, X)
    BY DEF Wired
  <2> QED
    BY <2>1, <1>1, <1>2, ListedSame
<1>4. Pointers(u, X)
  <2>1. \A c \in Containers : ~(c \notin X /\ t.parent[c] = NIL /\ t.ws[c] = w)
    <3>1. Range(t.tiling[w]) = {}
      BY DEF Range
    <3> QED
      BY <3>1 DEF Wired, Listed
  <2>2. \A c \in Containers : t.ws[c] \in Workspaces \union {NIL}
    BY Fields DEF Wired
  <2>3. Pointers(t, X)
    BY DEF Wired
  <2>4. \A c \in Containers : c \notin X /\ t.parent[c] = NIL /\ t.ws[c] # NIL => u.alive[t.ws[c]] = "live"
    <3>1. \A c \in Containers : c \notin X /\ t.parent[c] = NIL /\ t.ws[c] # NIL
             => t.ws[c] \in Workspaces /\ t.ws[c] # w /\ t.alive[t.ws[c]] = "live"
      BY <2>1, <2>2, <2>3 DEF Pointers
    <3> QED
      BY <1>1, <3>1
  <2> QED
    BY <1>1, <1>2, <2>3, <2>4 DEF Pointers
<1>5. PutAway(u, X) /\ Filled(u, E)
  <2>1. PutAway(t, X) /\ Filled(t, E)
    BY DEF Wired
  <2>2. PutAway(u, X)
    BY <1>1, <1>2, <2>1 DEF PutAway
  <2>3. Filled(u, E)
    BY <1>1, <1>2, <2>1 DEF Filled
  <2> QED
    BY <2>2, <2>3
<1> QED
  BY <1>1, <1>3, <1>4, <1>5 DEF Wired, u

LEMMA ConsiderWired ==
    ASSUME NEW t, NEW X, NEW E, Wired(t, X, E), NEW w \in Workspaces, t.alive[w] = "live"
    PROVE  LET u == WorkspaceConsiderDestroy(t, w)
           IN  /\ Wired(u, X, E) /\ Still(t, u)
               /\ u.live = t.live /\ u.scratch = t.scratch /\ u.minimized = t.minimized
               /\ u.wasfloat = t.wasfloat /\ u.pool = t.pool /\ u.lost = t.lost /\ u.crash = t.crash
               /\ \A x \in Workspaces : x # w => u.alive[x] = t.alive[x]
               /\ \A x \in Workspaces : t.alive[x] = "live" /\ ~IsEmpty(t, x) => u.alive[x] = "live"
<1>1. CASE Considered(t, w)
  <2>1. t.tiling[w] = <<>> /\ t.floating[w] = {}
    BY <1>1 DEF Considered
  <2>2. WorkspaceConsiderDestroy(t, w) = WorkspaceBeginDestroy(t, w)
    BY <1>1 DEF WorkspaceConsiderDestroy
  <2>3. IsEmpty(t, w)
    BY <1>1 DEF Considered, IsEmpty
  <2> QED
    BY <2>1, <2>2, <2>3, BeginDestroyWired
<1>2. CASE ~Considered(t, w)
  BY <1>2 DEF WorkspaceConsiderDestroy, Still
<1> QED
  BY <1>1, <1>2

(* A container that is on a workspace finds it alive. *)
LEMMA OnTheLiving ==
    ASSUME NEW t, NEW X, NEW E, Wired(t, X, E), NEW c \in Containers, c \notin X, t.ws[c] # NIL,
           t.parent[c] = NIL \/ t.parent[c] \notin X
    PROVE  t.ws[c] \in Workspaces /\ t.alive[t.ws[c]] = "live"
<1>1. t.ws[c] \in Workspaces /\ t.parent[c] \in Columns \union {NIL}
  BY Fields DEF Wired
<1>2. CASE t.parent[c] = NIL
  BY <1>1, <1>2 DEF Wired, Pointers
<1>3. CASE t.parent[c] # NIL
  <2> DEFINE p == t.parent[c]
  <2>1. p \in Columns /\ p \in Containers /\ c \in Views
    BY <1>1, <1>3, Names DEF Wired, Pointers
  <2>2. t.parent[p] = NIL /\ t.ws[p] = t.ws[c] /\ p \notin X
    BY <1>3, <2>1 DEF Wired, Pointers
  <2> HIDE DEF p
  <2> QED
    BY <1>1, <2>1, <2>2 DEF Wired, Pointers
<1> QED
  BY <1>2, <1>3

LEMMA NoKids ==
    ASSUME NEW t, NEW X, Listed(t, X), t \in States, NEW c \in Columns
    PROVE  t.kids[c] = <<>> <=> \A v \in Views : t.parent[v] # c
<1>1. t.kids[c] \in Seq(Views)
  BY Fields
<1>2. Range(t.kids[c]) \subseteq Views /\ \A x : x \in Range(t.kids[c]) <=> \E i \in 1..Len(t.kids[c]) : t.kids[c][i] = x
  BY <1>1, RangeSeq
<1>3. t.kids[c] = <<>> <=> Range(t.kids[c]) = {}
  <2>1. ASSUME t.kids[c] # <<>> PROVE Range(t.kids[c]) # {}
    <3>1. 1 \in 1..Len(t.kids[c])
      BY <1>1, <2>1
    <3> QED
      BY <3>1, <1>2
  <2>2. ASSUME t.kids[c] = <<>> PROVE Range(t.kids[c]) = {}
    BY <2>2 DEF Range
  <2> QED
    BY <2>1, <2>2
<1> QED
  BY <1>2, <1>3 DEF Listed

(* What a column that is left may take with it. *)
Tidied(t, u, p) ==
    /\ Beside(t, u, p) /\ u.lost = t.lost /\ u.live \subseteq t.live
    /\ \A w \in Workspaces : t.alive[w] # "live" => u.alive[w] = t.alive[w]

LEMMA ReapWired ==
    ASSUME NEW t, NEW X, NEW E, Wired(t, X, E), NEW p \in Columns \union {NIL}, p \notin X
    PROVE  LET u == Reap(t, p) IN Wired(u, X, E \ {p}) /\ Tidied(t, u, p)
<1> DEFINE u == Reap(t, p)
           a == ContainerBeginDestroy(t, p)
           w == t.ws[p]
<1>0. t \in States /\ Listed(t, X)
  BY DEF Wired
<1>1. CASE p = NIL
  <2>1. u = t
    BY <1>1 DEF Reap
  <2>2. Wired(t, X, E \ {p})
    BY <1>1, FilledEnough, Names
  <2>3. Tidied(t, t, p)
    BY DEF Tidied, Beside
  <2> QED
    BY <2>1, <2>2, <2>3
<1>2. CASE p # NIL /\ t.kids[p] # <<>>
  <2>1. u = t
    BY <1>2 DEF Reap
  <2>2. \E v \in Views : t.parent[v] = p
    BY <1>0, <1>2, NoKids
  <2>3. Wired(t, X, E \ {p})
    BY <2>2, FilledEnough
  <2>4. Tidied(t, t, p)
    BY DEF Tidied, Beside
  <2> QED
    BY <2>1, <2>3, <2>4
<1>3. CASE p # NIL /\ t.kids[p] = <<>>
  <2>0. p \in Columns /\ p \in Containers
    BY <1>3, Names
  <2>1. u = ConsiderIf(a, w)
    BY <1>3, <2>0 DEF Reap, IsColumn
  <2>2. \A v \in Views : t.parent[v] # p
    BY <1>0, <1>3, <2>0, NoKids
  <2> HIDE DEF a, u, w
  <2>3. /\ Wired(a, X \ {p}, E \union {t.parent[p]})
        /\ Beside(t, a, p) /\ a.live = t.live \ {p} /\ a.alive = t.alive /\ a.lost = t.lost
    BY <2>0, <2>2, DestroyWired DEF a
  <2>4. t.parent[p] = NIL /\ X \ {p} = X
    BY <2>0 DEF Wired, Pointers
  <2>5. Wired(a, X, E \ {p})
    <3>1. Wired(a, X, E \union {t.parent[p]})
      BY <2>3, <2>4
    <3> QED
      BY <2>3, <2>4, <3>1, FilledEnough, Names
  <2>6. w \in Workspaces \union {NIL} /\ (w # NIL => a.alive[w] = "live")
    <3>1. w \in Workspaces \union {NIL}
      BY <1>0, <2>0, Fields DEF w
    <3>2. w # NIL => t.alive[w] = "live"
      BY <2>0, <2>4, OnTheLiving DEF w
    <3> QED
      BY <2>3, <3>1, <3>2
  <2>7. CASE w = NIL
    <3>1. u = a
      BY <2>1, <2>7 DEF ConsiderIf
    <3> QED
      BY <2>3, <2>5, <3>1 DEF Tidied, u
  <2>8. CASE w # NIL
    <3>1. u = WorkspaceConsiderDestroy(a, w) /\ w \in Workspaces /\ a.alive[w] = "live"
      BY <2>1, <2>6, <2>8 DEF ConsiderIf
    <3>2. /\ Wired(u, X, E \ {p}) /\ Still(a, u)
          /\ u.live = a.live /\ u.scratch = a.scratch /\ u.minimized = a.minimized
          /\ u.wasfloat = a.wasfloat /\ u.lost = a.lost
          /\ \A x \in Workspaces : x # w => u.alive[x] = a.alive[x]
      BY <2>5, <3>1, ConsiderWired
    <3>3. Beside(t, u, p)
      BY <2>3, <3>2 DEF Beside, Still
    <3>4. Tidied(t, u, p)
      BY <2>3, <3>1, <3>2, <3>3 DEF Tidied
    <3> QED
      BY <3>2, <3>4 DEF u
  <2> QED
    BY <2>7, <2>8
<1> QED
  BY <1>1, <1>2, <1>3

LEMMA LeftBehindWired ==
    ASSUME NEW t, NEW E, Wired(t, {}, E), NEW p \in Columns \union {NIL}, NEW w \in Workspaces \union {NIL},
           p = NIL /\ w # NIL => t.alive[w] = "live"
    PROVE  Wired(LeftBehind(t, p, w), {}, E \ {p})
<1>1. CASE p # NIL
  BY <1>1, ReapWired DEF LeftBehind
<1>2. CASE p = NIL /\ w # NIL
  <2>1. LeftBehind(t, p, w) = WorkspaceConsiderDestroy(t, w)
    BY <1>2 DEF LeftBehind, ConsiderIf
  <2>2. Wired(WorkspaceConsiderDestroy(t, w), {}, E)
    BY <1>2, ConsiderWired
  <2> QED
    BY <1>2, <2>1, <2>2, FilledEnough, Names
<1>3. CASE p = NIL /\ w = NIL
  <2>1. LeftBehind(t, p, w) = t
    BY <1>3 DEF LeftBehind, ConsiderIf
  <2> QED
    BY <1>3, <2>1, FilledEnough, Names
<1> QED
  BY <1>1, <1>2, <1>3

(* Focus moves, and the workspace that was shown may go. *)
LEMMA RaiseWired ==
    ASSUME NEW t, NEW X, NEW E, Wired(t, X, E), NEW w \in Workspaces
    PROVE  LET u == Raise(t, w) IN u \in States /\ Alike(t, u) /\ Wired(u, X, E)
<1>1. t \in States /\ Raise(t, w) \in States
  BY RaiseFields DEF Wired
<1>2. Alike(t, Raise(t, w))
  BY <1>1 DEF States, Alike, Raise
<1> QED
  BY <1>1, <1>2, AlikeWired

LEMMA FocusOnWired ==
    ASSUME NEW t, Sound(t), NEW X, NEW E, Wired(t, X, E), NEW w \in Workspaces
    PROVE  LET u == FocusOn(t, w)
           IN  /\ Wired(u, X, E) /\ Still(t, u)
               /\ u.live = t.live /\ u.scratch = t.scratch /\ u.minimized = t.minimized
               /\ u.wasfloat = t.wasfloat /\ u.lost = t.lost
               /\ (t.on[w] = NIL \/ Active(t, t.on[w]) = w => u.alive = t.alive)
<1> DEFINE last == IF t.on[w] = NIL THEN NIL ELSE Active(t, t.on[w])
           a == Raise(t, w)
           u == FocusOn(t, w)
<1>1. a \in States /\ Alike(t, a) /\ Wired(a, X, E)
  BY RaiseWired
<1>2. last \in Workspaces \union {NIL} /\ (last # NIL => t.alive[last] = "live")
  BY ActiveOn DEF On, Sound
<1>3. u = IF last = NIL \/ last = w THEN a ELSE WorkspaceConsiderDestroy(a, last)
  BY DEF FocusOn
<1>4. t.on[w] = NIL \/ Active(t, t.on[w]) = w <=> last = NIL \/ last = w
  <2>1. t.on[w] # NIL => Active(t, t.on[w]) # NIL
    <3>1. t.on[w] # NIL => w \in On(t, t.on[w])
      BY DEF Sound, Served, On
    <3> QED
      BY <3>1, ActiveOn, Names DEF Sound, On
  <2> QED
    BY <2>1, Names
<1> HIDE DEF a, last, u
<1>5. CASE last = NIL \/ last = w
  BY <1>1, <1>3, <1>5 DEF Alike, Still, u
<1>6. CASE ~(last = NIL \/ last = w)
  <2>1. last \in Workspaces /\ a.alive[last] = "live"
    BY <1>1, <1>2, <1>6 DEF Alike
  <2>2. /\ Wired(u, X, E) /\ Still(a, u)
        /\ u.live = a.live /\ u.scratch = a.scratch /\ u.minimized = a.minimized
        /\ u.wasfloat = a.wasfloat /\ u.lost = a.lost
    BY <1>1, <1>3, <1>6, <2>1, ConsiderWired
  <2> QED
    BY <1>1, <1>4, <1>6, <2>2 DEF Alike, Still, u
<1> QED
  BY <1>5, <1>6

LEMMA FocusViewWired ==
    ASSUME NEW t, Sound(t), NEW X, NEW E, Wired(t, X, E), NEW v \in Views
    PROVE  LET u == FocusView(t, v)
           IN  /\ Wired(u, X, E) /\ Still(t, u)
               /\ u.live = t.live /\ u.scratch = t.scratch /\ u.minimized = t.minimized
               /\ u.wasfloat = t.wasfloat /\ u.lost = t.lost
               /\ (t.ws[v] # NIL => t.on[t.ws[v]] = NIL \/ Active(t, t.on[t.ws[v]]) = t.ws[v]) => u.alive = t.alive
<1>1. CASE Obstructed(t, v) \/ t.ws[v] = NIL
  BY <1>1 DEF FocusView, Still
<1>2. CASE ~(Obstructed(t, v) \/ t.ws[v] = NIL)
  <2>1. t.ws[v] \in Workspaces
    <3>1. v \in Containers /\ t \in States
      BY Names DEF Sound
    <3> QED
      BY <1>2, <3>1, Fields
  <2>2. FocusView(t, v) = FocusOn(t, t.ws[v])
    BY <1>2 DEF FocusView
  <2> QED
    BY <1>2, <2>1, <2>2, FocusOnWired
<1> QED
  BY <1>1, <1>2

LEMMA RefocusWired ==
    ASSUME NEW t, Sound(t), NEW X, NEW E, Wired(t, X, E), NEW w \in Workspaces, NEW u \in Refocus(t, w)
    PROVE  Wired(u, X, E)
BY FocusOnWired DEF Refocus

-----------------------------------------------------------------------------
(* Columns are made and merged.                                            *)

(* A step that leaves the lists and the pointers alone, and every workspace *)
(* that lives.                                                             *)
LEMMA StillWired ==
    ASSUME NEW t, NEW X, NEW E, Wired(t, X, E), NEW u \in States, Still(t, u),
           u.live = t.live, u.scratch = t.scratch, u.minimized = t.minimized, u.wasfloat = t.wasfloat,
           t.lost \subseteq u.lost, u.crash # "destroyed twice",
           \A w \in Workspaces : t.alive[w] = "live" => u.alive[w] = "live"
    PROVE  Wired(u, X, E)
<1>1. /\ u.kids = t.kids /\ u.tiling = t.tiling /\ u.floating = t.floating
      /\ u.parent = t.parent /\ u.ws = t.ws
  BY DEF Still
<1>2. Listed(u, X)
  <2>1. Listed(t, X)
    BY DEF Wired
  <2> QED
    BY <2>1, <1>1, ListedSame
<1>3. Pointers(u, X)
  <2>1. \A c \in Containers : t.ws[c] \in Workspaces \union {NIL}
    BY Fields DEF Wired
  <2> QED
    BY <1>1, <2>1 DEF Wired, Pointers
<1>4. PutAway(u, X) /\ Filled(u, E)
  <2>1. PutAway(t, X) /\ Filled(t, E)
    BY DEF Wired
  <2>2. PutAway(u, X)
    BY <1>1, <2>1 DEF PutAway
  <2>3. Filled(u, E)
    BY <1>1, <2>1 DEF Filled
  <2> QED
    BY <2>2, <2>3
<1> QED
  BY <1>2, <1>3, <1>4 DEF Wired

LEMMA FreshFree ==
    ASSUME NEW t, Roomy(t)
    PROVE  Fresh(t) \in Columns \ t.live
<1>1. Columns \ t.live \in SUBSET Nat /\ Columns \ t.live # {}
  BY TreeAssumption DEF TreeAssumption, Roomy
<1> QED
  BY <1>1, LowestIn DEF Fresh

(* A new column of one window, not in the list of its workspace yet. *)
NewColumnOf(t, w, v, c, u) ==
    /\ c \in Columns /\ c \notin t.live /\ u.live = t.live \union {c}
    /\ u.parent[c] = NIL /\ u.ws[c] = w
    /\ u.scratch = t.scratch /\ u.minimized = t.minimized /\ u.wasfloat = t.wasfloat
    /\ u.alive = t.alive /\ u.lost = t.lost
    /\ \A d \in Containers : d # c /\ d # v => u.parent[d] = t.parent[d] /\ u.ws[d] = t.ws[d]

LEMMA NewColumnWired ==
    ASSUME NEW t, NEW X, NEW E, Wired(t, X, E), Roomy(t), NEW w \in Workspaces, NEW v \in Views,
           v \in t.live, v \notin t.scratch, v \notin t.minimized, t.ws[v] = NIL => t.parent[v] = NIL
    PROVE  LET u == NewColumn(t, w, v)
           IN  /\ Wired(u, (X \ {v}) \union {Fresh(t)}, E \union {t.parent[v]})
               /\ NewColumnOf(t, w, v, Fresh(t), u)
<1> DEFINE c == Fresh(t)
           a == [t EXCEPT !.live = @ \union {c}, !.ws[c] = w, !.parent[c] = NIL, !.kids[c] = <<>>]
           u == AddChild(a, c, v)
<1>0. t \in States /\ c \in Columns /\ c \notin t.live /\ c \in Containers /\ v \in Containers /\ v # c
  BY FreshFree, Names DEF Wired
<1>1. NewColumn(t, w, v) = u
  BY DEF NewColumn
<1> HIDE DEF c
<1>2. /\ t.parent[c] = NIL /\ t.ws[c] = NIL /\ t.kids[c] = <<>>
      /\ \A d \in Views : t.parent[d] # c
  <2>1. t.parent[c] = NIL /\ t.ws[c] = NIL /\ \A d \in Views : t.parent[d] # c
    BY <1>0, Names DEF Wired, Pointers
  <2>2. t.kids[c] = <<>>
    BY <1>0, <2>1, NoKids DEF Wired
  <2> QED
    BY <2>1, <2>2
<1>3. /\ a \in States /\ Rest([t EXCEPT !.live = @ \union {c}], a)
      /\ a.live = t.live \union {c} /\ a.parent = t.parent /\ a.kids = t.kids
      /\ a.ws = [t.ws EXCEPT ![c] = w] /\ a.tiling = t.tiling /\ a.floating = t.floating
      /\ a.scratch = t.scratch /\ a.minimized = t.minimized /\ a.wasfloat = t.wasfloat
      /\ a.alive = t.alive /\ a.lost = t.lost /\ a.crash = t.crash
  <2> DEFINE l == t.live \union {c}
             x == [t.ws EXCEPT ![c] = w]
             p == [t.parent EXCEPT ![c] = NIL]
             k == [t.kids EXCEPT ![c] = <<>>]
  <2>1. l \in SUBSET Containers
    BY <1>0, Fields
  <2>2. x \in [Containers -> Workspaces \union {NIL}]
    BY <1>0, Fields
  <2>3. p = t.parent
    BY <1>0, <1>2, Fields
  <2>4. k = t.kids
    <3>1. t.kids \in [Columns -> Seq(Views)]
      BY <1>0, Fields
    <3> QED
      BY <1>0, <1>2, <3>1
  <2>5. a = [t EXCEPT !.live = l, !.ws = x, !.parent = p, !.kids = k]
    BY <1>0 DEF States
  <2>6. a = [t EXCEPT !.live = l, !.ws = x]
    <3> HIDE DEF l, x, p, k, a
    <3> QED
      BY <1>0, <2>3, <2>4, <2>5 DEF States
  <2> HIDE DEF l, x, p, k, a
  <2>7. /\ a \in States /\ a.live = l /\ a.ws = x /\ a.parent = t.parent /\ a.kids = t.kids
        /\ a.tiling = t.tiling /\ a.floating = t.floating
        /\ a.scratch = t.scratch /\ a.minimized = t.minimized /\ a.wasfloat = t.wasfloat
        /\ a.alive = t.alive /\ a.lost = t.lost /\ a.crash = t.crash
    BY <1>0, <2>1, <2>2, <2>6 DEF States
  <2>8. Rest([t EXCEPT !.live = @ \union {c}], a)
    BY <1>0, <2>7 DEF States, Rest, l
  <2> QED
    BY <2>7, <2>8 DEF l, x
<1> HIDE DEF a
<1> DEFINE Y == X \union {c}
           D == E \union {c}
<1>4. Wired(t, Y, E)
  BY <1>0, <1>2, Unsettled
<1>5. \A d \in Containers : a.ws[d] = IF d = c THEN w ELSE t.ws[d]
  BY <1>0, <1>3, Fields
<1>6. c \in Y
  OBVIOUS
<1>7. Wired(a, Y, D)
  <2> HIDE DEF Y
  <2>0. Listed(t, Y) /\ Pointers(t, Y) /\ PutAway(t, Y) /\ Filled(t, E) /\ t.crash # "destroyed twice"
    BY <1>4 DEF Wired
  <2>1. Listed(a, Y)
    <3>1. /\ a.kids = t.kids /\ a.tiling = t.tiling /\ a.floating = t.floating
          /\ a.parent = t.parent /\ a.scratch = t.scratch
      BY <1>3
    <3> QED
      BY <2>0, <3>1, <1>5, <1>6, ListedSame
  <2>2. Pointers(a, Y)
    <3>1. ASSUME NEW d \in Views, a.parent[d] # NIL
          PROVE  a.ws[d] = a.ws[a.parent[d]] /\ a.parent[d] \in a.live
      <4>1. t.parent[d] = a.parent[d] /\ t.parent[d] # c /\ d # c /\ d \in Containers
        BY <1>0, <1>2, <1>3, Names
      <4>2. t.ws[d] = t.ws[t.parent[d]] /\ t.parent[d] \in t.live
        BY <2>0, <3>1, <4>1 DEF Pointers
      <4>3. t.parent[d] \in Containers
        BY <4>2, <1>0, Fields
      <4> QED
        BY <4>1, <4>2, <4>3, <1>3, <1>5
    <3>2. /\ \A d \in Columns : t.parent[d] = NIL
          /\ \A d \in Containers : d \in Y => t.parent[d] = NIL
          /\ \A d \in Containers : d \notin t.live => t.parent[d] = NIL /\ t.ws[d] = NIL
          /\ \A d \in Containers : d \notin Y /\ t.parent[d] = NIL /\ t.ws[d] # NIL => t.alive[t.ws[d]] = "live"
      BY <2>0 DEF Pointers
    <3>3. /\ \A d \in Containers : d \notin a.live => a.parent[d] = NIL /\ a.ws[d] = NIL
          /\ \A d \in Containers : d \notin Y /\ a.parent[d] = NIL /\ a.ws[d] # NIL => a.alive[a.ws[d]] = "live"
      BY <1>3, <1>5, <1>6, <3>2
    <3> QED
      BY <1>3, <3>1, <3>2, <3>3 DEF Pointers
  <2>3. PutAway(a, Y)
    <3>1. \A d \in Columns : d \in a.live /\ d \notin Y => a.ws[d] # NIL
      <4>1. \A d \in Columns : d \in Containers
        BY Names
      <4> QED
        BY <1>3, <1>5, <1>6, <2>0, <4>1 DEF PutAway
    <3>2. \A d \in Views : d \in Containers /\ d # c /\ a.ws[d] = t.ws[d]
      BY <1>0, <1>5, Names
    <3>3. \A d \in Views : d \in a.live /\ d \notin Y /\ a.parent[d] = NIL /\ a.ws[d] = NIL
                           => d \in a.scratch \/ d \in a.minimized
      BY <1>3, <2>0, <3>2 DEF PutAway
    <3>4. /\ \A d \in Views : d \in a.scratch => d \in a.live /\ a.parent[d] = NIL /\ (d \in a.minimized => d \in a.wasfloat)
          /\ \A d \in Views : d \in a.minimized => a.parent[d] = NIL /\ a.ws[d] = NIL
      BY <1>3, <2>0, <3>2 DEF PutAway
    <3> QED
      BY <3>1, <3>3, <3>4 DEF PutAway
  <2>4. Filled(a, D)
    <3>1. a.parent = t.parent /\ a.lost = t.lost
          /\ \A d \in Columns : d \in a.live /\ d \notin D => d \in t.live /\ d \notin E
      BY <1>3
    <3>2. Filled(t, E)
      BY <2>0
    <3> QED
      BY <3>1, <3>2 DEF Filled
  <2> QED
    BY <1>3, <2>0, <2>1, <2>2, <2>3, <2>4 DEF Wired
<1>8. /\ v \in a.live /\ v \notin a.scratch /\ v \notin a.minimized /\ c \in a.live
      /\ (a.ws[v] = NIL => a.parent[v] = NIL) /\ a.parent[v] = t.parent[v]
  BY <1>0, <1>3, <1>5
<1> HIDE DEF Y, D
<1>9. Wired(u, Y \ {v}, (D \union {a.parent[v]}) \ {c}) /\ Rest(a, u) /\ LeadsToColumn(a, v, c, u)
  BY <1>0, <1>7, <1>8, AddChildWired
<1> HIDE DEF u
<1>10. Y \ {v} = (X \ {v}) \union {c}
  BY <1>0 DEF Y
<1>11. Wired(u, (X \ {v}) \union {c}, E \union {t.parent[v]})
  <2>1. Wired(u, (X \ {v}) \union {c}, (D \union {a.parent[v]}) \ {c})
    BY <1>9, <1>10
  <2>2. \A d : d \in (D \union {a.parent[v]}) \ {c} => d \in E \union {t.parent[v]}
    BY <1>8 DEF D
  <2> QED
    BY <2>1, <2>2, FilledEnough
<1>12. NewColumnOf(t, w, v, c, u)
  BY <1>0, <1>2, <1>3, <1>5, <1>9 DEF NewColumnOf, Rest, LeadsToColumn
<1> QED
  BY <1>1, <1>11, <1>12 DEF c

(* A window in a column, or a container on a workspace, is there. *)
LEMMA InAColumn ==
    ASSUME NEW t, NEW X, NEW E, Wired(t, X, E), NEW v \in Views, t.parent[v] # NIL
    PROVE  /\ t.parent[v] \in Columns /\ t.parent[v] \in t.live /\ t.ws[t.parent[v]] = t.ws[v]
           /\ v \in t.live /\ v \notin t.scratch /\ v \notin t.minimized /\ v \notin X
<1>1. v \in Containers /\ t.parent[v] \in Columns \union {NIL}
  <2>1. t \in States /\ v \in Containers
    BY Names DEF Wired
  <2> QED
    BY <2>1, Fields
<1> QED
  BY <1>1 DEF Wired, Pointers, PutAway

LEMMA InATiling ==
    ASSUME NEW t, NEW X, NEW E, Wired(t, X, E), NEW w \in Workspaces, NEW c \in Range(t.tiling[w])
    PROVE  /\ c \in Containers /\ c \in t.live /\ c \notin t.scratch /\ c \notin t.minimized /\ c \notin X
           /\ t.parent[c] = NIL /\ t.ws[c] = w
<1>1. t \in States /\ w # NIL
  BY Names DEF Wired
<1>2. c \in Containers
  <2>1. t.tiling[w] \in Seq(Containers)
    BY <1>1, Fields
  <2> QED
    BY <2>1, RangeSeq
<1>3. c \notin X /\ t.parent[c] = NIL /\ t.ws[c] = w /\ c \notin t.scratch
  BY <1>2 DEF Wired, Listed
<1>4. c \in t.live
  BY <1>1, <1>2, <1>3 DEF Wired, Pointers
<1>5. c \notin t.minimized
  <2>1. c \in t.minimized => c \in Views
    BY <1>1, Fields
  <2> QED
    BY <1>1, <1>3, <2>1 DEF Wired, PutAway
<1> QED
  BY <1>2, <1>3, <1>4, <1>5

(* A column's windows are moved to another column. *)
Moved(t, u, src) ==
    /\ Rest(t, u) /\ u.ws[src] = t.ws[src] /\ \A v \in Views : u.parent[v] # src

LEMMA ChildrenToWired ==
    ASSUME NEW t, NEW E, Wired(t, {}, E), NEW src \in Columns, NEW dst \in Columns, src # dst,
           dst \in t.live, t.ws[src] # NIL
    PROVE  LET u == ChildrenTo(t, src, dst) IN Wired(u, {}, E \union {src}) /\ Moved(t, u, src)
<1> DEFINE kids == t.kids[src]
           n == Len(kids)
           f == [i \in DOMAIN kids |-> [u \in States |-> AddChild(u, dst, kids[i])]]
           D == E \union {src}
           In(y, i) == \A v \in Views : y.parent[v] = src <=> \E j \in (i + 1)..n : kids[j] = v
           S == [i \in 0..n |-> {y \in States : Wired(y, {}, D) /\ Rest(t, y) /\ y.ws[src] = t.ws[src] /\ In(y, i)}]
<1>0. /\ t \in States /\ kids \in Seq(Views) /\ n \in Nat /\ DOMAIN kids = 1..n
      /\ src \in Containers /\ dst \in Containers /\ src # NIL
  <2>1. t \in States
    BY DEF Wired
  <2> QED
    BY <2>1, Fields, Names
<1>1. t \in S[0]
  <2>1. \A v \in Views : t.parent[v] = src <=> \E j \in 1..n : kids[j] = v
    <3>1. \A v : v \in Range(kids) <=> \E j \in 1..n : kids[j] = v
      BY <1>0, RangeSeq
    <3>2. \A v \in Views : v \in Range(t.kids[src]) <=> t.parent[v] = src
      BY DEF Wired, Listed
    <3> QED
      BY <3>1, <3>2
  <2>2. Wired(t, {}, D)
    BY FilledEnough
  <2>3. Rest(t, t)
    BY DEF Rest
  <2>4. (0 + 1)..n = 1..n
    OBVIOUS
  <2> HIDE DEF D, kids, n
  <2> QED
    BY <1>0, <2>1, <2>2, <2>3, <2>4
<1>2. ASSUME NEW i \in 1..n, NEW y \in S[i - 1] PROVE f[i][y] \in S[i]
  <2> DEFINE c == kids[i]
             u == AddChild(y, dst, c)
  <2>1. /\ y \in States /\ Wired(y, {}, D) /\ Rest(t, y) /\ y.ws[src] = t.ws[src] /\ In(y, i - 1)
        /\ i - 1 \in 0..n /\ i \in 0..n /\ (i - 1) + 1 = i
    BY <1>0, <1>2
  <2>2. c \in Views /\ c \in Containers
    BY <1>0, Names
  <2>3. y.parent[c] = src
    BY <2>1, <2>2, <1>0
  <2>4. c \in y.live /\ c \notin y.scratch /\ c \notin y.minimized /\ y.ws[c] # NIL /\ dst \in y.live
    BY <2>1, <2>2, <2>3, <1>0, InAColumn DEF Rest
  <2>5. f[i][y] = u
    BY <1>0, <2>1
  <2> HIDE DEF u, c, S, f, D
  <2>6. Wired(u, {} \ {c}, (D \union {y.parent[c]}) \ {dst}) /\ Rest(y, u) /\ LeadsToColumn(y, c, dst, u)
    BY <2>1, <2>2, <2>4, AddChildWired DEF u
  <2>7. Wired(u, {}, D)
    <3>1. {} \ {c} = {}
      OBVIOUS
    <3>2. Wired(u, {}, (D \union {y.parent[c]}) \ {dst})
      BY <2>6, <3>1
    <3>3. \A d : d \in (D \union {y.parent[c]}) \ {dst} => d \in D
      BY <2>3 DEF D
    <3> QED
      BY <3>2, <3>3, FilledEnough
  <2>8. Rest(t, u)
    BY <2>1, <2>6 DEF Rest
  <2>9. u.ws[src] = t.ws[src]
    <3>1. src # c
      BY <2>2, <1>0, Names
    <3> QED
      BY <1>0, <2>1, <2>6, <3>1 DEF LeadsToColumn
  <2>10. In(u, i)
    <3>1. ASSUME NEW v \in Views
          PROVE  u.parent[v] = src <=> \E j \in (i + 1)..n : kids[j] = v
      <4>1. v \in Containers
        BY Names
      <4>2. u.parent[v] = IF v = c THEN dst ELSE y.parent[v]
        BY <2>6, <4>1 DEF LeadsToColumn
      <4>3. y.parent[v] = src <=> \E j \in i..n : kids[j] = v
        BY <2>1
      <4>4. \A j \in 1..n, k \in 1..n : kids[j] = kids[k] => j = k
        <5>1. IsInjective(kids)
          BY DEF Wired, Listed
        <5> QED
          BY <5>1, <1>0 DEF IsInjective
      <4>5. CASE v = c
        <5>1. \A j \in (i + 1)..n : kids[j] # v
          BY <4>4, <4>5, <1>0 DEF c
        <5> QED
          BY <4>2, <4>5, <5>1
      <4>6. CASE v # c
        <5>1. \A j \in i..n : kids[j] = v => j \in (i + 1)..n
          BY <4>6, <1>0 DEF c
        <5> QED
          BY <4>2, <4>3, <4>6, <5>1, <1>0
      <4> QED
        BY <4>5, <4>6
    <3> QED
      BY <3>1
  <2>11. u \in States
    BY <2>7 DEF Wired
  <2>12. f[i][y] \in {z \in States : Wired(z, {}, D) /\ Rest(t, z) /\ z.ws[src] = t.ws[src] /\ In(z, i)}
    BY <2>5, <2>7, <2>8, <2>9, <2>10, <2>11
  <2> QED
    BY <2>12, <2>1 DEF S
<1>3. Rounds(f, t, n) \in S[n]
  <2> HIDE DEF f, S, n
  <2> QED
    BY <1>0, <1>1, <1>2, RoundsReach
<1>4. ChildrenTo(t, src, dst) = Rounds(f, t, n)
  BY DEF ChildrenTo
<1> DEFINE r == Rounds(f, t, n)
<1>5. Wired(r, {}, D) /\ Rest(t, r) /\ r.ws[src] = t.ws[src] /\ In(r, n)
  <2>1. n \in 0..n
    BY <1>0
  <2> QED
    BY <2>1, <1>3
<1>6. (n + 1)..n = {}
  BY <1>0
<1> HIDE DEF r, f, S
<1> QED
  BY <1>4, <1>5, <1>6 DEF r, Moved

LEMMA MergeLastWired ==
    ASSUME NEW t, NEW E, Wired(t, {}, E), NEW w \in Workspaces
    PROVE  Wired(MergeLast(t, w), {}, E)
<1> DEFINE q == t.tiling[w]
           n == Len(q)
           src == q[n]
           k == IF n >= 3 THEN n - 2 ELSE n - 1
           dst == q[k]
           moved == IF IsColumn(src) THEN ChildrenTo(t, src, dst) ELSE AddChild(t, dst, src)
           x == ContainerBeginDestroy(moved, src)
           u == [x EXCEPT !.lost = @ \union ({src} \intersect Views)]
<1>0. t \in States /\ q \in Seq(Containers) /\ n \in Nat
  <2>1. t \in States
    BY DEF Wired
  <2>2. t.tiling \in [Workspaces -> Seq(Containers)]
    BY <2>1, Fields
  <2> QED
    BY <2>1, <2>2
<1>1. MergeLast(t, w) = IF t.crash # "no" \/ n <= 1 \/ Needed(t, w) <= Capacity THEN t
                        ELSE IF ~IsColumn(dst) THEN [t EXCEPT !.crash = "no list of children"]
                        ELSE u
  BY DEF MergeLast
<1>2. Wired([t EXCEPT !.crash = "no list of children"], {}, E)
  <2> DEFINE y == [t EXCEPT !.crash = "no list of children"]
  <2>1. /\ y \in States /\ Still(t, y) /\ y.live = t.live /\ y.scratch = t.scratch /\ y.minimized = t.minimized
        /\ y.wasfloat = t.wasfloat /\ y.lost = t.lost /\ y.crash = "no list of children" /\ y.alive = t.alive
    BY <1>0 DEF States, Still
  <2> HIDE DEF y
  <2>2. Wired(y, {}, E)
    BY <2>1, StillWired
  <2> QED
    BY <2>2 DEF y
<1>3. ASSUME n > 1, IsColumn(dst) PROVE Wired(u, {}, E)
  <2>0. k \in 1..n /\ n \in 1..n /\ k # n
    <3> HIDE DEF q
    <3> QED
      BY <1>0, <1>3
  <2>1. src \in Range(q) /\ dst \in Range(q) /\ src # dst
    <3>0. IsInjective(q)
      BY DEF Wired, Listed
    <3> HIDE DEF q
    <3>1. src \in Range(q) /\ dst \in Range(q)
      <4>1. \A z : z \in Range(q) <=> \E i \in 1..Len(q) : q[i] = z
        BY <1>0, RangeSeq
      <4> HIDE DEF k
      <4> QED
        BY <2>0, <4>1
    <3>2. \A a, b \in 1..n : q[a] = q[b] => a = b
      BY <1>0, <3>0 DEF IsInjective
    <3> HIDE DEF k
    <3> QED
      BY <2>0, <3>1, <3>2
  <2> HIDE DEF k, n, src, dst, u, x, moved
  <2>2. /\ src \in Containers /\ src \in t.live /\ src \notin t.scratch /\ src \notin t.minimized
        /\ t.parent[src] = NIL /\ t.ws[src] = w /\ dst \in t.live
    BY <2>1, InATiling
  <2> HIDE DEF q
  <2>3. dst \in Columns /\ w # NIL
    BY <1>3, Names DEF IsColumn
  <2>4. CASE src \in Columns
    <3>1. moved = ChildrenTo(t, src, dst)
      BY <2>4 DEF moved, IsColumn
    <3>2. Wired(moved, {}, E \union {src}) /\ Moved(t, moved, src)
      BY <2>1, <2>2, <2>3, <2>4, <3>1, ChildrenToWired
    <3>3. moved.parent[src] = NIL
      BY <2>4, <3>2 DEF Wired, Pointers
    <3>4. /\ Wired(x, {} \ {src}, (E \union {src}) \union {moved.parent[src]})
          /\ x.live = moved.live \ {src}
      BY <2>2, <3>2, DestroyWired DEF Moved, x
    <3>5. Wired(x, {}, E)
      <4>1. {} \ {src} = {}
        OBVIOUS
      <4>2. Wired(x, {}, (E \union {src}) \union {NIL})
        BY <3>3, <3>4, <4>1
      <4>3. src \notin x.live
        BY <3>4
      <4> QED
        BY <4>2, <4>3, FilledEnough, Names
    <3>6. u = x
      <4>1. {src} \intersect Views = {} /\ x \in States
        BY <2>4, <3>5, Names DEF Wired
      <4> HIDE DEF x
      <4>2. x.lost \union ({src} \intersect Views) = x.lost /\ [x EXCEPT !.lost = x.lost] = x
        BY <4>1 DEF States
      <4> QED
        BY <4>2 DEF u
    <3> QED
      BY <3>5, <3>6
  <2>5. CASE src \notin Columns
    <3>0. src \in Views
      BY <2>2, <2>5 DEF Containers
    <3>1. moved = AddChild(t, dst, src)
      BY <2>5 DEF moved, IsColumn
    <3>2. Wired(moved, {} \ {src}, (E \union {t.parent[src]}) \ {dst})
      BY <2>2, <2>3, <3>0, <3>1, AddChildWired
    <3> DEFINE D == (E \union {t.parent[src]}) \ {dst}
               F == D \union {moved.parent[src]}
    <3>3. Wired(moved, {}, D)
      <4>1. {} \ {src} = {}
        OBVIOUS
      <4> QED
        BY <3>2, <4>1
    <3> HIDE DEF D
    <3>4. \A v \in Views : moved.parent[v] # src
      <4>1. moved \in States
        BY <3>3 DEF Wired
      <4> QED
        BY <3>0, <4>1, NoChildren, Names
    <3>5. Wired(x, {} \ {src}, F)
      BY <2>2, <3>3, <3>4, DestroyWired DEF x
    <3> HIDE DEF F
    <3>6. Wired(x, {}, F)
      <4>1. {} \ {src} = {}
        OBVIOUS
      <4> QED
        BY <3>5, <4>1
    <3>7. /\ u \in States /\ Still(x, u) /\ u.live = x.live /\ u.scratch = x.scratch /\ u.minimized = x.minimized
          /\ u.wasfloat = x.wasfloat /\ u.lost = x.lost \union {src} /\ u.crash = x.crash /\ u.alive = x.alive
      <4>1. x \in States /\ {src} \intersect Views = {src}
        BY <3>0, <3>6 DEF Wired
      <4>2. u = [x EXCEPT !.lost = x.lost \union {src}]
        BY <4>1 DEF u, States
      <4> HIDE DEF u
      <4> QED
        BY <3>0, <4>1, <4>2 DEF States, Still
    <3>8. Wired(u, {}, F)
      <4>1. x.crash # "destroyed twice"
        BY <3>6 DEF Wired
      <4> QED
        BY <3>6, <3>7, <4>1, StillWired
    <3> QED
      BY <3>7, <3>8, FilledEnough
  <2> QED
    BY <2>4, <2>5
<1> HIDE DEF u, n, dst
<1>4. CASE t.crash # "no" \/ n <= 1 \/ Needed(t, w) <= Capacity
  <2>1. MergeLast(t, w) = t
    BY <1>1, <1>4
  <2> QED
    BY <2>1
<1>5. CASE ~(t.crash # "no" \/ n <= 1 \/ Needed(t, w) <= Capacity) /\ ~IsColumn(dst)
  <2>1. MergeLast(t, w) = [t EXCEPT !.crash = "no list of children"]
    BY <1>1, <1>5
  <2> QED
    BY <2>1, <1>2
<1>6. CASE ~(t.crash # "no" \/ n <= 1 \/ Needed(t, w) <= Capacity) /\ IsColumn(dst)
  <2>1. MergeLast(t, w) = u
    BY <1>1, <1>6
  <2>2. n > 1
    <3>1. ~(n <= 1) /\ n \in Nat
      BY <1>0, <1>6
    <3> QED
      BY <3>1
  <2> QED
    BY <2>1, <2>2, <1>3, <1>6
<1> QED
  BY <1>4, <1>5, <1>6

LEMMA FixOverflowWired ==
    ASSUME NEW t, NEW E, Wired(t, {}, E), NEW w \in Workspaces
    PROVE  LET u == FixOverflow(t, w) IN Wired(u, {}, E) /\ u.alive = t.alive
<1> DEFINE q == t.tiling[w]
           n == Len(q)
           f == [i \in DOMAIN q |-> [u \in States |-> MergeLast(u, w)]]
           S == {y \in States : Wired(y, {}, E)}
<1>0. t \in States /\ q \in Seq(Containers) /\ n \in Nat /\ DOMAIN q = 1..n
  <2>1. t \in States
    BY DEF Wired
  <2> QED
    BY <2>1, Fields
<1>1. t \in S
  BY <1>0
<1>2. ASSUME NEW y \in S, NEW i \in 1..n PROVE f[i][y] \in S
  <2>1. f[i][y] = MergeLast(y, w)
    BY <1>0
  <2>2. Wired(MergeLast(y, w), {}, E)
    BY MergeLastWired
  <2> HIDE DEF f
  <2> QED
    BY <2>1, <2>2 DEF Wired
<1>3. Rounds(f, t, n) \in S
  <2> HIDE DEF f, S, n
  <2> QED
    BY <1>0, <1>1, <1>2, RoundsKeep
<1>4. FixOverflow(t, w) = Rounds(f, t, n)
  BY DEF FixOverflow
<1>5. FixOverflow(t, w).alive = t.alive
  BY <1>0, FixOverflowType DEF Same
<1> QED
  BY <1>3, <1>4, <1>5

-----------------------------------------------------------------------------
(* Windows and columns onto a workspace.                                   *)

LEMMA InsertedMore ==
    ASSUME NEW S, NEW q \in Seq(S), NEW i \in Nat \ {0}, NEW c \in S
    PROVE  Inserted(q, i, c) \in Seq(S) /\ More(q, Inserted(q, i, c), c)
<1> DEFINE k == IF i > Len(q) THEN Len(q) + 1 ELSE i
<1>1. k \in 1..(Len(q) + 1)
  <2>1. Len(q) \in Nat
    OBVIOUS
  <2> QED
    BY <2>1
<1>2. Inserted(q, i, c) = InsertAt(q, k, c)
  BY DEF Inserted
<1> HIDE DEF k
<1> QED
  BY <1>1, <1>2, InsertAtMore, InsertAtType

(* A container in the list of its workspace, or moved within it. *)
LEMMA PutOnto ==
    ASSUME NEW t, NEW X, NEW E, Wired(t, X, E), NEW c \in Containers, NEW w \in Workspaces,
           c \in t.live, c \notin t.minimized, c \notin t.scratch, t.parent[c] = NIL,
           c \in X \/ t.ws[c] = w, t.alive[w] = "live",
           NEW q \in Seq(Containers), IsInjective(q), Range(q) = Range(t.tiling[w]) \union {c}
    PROVE  LET u == Place([t EXCEPT !.tiling[w] = q], c, w)
           IN  Wired(u, X \ {c}, E) /\ Rest(t, u) /\ LeadsToWorkspace(t, c, w, u)
<1> DEFINE k == [t.tiling EXCEPT ![w] = q]
           a == [t EXCEPT !.tiling[w] = q]
           u == Place(a, c, w)
<1>1. t \in States /\ t.tiling \in [Workspaces -> Seq(Containers)]
  <2>1. t \in States
    BY DEF Wired
  <2> QED
    BY <2>1, Fields
<1>2. k \in [Workspaces -> Seq(Containers)] /\ k[w] = q /\ \A x \in Workspaces : x # w => k[x] = t.tiling[x]
  BY <1>1
<1>3. a = [t EXCEPT !.tiling = k]
  BY <1>1 DEF States
<1> HIDE DEF k, a
<1>4. /\ a \in States /\ Rest(t, a) /\ a.kids = t.kids /\ a.parent = t.parent /\ a.ws = t.ws
      /\ a.tiling = k /\ a.floating = t.floating
  <2>1. a \in States
    BY <1>1, <1>2, <1>3, ZenonT(40) DEF States
  <2>2. /\ a.live = t.live /\ a.scratch = t.scratch /\ a.minimized = t.minimized
        /\ a.wasfloat = t.wasfloat /\ a.alive = t.alive /\ a.lost = t.lost /\ a.crash = t.crash
        /\ a.kids = t.kids /\ a.parent = t.parent /\ a.ws = t.ws
        /\ a.tiling = k /\ a.floating = t.floating
    BY <1>1, <1>3 DEF States
  <2> QED
    BY <2>1, <2>2 DEF Rest
<1>5. ToWorkspace(t, c, w, a)
  BY <1>2, <1>4 DEF ToWorkspace
<1>6. u = Place(a, c, w)
  OBVIOUS
<1> HIDE DEF u
<1>7. Wired(u, X \ {c}, E) /\ Rest(t, u) /\ LeadsToWorkspace(t, c, w, u)
  BY <1>4, <1>5, <1>6, OntoWorkspace
<1> QED
  BY <1>7 DEF u, a

(* A window gets a column of its own. *)
LEMMA OwnColumnWired ==
    ASSUME NEW t, NEW v \in Views, NEW E, Wired(t, {v}, E), Roomy(t), NEW w \in Workspaces, t.alive[w] = "live",
           v \in t.live, v \notin t.scratch, v \notin t.minimized, NEW i \in Nat \ {0}
    PROVE  LET c == Fresh(t)
               u == Place([NewColumn(t, w, v) EXCEPT !.tiling[w] = Inserted(@, i, c)], c, w)
           IN  /\ Wired(u, {}, E) /\ u.alive = t.alive /\ u.scratch = t.scratch
               /\ \A d \in Containers : d \in t.live => d \in u.live
<1> DEFINE c == Fresh(t)
           b == NewColumn(t, w, v)
           q == Inserted(b.tiling[w], i, c)
           u == Place([b EXCEPT !.tiling[w] = q], c, w)
<1>0. v \in Containers /\ t.parent[v] = NIL
  <2>1. v \in Containers
    BY Names
  <2> QED
    BY <2>1 DEF Wired, Pointers
<1>1. /\ Wired(b, ({v} \ {v}) \union {c}, E \union {NIL})
      /\ NewColumnOf(t, w, v, c, b)
  BY <1>0, NewColumnWired
<1>2. c \in Containers /\ c \notin Views
  BY <1>1, Names DEF NewColumnOf
<1>u. Place([b EXCEPT !.tiling[w] = Inserted(@, i, c)], c, w) = u
  <2>1. [b EXCEPT !.tiling[w] = Inserted(@, i, c)] = [b EXCEPT !.tiling[w] = q]
    OBVIOUS
  <2> QED
    BY <2>1
<1> HIDE DEF b, c
<1>3. Wired(b, {c}, E)
  <2>1. ({v} \ {v}) \union {c} = {c}
    OBVIOUS
  <2>2. Wired(b, {c}, E \union {NIL})
    BY <1>1, <2>1
  <2> QED
    BY <2>2, FilledEnough, Names
<1>4. /\ c \in b.live /\ c \notin b.minimized /\ c \notin b.scratch /\ b.parent[c] = NIL /\ b.alive[w] = "live"
      /\ b.alive = t.alive /\ b.scratch = t.scratch /\ b.live = t.live \union {c}
  <2>1. b \in States
    BY <1>3 DEF Wired
  <2>2. b.scratch \subseteq Views /\ b.minimized \subseteq Views
    BY <2>1, Fields
  <2> QED
    BY <1>1, <1>2, <2>2 DEF NewColumnOf
<1>5. b.tiling[w] \in Seq(Containers)
  <2>1. b \in States
    BY <1>3 DEF Wired
  <2>2. b.tiling \in [Workspaces -> Seq(Containers)]
    BY <2>1, Fields
  <2> QED
    BY <2>2
<1>6. q \in Seq(Containers) /\ More(b.tiling[w], q, c)
  BY <1>2, <1>5, InsertedMore
<1> HIDE DEF q
<1>7. IsInjective(q) /\ Range(q) = Range(b.tiling[w]) \union {c}
  <2>1. IsInjective(b.tiling[w])
    BY <1>3 DEF Wired, Listed
  <2>2. c \notin Range(b.tiling[w])
    <3>1. c \in {c}
      OBVIOUS
    <3> QED
      BY <1>3, <3>1, InATiling
  <2> QED
    BY <1>6, <2>1, <2>2 DEF More
<1>8. Wired(u, {c} \ {c}, E) /\ Rest(b, u)
  <2>1. c \in {c}
    OBVIOUS
  <2> QED
    BY <2>1, <1>2, <1>3, <1>4, <1>6, <1>7, PutOnto
<1> HIDE DEF u
<1>9. Wired(u, {}, E)
  <2>1. {c} \ {c} = {}
    OBVIOUS
  <2> QED
    BY <1>8, <2>1
<1> QED
  BY <1>4, <1>8, <1>9, <1>u DEF c, b, Rest

(* A window that is nowhere is tiled. *)
LEMMA AddTilingWired ==
    ASSUME NEW t, NEW v \in Views, NEW E, Wired(t, {v}, E), Roomy(t), NEW w \in Workspaces, t.alive[w] = "live",
           v \in t.live, v \notin t.scratch, t.ws[v] = NIL, NEW i \in Nat \ {0}
    PROVE  LET u == AddTiling(t, w, v, i) IN Wired(u, {}, E) /\ u.alive = t.alive
<1> DEFINE a == Unpark(t, v)
           c == Fresh(a)
           e == Place([NewColumn(a, w, v) EXCEPT !.tiling[w] = Inserted(@, i, c)], c, w)
           u == FixOverflow(e, w)
<1>0. t \in States /\ v \in Containers
  BY Names DEF Wired
<1>1. /\ a.ws = t.ws /\ a.live = t.live /\ a.scratch = t.scratch /\ a.minimized = t.minimized \ {v} /\ a.alive = t.alive
  BY <1>0, UnparkFields
<1>2. Wired(a, {v}, E)
  <2>1. Wired(a, {v}, E) \/ Wired(a, {v} \union {v}, E)
    BY UnparkWired
  <2>2. {v} \union {v} = {v}
    OBVIOUS
  <2> QED
    BY <2>1, <2>2
<1>3. AddTiling(t, w, v, i) = u
  <2>1. Leave(a, v) = a
    BY <1>1 DEF Leave
  <2> QED
    BY <2>1 DEF AddTiling, Tile
<1> HIDE DEF a
<1>4. Roomy(a)
  BY <1>1 DEF Roomy
<1>5. Wired(e, {}, E) /\ e.alive = a.alive
  BY <1>1, <1>2, <1>4, OwnColumnWired
<1> HIDE DEF e
<1>6. Wired(u, {}, E) /\ u.alive = e.alive
  BY <1>5, FixOverflowWired
<1> QED
  BY <1>1, <1>3, <1>5, <1>6

(* The function [f EXCEPT ![c] = e] when f[c] is e. *)
LEMMA ExceptSame ==
    ASSUME NEW S, NEW T, NEW f \in [S -> T], NEW c \in S, NEW e, f[c] = e
    PROVE  [f EXCEPT ![c] = e] = f
OBVIOUS

(* Next to a container that is in the tree: in its column, among the       *)
(* floating windows, or behind it on the workspace.                        *)
LEMMA AddSiblingWired ==
    ASSUME NEW t, NEW X, NEW E, Wired(t, X, E), NEW fixed \in Containers, NEW c \in Views, fixed # c,
           t.ws[c] = NIL => t.parent[c] = NIL, c \in t.live, c \notin t.scratch, c \notin t.minimized,
           fixed \notin X, t.ws[fixed] # NIL, t.parent[fixed] \notin X
    PROVE  LET u == AddSibling(t, fixed, c)
           IN  /\ Wired(u, X \ {c}, E \union {t.parent[c]}) /\ Rest(t, u)
               /\ \A d \in Containers : u.parent[d] = IF d = c THEN t.parent[fixed] ELSE t.parent[d]
<1> DEFINE b == DetachIf(t, c)
           p == b.parent[fixed]
           w == b.ws[fixed]
           x == IF p # NIL
                  THEN [b EXCEPT !.kids[p] = InsertAt(@, IndexOf(@, fixed) + 1, c)]
                ELSE IF Floats(b, fixed) THEN [b EXCEPT !.floating[w] = @ \union {c}]
                ELSE [b EXCEPT !.tiling[w] = InsertAt(@, IndexOf(@, fixed) + 1, c)]
           a == [x EXCEPT !.parent[c] = p]
           u == Place(a, c, w)
           Y == X \union {c}
           D == E \union {t.parent[c]}
<1>0. /\ t \in States /\ c \in Containers /\ c # NIL /\ c \notin Columns
      /\ \A d \in Containers : t.parent[d] # c
  <2>1. t \in States /\ c \in Containers /\ c # NIL /\ c \notin Columns
    BY Names DEF Wired
  <2> QED
    BY <2>1, NoChildren
<1>1. Wired(b, Y, D) /\ Out(t, c, b) /\ Rest(t, b) /\ b.parent[c] = NIL /\ b.ws[c] = NIL
  BY <1>0, DetachIfWired
<1>2. AddSibling(t, fixed, c) = u
  BY DEF AddSibling
<1> HIDE DEF b
<1>3. b \in States
  BY <1>1 DEF Wired
<1>4. /\ p = t.parent[fixed] /\ w = t.ws[fixed] /\ \A d \in Containers : d # c => b.parent[d] = t.parent[d]
      /\ w \in Workspaces /\ p \in Columns \union {NIL}
  <2>1. p = t.parent[fixed] /\ w = t.ws[fixed] /\ \A d \in Containers : d # c => b.parent[d] = t.parent[d]
    BY <1>0, <1>1 DEF Out
  <2>2. t.ws[fixed] \in Workspaces \union {NIL} /\ t.parent[fixed] \in Columns \union {NIL}
    BY <1>0, Fields
  <2> QED
    BY <2>1, <2>2
<1>5. c \in Y /\ c \in b.live /\ c \notin b.scratch /\ c \notin b.minimized /\ fixed \notin Y
  BY <1>1 DEF Rest
<1>6. Y \ {c} = X \ {c}
  OBVIOUS
<1>7. u = Place(a, c, w)
  OBVIOUS
<1> HIDE DEF u, Y, D, p, w
<1>8. CASE p # NIL
  <2> DEFINE q == InsertAt(b.kids[p], IndexOf(b.kids[p], fixed) + 1, c)
             k == [b.kids EXCEPT ![p] = q]
             f == [b.parent EXCEPT ![c] = p]
  <2>0. p \in Columns /\ p # c
    BY <1>0, <1>4, <1>8
  <2>1. /\ fixed \in Views /\ p \in b.live /\ b.ws[p] = w
    <3>1. fixed \in Views
      <4>1. \A d \in Columns : b.parent[d] = NIL
        BY <1>1 DEF Wired, Pointers
      <4> QED
        BY <1>8, <4>1 DEF p, Containers
    <3>2. b.parent[fixed] # NIL
      BY <1>8 DEF p
    <3> QED
      BY <1>1, <3>1, <3>2, InAColumn DEF p, w
  <2>2. b.kids \in [Columns -> Seq(Views)] /\ b.parent \in [Containers -> Columns \union {NIL}]
    BY <1>3, Fields
  <2>3. q \in Seq(Views) /\ More(b.kids[p], q, c)
    <3>1. IndexOf(b.kids[p], fixed) \in 0..Len(b.kids[p]) /\ b.kids[p] \in Seq(Views) /\ Len(b.kids[p]) \in Nat
      BY <2>0, <2>2, IndexOfType
    <3>2. IndexOf(b.kids[p], fixed) + 1 \in 1..(Len(b.kids[p]) + 1)
      BY <3>1
    <3> QED
      BY <3>1, <3>2, InsertAtMore, InsertAtType
  <2>4. x = [b EXCEPT !.kids[p] = q]
    BY <1>8
  <2> HIDE DEF q, x
  <2>5. /\ k \in [Columns -> Seq(Views)] /\ f \in [Containers -> Columns \union {NIL}]
        /\ k[p] = q /\ \A z \in Columns : z # p => k[z] = b.kids[z]
        /\ \A d \in Containers : f[d] = IF d = c THEN p ELSE b.parent[d]
    BY <1>0, <2>0, <2>2, <2>3
  <2>6. a = [b EXCEPT !.kids = k, !.parent = f]
    BY <1>3, <2>4 DEF States
  <2> HIDE DEF k, f, a
  <2>7. /\ a \in States /\ Rest(b, a) /\ a.ws = b.ws /\ a.tiling = b.tiling /\ a.floating = b.floating
        /\ a.kids = k /\ a.parent = f
    BY <1>3, <2>5, <2>6 DEF States, Rest
  <2>8. ToColumn(b, c, p, a)
    BY <2>3, <2>5, <2>7 DEF ToColumn
  <2>9. u = Place(a, c, b.ws[p])
    BY <1>7, <2>1
  <2>10. Wired(u, Y \ {c}, D \ {p}) /\ Rest(b, u) /\ LeadsToColumn(b, c, p, u)
    BY <1>1, <1>5, <2>0, <2>1, <2>7, <2>8, <2>9, IntoColumn
  <2>11. Wired(u, Y \ {c}, D)
    BY <2>10, FilledEnough
  <2>12. Wired(u, X \ {c}, E \union {t.parent[c]})
    BY <1>6, <2>11 DEF D
  <2>13. \A d \in Containers : u.parent[d] = IF d = c THEN t.parent[fixed] ELSE t.parent[d]
    BY <1>4, <2>10 DEF LeadsToColumn
  <2>14. Rest(t, u)
    BY <1>1, <2>10 DEF Rest
  <2> QED
    BY <1>2, <2>12, <2>13, <2>14
<1>9. ASSUME p = NIL PROVE b.alive[w] = "live"
  <2>1. b.parent[fixed] = NIL /\ b.ws[fixed] # NIL
    BY <1>4, <1>9, Names DEF p, w
  <2> QED
    BY <1>1, <1>5, <2>1, OnTheLiving DEF w
<1>10. ASSUME NEW r, p = NIL, Wired(r, Y \ {c}, D), Rest(b, r), LeadsToWorkspace(b, c, w, r), u = r
       PROVE  /\ Wired(u, X \ {c}, E \union {t.parent[c]}) /\ Rest(t, u)
              /\ \A d \in Containers : u.parent[d] = IF d = c THEN t.parent[fixed] ELSE t.parent[d]
  <2>1. Wired(u, X \ {c}, E \union {t.parent[c]})
    BY <1>6, <1>10 DEF D
  <2>2. \A d \in Containers : u.parent[d] = IF d = c THEN t.parent[fixed] ELSE t.parent[d]
    BY <1>1, <1>4, <1>10 DEF LeadsToWorkspace
  <2>3. Rest(t, u)
    BY <1>1, <1>10 DEF Rest
  <2> QED
    BY <2>1, <2>2, <2>3
<1>11. CASE p = NIL /\ Floats(b, fixed)
  <2> DEFINE f == [b.floating EXCEPT ![w] = @ \union {c}]
  <2>1. x = [b EXCEPT !.floating[w] = @ \union {c}]
    BY <1>11
  <2> HIDE DEF x
  <2>2. b.floating \in [Workspaces -> SUBSET Views] /\ b.parent \in [Containers -> Columns \union {NIL}]
    BY <1>3, Fields
  <2>3. /\ f \in [Workspaces -> SUBSET Views] /\ f[w] = b.floating[w] \union {c}
        /\ \A z \in Workspaces : z # w => f[z] = b.floating[z]
    BY <1>4, <2>2
  <2>4. x = [b EXCEPT !.floating = f]
    BY <1>3, <2>1 DEF States
  <2> HIDE DEF f
  <2>5. /\ x \in States /\ x.kids = b.kids /\ x.parent = b.parent /\ x.ws = b.ws /\ Rest(b, x)
        /\ x.tiling = b.tiling /\ x.floating = f
    BY <1>3, <2>3, <2>4 DEF States, Rest
  <2>6. a = x
    <3>1. [x.parent EXCEPT ![c] = p] = x.parent
      BY <1>0, <1>1, <1>11, <2>2, <2>5, ExceptSame
    <3>2. a = [x EXCEPT !.parent = [x.parent EXCEPT ![c] = p]]
      BY <2>5 DEF States
    <3>3. a = [x EXCEPT !.parent = x.parent]
      BY <3>1, <3>2
    <3> HIDE DEF a
    <3> QED
      BY <2>5, <3>3 DEF States
  <2>7. IsInjective(x.tiling[w])
    BY <1>1, <1>4, <2>5 DEF Wired, Listed
  <2>8. ToWorkspace(b, c, w, x)
    BY <1>4, <2>3, <2>5, <2>7 DEF ToWorkspace
  <2> DEFINE r == Place(x, c, w)
  <2>9. r = Place(x, c, w) /\ u = r
    BY <1>7, <2>6
  <2> HIDE DEF r, a
  <2>10. Wired(r, Y \ {c}, D) /\ Rest(b, r) /\ LeadsToWorkspace(b, c, w, r)
    BY <1>0, <1>1, <1>4, <1>5, <1>9, <1>11, <2>5, <2>8, <2>9, OntoWorkspace
  <2> QED
    BY <1>2, <1>10, <1>11, <2>9, <2>10
<1>12. CASE p = NIL /\ ~Floats(b, fixed)
  <2> DEFINE q == InsertAt(b.tiling[w], IndexOf(b.tiling[w], fixed) + 1, c)
  <2>1. x = [b EXCEPT !.tiling[w] = q]
    BY <1>12
  <2>2. b.tiling \in [Workspaces -> Seq(Containers)] /\ b.parent \in [Containers -> Columns \union {NIL}]
    BY <1>3, Fields
  <2>3. q \in Seq(Containers) /\ More(b.tiling[w], q, c)
    <3>1. IndexOf(b.tiling[w], fixed) \in 0..Len(b.tiling[w]) /\ b.tiling[w] \in Seq(Containers) /\ Len(b.tiling[w]) \in Nat
      BY <1>4, <2>2, IndexOfType
    <3>2. IndexOf(b.tiling[w], fixed) + 1 \in 1..(Len(b.tiling[w]) + 1)
      BY <3>1
    <3> QED
      BY <1>0, <3>1, <3>2, InsertAtMore, InsertAtType
  <2> HIDE DEF q, x
  <2>4. IsInjective(q) /\ Range(q) = Range(b.tiling[w]) \union {c}
    <3>1. IsInjective(b.tiling[w])
      BY <1>1, <1>4 DEF Wired, Listed
    <3>2. c \notin Range(b.tiling[w])
      BY <1>1, <1>4, <1>5, InATiling
    <3> QED
      BY <2>3, <3>1, <3>2 DEF More
  <2>5. a = x
    <3>0. x \in States /\ x.parent = b.parent
      <4> DEFINE k == [b.tiling EXCEPT ![w] = q]
      <4>1. k \in [Workspaces -> Seq(Containers)]
        BY <2>2, <2>3
      <4>2. x = [b EXCEPT !.tiling = k]
        BY <1>3, <2>1 DEF States
      <4> HIDE DEF k
      <4> QED
        BY <1>3, <4>1, <4>2 DEF States
    <3>1. [x.parent EXCEPT ![c] = p] = x.parent
      BY <1>0, <1>1, <1>12, <2>2, <3>0, ExceptSame
    <3>2. a = [x EXCEPT !.parent = [x.parent EXCEPT ![c] = p]]
      BY <3>0 DEF States
    <3>3. a = [x EXCEPT !.parent = x.parent]
      BY <3>1, <3>2
    <3> HIDE DEF a
    <3> QED
      BY <3>0, <3>3 DEF States
  <2> DEFINE r == Place([b EXCEPT !.tiling[w] = q], c, w)
  <2>6. u = r
    BY <1>7, <2>1, <2>5
  <2>7. Wired(r, Y \ {c}, D) /\ Rest(b, r) /\ LeadsToWorkspace(b, c, w, r)
    BY <1>0, <1>1, <1>4, <1>5, <1>9, <1>12, <2>3, <2>4, PutOnto
  <2> HIDE DEF r
  <2> QED
    BY <1>2, <1>10, <1>12, <2>6, <2>7
<1> QED
  BY <1>8, <1>11, <1>12

-----------------------------------------------------------------------------
(* Windows that float, are put away and come back.                         *)
LEMMA Tidy ==
    ASSUME NEW t, NEW Y, NEW D, Wired(t, Y, D), NEW X, X = Y, NEW E, D \subseteq E \union {NIL}
    PROVE  Wired(t, X, E)
<1>1. \A c \in Columns : c \in D => c \in E
  BY Names
<1> QED
  BY <1>1, FilledEnough

LEMMA SetAside ==
    ASSUME NEW t, NEW X, NEW E, Wired(t, X, E), NEW c \in Views, t.parent[c] = NIL, t.ws[c] = NIL,
           NEW u \in States, Still(t, u), Flags(t, u, c)
    PROVE  Wired(u, X \union {c}, E)
<1>0. t \in States /\ c \in Containers
  BY Names DEF Wired
<1>1. Out(t, c, t)
  BY <1>0, Nowhere
<1>2. Out(t, c, u)
  BY <1>1 DEF Out, Unlists, Still
<1>3. \A v \in Views : t.parent[v] # c
  BY <1>0, NoChildren, Names
<1>4. Wired(u, X \union {c}, E \union {t.parent[c]})
  BY <1>0, <1>2, <1>3, OutWired
<1> QED
  BY <1>4, Tidy

LEMMA FloatingEnableWired ==
    ASSUME NEW t, Wired(t, {}, {}), NEW v \in Views, t.ws[v] # NIL
    PROVE  LET u == FloatingEnable(t, v)
           IN  /\ Wired(u, {}, {}) /\ u.parent[v] = NIL /\ u.ws[v] = t.ws[v]
               /\ v \in u.live /\ v \notin u.minimized
<1> DEFINE p == t.parent[v]
           w == t.ws[v]
           a == Detach(t, v)
           b == AddFloating(a, w, v)
           d == Reap(b, p)
           u == EndMouseOperation(d, v)
<1>0. t \in States /\ v \in Containers /\ p \in Columns \union {NIL} /\ p # v /\ {} = {} \union {}
  <2>1. t \in States /\ v \in Containers
    BY Names DEF Wired
  <2> QED
    BY <2>1, Fields, Names
<1>1. w \in Workspaces /\ t.alive[w] = "live" /\ v \in t.live
  <2>1. p = NIL \/ p \notin {}
    OBVIOUS
  <2>2. w \in Workspaces /\ t.alive[w] = "live"
    BY <1>0, <2>1, OnTheLiving
  <2> QED
    BY <1>0, <2>2 DEF Wired, Pointers
<1>2. FloatingEnable(t, v) = u
  BY DEF FloatingEnable
<1>3. Wired(a, {} \union {v}, {} \union {p}) /\ Rest(t, a) /\ a.parent[v] = NIL /\ a.ws[v] = NIL
  BY <1>0, DetachWired
<1> HIDE DEF a, w
<1>4. /\ Wired(b, ({} \union {v}) \ {v}, ({} \union {p}) \union {NIL})
      /\ b.parent[v] = NIL /\ b.ws[v] = w /\ v \notin b.minimized /\ b.live = a.live
  <2>1. v \in a.live /\ a.alive[w] = "live"
    BY <1>1, <1>3 DEF Rest
  <2> QED
    BY <1>1, <1>3, <2>1, AddFloatingWired
<1> HIDE DEF b
<1>5. Wired(b, {}, {p})
  <2>1. {} = ({} \union {v}) \ {v} /\ ({} \union {p}) \union {NIL} \subseteq {p} \union {NIL}
    OBVIOUS
  <2> QED
    BY <1>4, <2>1, Tidy
<1>6. Wired(d, {}, {p} \ {p}) /\ Tidied(b, d, p)
  BY <1>0, <1>5, ReapWired
<1> HIDE DEF d
<1>7. Wired(d, {}, {})
  <2>1. {p} \ {p} = {}
    OBVIOUS
  <2> QED
    BY <1>6, <2>1
<1>8. d.parent[v] = NIL /\ d.ws[v] = w /\ v \in d.live /\ v \notin d.minimized
  <2>1. v \in b.live
    BY <1>1, <1>3, <1>4 DEF Rest
  <2> QED
    BY <1>0, <1>4, <1>6, <2>1 DEF Tidied, Beside
<1>9. u \in States /\ Alike(d, u)
  BY <1>7, EndMouseOperationType, EndMouseOperationAlike DEF Wired
<1> HIDE DEF u
<1>10. Wired(u, {}, {})
  BY <1>7, <1>9, AlikeWired
<1> QED
  BY <1>2, <1>8, <1>9, <1>10 DEF Alike, w

LEMMA FloatingDisableWired ==
    ASSUME NEW t, Wired(t, {}, {}), Roomy(t), NEW v \in Views, t.ws[v] # NIL, t.parent[v] = NIL, NEW i \in Nat \ {0}
    PROVE  Wired(FloatingDisable(t, v, i), {}, {})
<1> DEFINE w == t.ws[v]
           k == t.scratch \ {v}
           z == [t EXCEPT !.scratch = @ \ {v}]
           a == Detach(z, v)
           c == Fresh(a)
           b == Place([NewColumn(a, w, v) EXCEPT !.tiling[w] = Inserted(@, i, c)], c, w)
           u == EndMouseOperation(b, v)
<1>0. t \in States /\ v \in Containers
  BY Names DEF Wired
<1>1. w \in Workspaces /\ t.alive[w] = "live" /\ v \in t.live /\ v \notin t.minimized
  <2>1. t.parent[v] = NIL \/ t.parent[v] \notin {}
    OBVIOUS
  <2>2. w \in Workspaces /\ t.alive[w] = "live"
    BY <1>0, <2>1, OnTheLiving
  <2> QED
    BY <1>0, <2>2 DEF Wired, Pointers, PutAway
<1>2. FloatingDisable(t, v, i) = u
  BY DEF FloatingDisable
<1>3. /\ z \in States /\ z.live = t.live /\ z.parent = t.parent /\ z.ws = t.ws /\ z.kids = t.kids
      /\ z.tiling = t.tiling /\ z.floating = t.floating /\ z.scratch = k /\ z.minimized = t.minimized
      /\ z.wasfloat = t.wasfloat /\ z.alive = t.alive /\ z.lost = t.lost /\ z.crash = t.crash
  <2>1. z = [t EXCEPT !.scratch = k] /\ k \subseteq Views
    BY <1>0, Fields
  <2> HIDE DEF k, z
  <2>2. z \in States
    BY <1>0, <2>1, ZenonT(40) DEF States
  <2>3. /\ z.live = t.live /\ z.parent = t.parent /\ z.ws = t.ws /\ z.kids = t.kids
        /\ z.tiling = t.tiling /\ z.floating = t.floating /\ z.scratch = k /\ z.minimized = t.minimized
        /\ z.wasfloat = t.wasfloat /\ z.alive = t.alive /\ z.lost = t.lost /\ z.crash = t.crash
    BY <1>0, <2>1 DEF States
  <2> QED
    BY <2>2, <2>3
<1> HIDE DEF z
<1>4. Wired(z, {}, {})
  <2>1. Listed(z, {})
    <3>1. Listed(t, {}) /\ z.scratch \subseteq t.scratch
      BY <1>3 DEF Wired
    <3> QED
      BY <1>3, <3>1, ListedSame
  <2>2. Pointers(z, {})
    BY <1>3 DEF Wired, Pointers
  <2>3. PutAway(z, {})
    BY <1>3 DEF Wired, PutAway
  <2>4. Filled(z, {}) /\ z.crash # "destroyed twice"
    BY <1>3 DEF Wired, Filled
  <2> QED
    BY <1>3, <2>1, <2>2, <2>3, <2>4 DEF Wired
<1>5. Wired(a, {} \union {v}, {} \union {NIL}) /\ Rest(z, a)
  BY <1>0, <1>3, <1>4, DetachWired
<1> HIDE DEF a, w
<1>6. Wired(a, {v}, {})
  <2>1. {v} = {} \union {v} /\ {} \union {NIL} \subseteq {} \union {NIL}
    OBVIOUS
  <2> QED
    BY <1>5, <2>1, Tidy
<1>7. a.alive[w] = "live" /\ v \in a.live /\ v \notin a.scratch /\ v \notin a.minimized /\ Roomy(a)
  BY <1>1, <1>3, <1>5 DEF Rest, Roomy
<1>8. Wired(b, {}, {})
  BY <1>1, <1>6, <1>7, OwnColumnWired
<1> HIDE DEF b
<1>9. u \in States /\ Alike(b, u)
  BY <1>8, EndMouseOperationType, EndMouseOperationAlike DEF Wired
<1> QED
  BY <1>2, <1>8, <1>9, AlikeWired

(* A window that is in the tree is put in the scratchpad. *)
LEMMA ScratchpadAddWired ==
    ASSUME NEW t, Wired(t, {}, {}), NEW v \in Views, t.ws[v] # NIL
    PROVE  Wired(ScratchpadAdd(t, v), {}, {})
<1> DEFINE a == DisableIf(t, v)
           b == IF IsFloating(a, v) THEN a ELSE FloatingEnable(a, v)
           d == Detach(b, v)
           k == d.scratch \union {v}
           u == [d EXCEPT !.scratch = @ \union {v}]
<1>0. t \in States /\ v \in Containers
  BY Names DEF Wired
<1>1. ScratchpadAdd(t, v) = u
  BY DEF ScratchpadAdd
<1>2. a \in States /\ Alike(t, a)
  BY <1>0, DisableIfAlike
<1> HIDE DEF a
<1>3. Wired(a, {}, {}) /\ a.ws[v] # NIL
  BY <1>2, AlikeWired DEF Alike
<1>4. /\ Wired(b, {}, {}) /\ b.parent[v] = NIL /\ v \in b.live /\ v \notin b.minimized
  <2>1. CASE IsFloating(a, v)
    <3>1. a.parent[v] = NIL
      BY <1>3, <2>1 DEF IsFloating, Floats, Wired, PutAway
    <3>2. v \in a.live /\ v \notin a.minimized
      BY <1>0, <1>3 DEF Wired, Pointers, PutAway
    <3> QED
      BY <1>3, <2>1, <3>1, <3>2
  <2>2. CASE ~IsFloating(a, v)
    BY <1>3, <2>2, FloatingEnableWired
  <2> QED
    BY <2>1, <2>2
<1> HIDE DEF b
<1>5. Wired(d, {} \union {v}, {} \union {NIL}) /\ Rest(b, d) /\ d.parent[v] = NIL /\ d.ws[v] = NIL
  BY <1>0, <1>4, DetachWired
<1> HIDE DEF d
<1>6. d \in States /\ v \in d.live /\ v \notin d.minimized
  BY <1>4, <1>5 DEF Rest, Wired
<1>7. /\ u \in States /\ Still(d, u) /\ u.live = d.live /\ u.scratch = k /\ u.minimized = d.minimized
      /\ u.wasfloat = d.wasfloat /\ u.alive = d.alive /\ u.lost = d.lost /\ u.crash = d.crash
  <2>1. u = [d EXCEPT !.scratch = k] /\ k \subseteq Views
    BY <1>6, Fields
  <2> HIDE DEF k, u
  <2> QED
    BY <1>6, <2>1 DEF States, Still
<1> HIDE DEF u
<1>8. Flags(d, u, v)
  BY <1>5, <1>6, <1>7 DEF Flags, Wired
<1>9. Wired(u, ({} \union {v}) \union {v}, {} \union {NIL})
  BY <1>5, <1>7, <1>8, SetAside
<1>10. Wired(u, {v}, {})
  <2>1. {v} = ({} \union {v}) \union {v} /\ {} \union {NIL} \subseteq {} \union {NIL}
    OBVIOUS
  <2> QED
    BY <1>9, <2>1, Tidy
<1>11. Wired(u, {v} \ {v}, {})
  <2>1. u.ws[v] = NIL /\ v \in {v} /\ v \in u.scratch
    BY <1>5, <1>7 DEF Still
  <2> QED
    BY <1>0, <1>10, <2>1, Settled
<1>12. {v} \ {v} = {}
  OBVIOUS
<1> QED
  BY <1>1, <1>11, <1>12

LEMMA ScratchpadHideWired ==
    ASSUME NEW t, Wired(t, {}, {}), NEW v \in t.scratch
    PROVE  Wired(ScratchpadHide(t, v), {}, {})
<1> DEFINE a == DisableIf(t, v)
           u == Detach(a, v)
<1>0. t \in States /\ v \in Views /\ v \in Containers /\ t.parent[v] = NIL
  <2>1. t \in States
    BY DEF Wired
  <2>2. v \in Views /\ v \in Containers
    BY <2>1, Fields, Names
  <2> QED
    BY <2>1, <2>2 DEF Wired, PutAway
<1>1. ScratchpadHide(t, v) = u
  BY DEF ScratchpadHide
<1>2. a \in States /\ Alike(t, a)
  BY <1>0, DisableIfAlike
<1> HIDE DEF a
<1>3. Wired(a, {}, {}) /\ a.parent[v] = NIL /\ v \in a.scratch
  BY <1>0, <1>2, AlikeWired DEF Alike
<1>4. Wired(u, {} \union {v}, {} \union {NIL}) /\ Rest(a, u) /\ u.ws[v] = NIL
  BY <1>0, <1>3, DetachWired
<1> HIDE DEF u
<1>5. Wired(u, ({} \union {v}) \ {v}, {} \union {NIL})
  <2>1. v \in {} \union {v} /\ v \in u.scratch
    BY <1>3, <1>4 DEF Rest
  <2> QED
    BY <1>0, <1>4, <2>1, Settled
<1>6. Wired(u, {}, {})
  <2>1. {} = ({} \union {v}) \ {v} /\ {} \union {NIL} \subseteq {} \union {NIL}
    OBVIOUS
  <2> QED
    BY <1>5, <2>1, Tidy
<1> QED
  BY <1>1, <1>6
=============================================================================
