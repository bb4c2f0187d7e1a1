------------------------- MODULE TreeLinked_proofs --------------------------
(***************************************************************************)
(* The lists of the tree and the pointers of its containers tell the same  *)
(* (Linked of Tree): every step keeps Wired, whatever is done to the       *)
(* windows, the workspaces and the outputs.                                *)
(***************************************************************************)
EXTENDS TreeLists_proofs

-----------------------------------------------------------------------------
(* The workspace that is focused is the one its output shows.              *)
LEMMA FocusedActive ==
    ASSUME NEW t, Sound(t), FocusedWs(t) # NIL
    PROVE  LET w == FocusedWs(t)
           IN  w \in Workspaces /\ t.alive[w] = "live" /\ Active(t, t.on[w]) = w
<1> DEFINE q == t.recent
           S == Placed(t)
           i == SelectInSeq(q, LAMBDA x : x \in S)
           w == FocusedWs(t)
           P == On(t, t.on[w])
<1>1. q \in Seq(Workspaces)
  BY DEF Sound, States
<1>2. \/ i = 0 /\ \A j \in 1..Len(q) : q[j] \notin S
      \/ i \in 1..Len(q) /\ q[i] \in S /\ \A j \in 1..(i-1) : q[j] \notin S
  BY <1>1, SelectFirst
<1>3. w = IF i = 0 THEN NIL ELSE q[i]
  BY DEF FocusedWs
<1> HIDE DEF i
<1>4. i \in 1..Len(q) /\ q[i] = w /\ w \in S /\ \A j \in 1..(i-1) : q[j] \notin S
  BY <1>2, <1>3
<1>5. w \in Workspaces /\ t.on[w] # NIL
  BY <1>4 DEF S, Placed
<1>6. t.alive[w] = "live" /\ w \in P /\ P \subseteq S
  BY <1>5 DEF Sound, Served, On, Placed
<1>7. Active(t, t.on[w]) = IF P = {} THEN NIL ELSE q[SelectInSeq(q, LAMBDA x : x \in P)]
  BY DEF Active
<1> HIDE DEF q, S, w, P
<1>8. SelectInSeq(q, LAMBDA x : x \in P) = i
  <2>1. q[i] \in P /\ \A j \in 1..(i-1) : q[j] \notin P
    BY <1>4, <1>6
  <2> QED
    BY <1>1, <1>4, <2>1, SelectFirstUnique
<1>9. Active(t, t.on[w]) = w
  BY <1>4, <1>6, <1>7, <1>8
<1> QED
  BY <1>5, <1>6, <1>9 DEF w

(* A container whose flags change leaves the tree. *)
LEMMA DetachedWired ==
    ASSUME NEW t, NEW X, NEW E, Wired(t, X, E), NEW c \in Views, NEW b \in States,
           Still(t, b), Flags(t, b, c), b.scratch \subseteq t.scratch
    PROVE  LET u == Detach(b, c)
           IN  /\ Wired(u, X \union {c}, E \union {t.parent[c]}) /\ Rest(b, u)
               /\ u.parent[c] = NIL /\ u.ws[c] = NIL
<1> DEFINE u == Detach(b, c)
<1>0. t \in States /\ c \in Containers
  BY Names DEF Wired
<1>1. Listed(b, X)
  <2>1. Listed(t, X)
    BY DEF Wired
  <2>2. /\ b.kids = t.kids /\ b.tiling = t.tiling /\ b.floating = t.floating /\ b.parent = t.parent
        /\ \A d \in Containers : d \notin X => b.ws[d] = t.ws[d]
    BY DEF Still
  <2> QED
    BY <2>1, <2>2, ListedSame
<1>2. u \in States /\ Rest(b, u) /\ Out(b, c, u)
  <2>1. \A p \in Columns : b.parent[p] = NIL
    BY DEF Wired, Pointers, Still
  <2> QED
    BY <1>0, <1>1, <2>1, DetachOut
<1> HIDE DEF u
<1>3. Out(t, c, u)
  BY <1>2 DEF Out, Unlists, Still
<1>4. Flags(t, u, c)
  BY <1>2 DEF Flags, Rest
<1>5. \A v \in Views : t.parent[v] # c
  BY <1>0, NoChildren, Names
<1>6. Wired(u, X \union {c}, E \union {t.parent[c]}) /\ u.parent[c] = NIL /\ u.ws[c] = NIL
  BY <1>0, <1>2, <1>3, <1>4, <1>5, OutWired
<1> QED
  BY <1>2, <1>6 DEF u

(* A window in a column is on a workspace. *)
LEMMA InAColumnOn ==
    ASSUME NEW t, NEW E, Wired(t, {}, E), NEW v \in Views, t.ws[v] = NIL
    PROVE  t.parent[v] = NIL
<1>1. SUFFICES ASSUME t.parent[v] # NIL PROVE FALSE
  OBVIOUS
<1>2. t.parent[v] \in Columns /\ t.parent[v] \in t.live /\ t.ws[t.parent[v]] = NIL
  BY <1>1, InAColumn
<1> QED
  BY <1>2 DEF Wired, PutAway

LEMMA MinimizedHideWired ==
    ASSUME NEW t, Sound(t), Wired(t, {}, {}), NEW v \in Views, v \in t.live
    PROVE  LET u == MinimizedHide(t, v)
           IN  /\ Wired(u, {}, {})
               /\ Stowed(t, {}) /\ v \notin t.minimized /\ u.lost = {} => Stowed(u, {})
<1> DEFINE a == DisableIf(t, v)
           w == a.ws[v]
           p == a.parent[v]
           m == a.minimized \union {v}
           f == IF IsFloating(a, v) THEN a.wasfloat \union {v} ELSE a.wasfloat \ {v}
           b == [a EXCEPT !.minimized = @ \union {v},
                          !.wasfloat = IF IsFloating(a, v) THEN @ \union {v} ELSE @ \ {v}]
           x == Detach(b, v)
           d == Reap(IF w = NIL THEN b ELSE x, p)
           e == [d EXCEPT !.pool[w] = @ \union {v}, !.alive[w] = IF @ = "no" THEN "dying" ELSE @]
<1>0. t \in States /\ v \in Containers
  BY Names DEF Wired
<1>1. MinimizedHide(t, v) = IF w = NIL THEN d ELSE e
  BY DEF MinimizedHide
<1>2. a \in States /\ Alike(t, a) /\ Same(t, a)
  BY <1>0, DisableIfAlike, DisableIfType
<1> HIDE DEF a
<1>3. Wired(a, {}, {}) /\ v \in a.live
  BY <1>2, AlikeWired DEF Alike
<1>4. /\ b \in States /\ Still(a, b) /\ b.live = a.live /\ b.scratch = a.scratch /\ b.minimized = m
      /\ b.wasfloat = f /\ b.alive = a.alive /\ b.lost = a.lost /\ b.crash = a.crash
      /\ b.on = a.on /\ b.recent = a.recent /\ b.outs = a.outs /\ b.pool = a.pool
  <2>1. b = [a EXCEPT !.minimized = m, !.wasfloat = f] /\ m \subseteq Views /\ f \subseteq Views
    BY <1>2, Fields
  <2> HIDE DEF m, f, b
  <2> QED
    BY <1>2, <2>1 DEF States, Still
<1>5. v \in a.scratch => v \in f
  BY DEF IsFloating
<1>6. w \in Workspaces \union {NIL} /\ p \in Columns \union {NIL}
  BY <1>0, <1>2, Fields, Names
<1> HIDE DEF b
<1>7. Flags(a, b, v)
  <2>1. \A y \in Containers : y # v => (y \in m <=> y \in a.minimized) /\ (y \in f <=> y \in a.wasfloat)
    OBVIOUS
  <2> HIDE DEF m, f
  <2> QED
    BY <1>3, <1>4, <1>5, <2>1 DEF Flags, Wired
<1>8. v \in b.minimized
  BY <1>4
<1>11. Sound(b)
  <2>1. Sound(a)
    BY <1>2, SameKeeps DEF Keeps
  <2> QED
    BY <1>4, <2>1, SameSound
<1>12. ASSUME Stowed(t, {}), v \notin t.minimized, b.lost = {}
       PROVE  Stowed(b, {v})
  <2>1. Stowed(a, {})
    BY <1>2, <1>4, <1>12 DEF Same, Kept
  <2>2. m \ {v} = a.minimized \ {}
    BY <1>2, <1>12 DEF Alike
  <2> HIDE DEF m
  <2> QED
    BY <1>4, <2>1, <2>2 DEF Stowed
<1> HIDE DEF m, f
<1>9. CASE w = NIL
  <2>1. p = NIL
    BY <1>3, <1>9, InAColumnOn
  <2>2. Wired(b, {} \union {v}, {})
    BY <1>3, <1>4, <1>7, <1>9, <2>1, SetAside
  <2>3. Wired(b, ({} \union {v}) \ {v}, {})
    <3>1. b.ws[v] = NIL /\ v \in {} \union {v}
      BY <1>4, <1>9 DEF Still
    <3> QED
      BY <1>0, <1>8, <2>2, <3>1, Settled
  <2>4. ({} \union {v}) \ {v} = {}
    OBVIOUS
  <2>5. d = b
    BY <1>9, <2>1 DEF Reap
  <2>6. v \notin t.minimized => v \in b.scratch
    <3>1. v \notin t.minimized => v \in a.scratch
      BY <1>2, <1>3, <1>9, <2>1 DEF Wired, PutAway, Alike
    <3> QED
      BY <1>4, <3>1
  <2>7. v \notin t.minimized /\ Stowed(b, {v}) => Stowed(b, {})
    BY <2>6 DEF Stowed
  <2> QED
    BY <1>1, <1>9, <1>12, <2>3, <2>4, <2>5, <2>7
<1>10. CASE w # NIL
  <2>1. Wired(x, {} \union {v}, {} \union {p}) /\ Rest(b, x) /\ x.ws[v] = NIL
    BY <1>3, <1>4, <1>7, DetachedWired
  <2>2. d = Reap(x, p)
    BY <1>10
  <2>12. Keeps(b, x)
    BY <1>0, <1>4, <1>11, DetachType, SameKeeps
  <2> HIDE DEF x, p
  <2>3. Wired(x, ({} \union {v}) \ {v}, {} \union {p})
    <3>1. v \in {} \union {v} /\ v \in x.minimized
      BY <1>8, <2>1 DEF Rest
    <3> QED
      BY <1>0, <2>1, <3>1, Settled
  <2>4. Wired(x, {}, {p})
    <3>1. {} = ({} \union {v}) \ {v} /\ {} \union {p} \subseteq {p} \union {NIL}
      OBVIOUS
    <3> QED
      BY <2>3, <3>1, Tidy
  <2>13. Keeps(b, d)
    BY <2>2, <2>12, ReapKeeps, KeepsTwice DEF Keeps
  <2> HIDE DEF d
  <2>5. Wired(d, {p} \ {p}, {p} \ {p}) /\ Tidied(x, d, p)
    <3>1. {p} \ {p} = {} /\ p \notin {}
      OBVIOUS
    <3> QED
      BY <1>6, <2>2, <2>4, <3>1, ReapWired
  <2>6. Wired(d, {}, {})
    <3>1. {p} \ {p} = {}
      OBVIOUS
    <3> QED
      BY <2>5, <3>1
  <2>7. d \in States
    BY <2>6 DEF Wired
  <2> DEFINE k == [d.pool EXCEPT ![w] = @ \union {v}]
             l == [d.alive EXCEPT ![w] = IF @ = "no" THEN "dying" ELSE @]
  <2>8. k \in [Workspaces -> SUBSET Views] /\ e = [d EXCEPT !.pool = k, !.alive = l]
    BY <2>7 DEF States
  <2>9. /\ l \in [Workspaces -> {"no", "live", "dying"}]
        /\ \A y \in Workspaces : /\ l[y] = IF y = w /\ d.alive[y] = "no" THEN "dying" ELSE d.alive[y]
                                 /\ k[y] = IF y = w THEN d.pool[y] \union {v} ELSE d.pool[y]
    BY <2>7 DEF States
  <2> HIDE DEF k, l, e
  <2>10. /\ e \in States /\ Still(d, e) /\ e.live = d.live /\ e.scratch = d.scratch
         /\ e.minimized = d.minimized /\ e.wasfloat = d.wasfloat /\ e.alive = l
         /\ e.lost = d.lost /\ e.crash = d.crash /\ e.on = d.on /\ e.pool = k
    BY <2>7, <2>8, <2>9 DEF States, Still
  <2>11. Wired(e, {}, {})
    <3>1. d.lost \subseteq e.lost /\ e.crash # "destroyed twice"
      BY <2>6, <2>10 DEF Wired
    <3>2. \A y \in Workspaces : e.alive[y] = IF y = w /\ d.alive[y] = "no" THEN "dying" ELSE d.alive[y]
      BY <2>9, <2>10
    <3>3. \A y \in Workspaces : d.alive[y] = "live" => e.alive[y] = "live"
      BY <3>2
    <3>4. /\ e \in States /\ Still(d, e) /\ e.live = d.live /\ e.scratch = d.scratch
          /\ e.minimized = d.minimized /\ e.wasfloat = d.wasfloat
      BY <2>10
    <3> QED
      BY <2>6, <3>1, <3>3, <3>4, StillWired, ZenonT(40)
  <2>14. v \in d.minimized
    <3>1. v # p /\ v \in x.minimized
      BY <1>6, <1>8, <2>1, Names DEF Rest
    <3> QED
      BY <1>0, <2>5, <3>1 DEF Tidied, Beside
  <2>15. ASSUME Stowed(t, {}), v \notin t.minimized, e.lost = {}
         PROVE  Stowed(e, {})
    <3>1. Stowed(d, {v})
      BY <1>12, <2>10, <2>13, <2>15 DEF Keeps, Kept
    <3>2. w \in Workspaces
      BY <1>6, <1>10
    <3>3. \A y \in Workspaces : /\ e.on[y] = d.on[y]
                                /\ y # w => e.pool[y] = d.pool[y] /\ e.alive[y] = d.alive[y]
      BY <2>9, <2>10
    <3>4. /\ e.pool[w] = d.pool[w] \union {v}
          /\ e.alive[w] # "no"
          /\ d.alive[w] = "live" => e.alive[w] = "live"
      BY <2>9, <2>10, <3>2
    <3>5. /\ \A y \in Workspaces : v \in d.pool[y] => d.on[y] = NIL
          /\ e.minimized = d.minimized /\ e.scratch = d.scratch
      BY <2>10, <3>1 DEF Stowed
    <3>6. \A y \in Workspaces : e.on[y] # NIL => e.alive[y] = "live" /\ e.pool[y] \subseteq e.minimized \ {}
      BY <2>14, <3>1, <3>3, <3>4, <3>5 DEF Stowed
    <3>7. \A y, z \in Workspaces : e.on[y] # NIL /\ e.on[z] # NIL /\ y # z => e.pool[y] \intersect e.pool[z] = {}
      BY <3>1, <3>3, <3>4, <3>5 DEF Stowed
    <3>8. \A y \in Workspaces : e.alive[y] = "no" => e.pool[y] = {}
      BY <3>1, <3>3, <3>4 DEF Stowed
    <3>9. \A z \in e.minimized \ {} : z \in e.scratch \/ \E y \in Workspaces : z \in e.pool[y]
      BY <3>1, <3>2, <3>3, <3>4, <3>5 DEF Stowed
    <3> QED
      BY <3>6, <3>7, <3>8, <3>9 DEF Stowed
  <2> QED
    BY <1>1, <1>10, <2>11, <2>15
<1> QED
  BY <1>9, <1>10

LEMMA ScratchpadShowWired ==
    ASSUME NEW t, Sound(t), Wired(t, {}, {}), NEW v \in t.scratch
    PROVE  LET u == ScratchpadShow(t, v)
           IN  /\ Wired(u, {}, {}) /\ Beside(t, u, v) /\ u.scratch = t.scratch
               /\ t.ws[v] = NIL => u.alive = t.alive
<1> DEFINE w == FocusedWs(t)
           old == t.ws[v]
           x == DisableIf(t, t.fs[w])
           a == DisableIf(x, t.gfs)
           d == DetachIf(a, v)
           e == AddFloating(d, w, v)
           b == FocusView(e, v)
           u == ScratchpadShow(t, v)
<1>0. t \in States /\ v \in Views /\ v \in Containers /\ t.parent[v] = NIL /\ v \in t.live
  <2>1. t \in States
    BY DEF Wired
  <2>2. v \in Views /\ v \in Containers
    BY <2>1, Fields, Names
  <2> QED
    BY <2>1, <2>2 DEF Wired, PutAway
<1>1. old \in Workspaces \union {NIL} /\ t.gfs \in Views \union {NIL}
  BY <1>0 DEF States
<1>2. u = IF w = NIL THEN t ELSE IF old = NIL THEN b ELSE WorkspaceConsiderDestroy(b, old)
  BY DEF ScratchpadShow
<1>3. CASE w = NIL
  <2>1. u = t
    BY <1>2, <1>3
  <2>2. Beside(t, t, v)
    BY DEF Beside
  <2> QED
    BY <2>1, <2>2
<1>4. CASE w # NIL
  <2>1. w \in Workspaces /\ t.alive[w] = "live" /\ Active(t, t.on[w]) = w
    BY <1>4, FocusedActive
  <2> HIDE DEF w
  <2>2. t.fs[w] \in Views \union {NIL}
    BY <1>0, <2>1 DEF States
  <2>3. x \in States /\ Alike(t, x) /\ Same(t, x)
    BY <1>0, <2>2, DisableIfAlike, DisableIfType
  <2> HIDE DEF x
  <2>4. a \in States /\ Alike(x, a) /\ Same(x, a)
    BY <1>1, <2>3, DisableIfAlike, DisableIfType
  <2> HIDE DEF a
  <2>5. Alike(t, a) /\ Same(t, a)
    BY <2>3, <2>4, AlikeTwice, SameTwice
  <2>6. Wired(a, {}, {}) /\ a.parent[v] = NIL
    BY <1>0, <2>4, <2>5, AlikeWired DEF Alike
  <2>7. /\ Wired(d, {} \union {v}, {} \union {NIL}) /\ Out(a, v, d) /\ Rest(a, d)
        /\ d.parent[v] = NIL /\ d.ws[v] = NIL
    BY <1>0, <2>6, DetachIfWired
  <2>8. d \in States /\ Same(a, d)
    BY <1>0, <2>4, DetachIfType
  <2>9. Beside(t, d, v) /\ d.scratch = t.scratch /\ d.alive = t.alive /\ v \in d.live
    <3>1. \A y \in Containers : a.parent[y] # v
      BY <1>0, <2>4, NoChildren
    <3> QED
      BY <1>0, <2>5, <2>7, <3>1 DEF Alike, Beside, Out, Rest
  <2> HIDE DEF d
  <2>10. /\ Wired(e, ({} \union {v}) \ {v}, ({} \union {NIL}) \union {NIL})
         /\ e.parent[v] = NIL /\ e.ws[v] = w
         /\ Beside(d, e, v) /\ e.scratch = d.scratch /\ e.alive = d.alive
    BY <1>0, <2>1, <2>7, <2>9, AddFloatingWired
  <2>11. e \in States /\ Same(d, e)
    BY <1>0, <2>1, <2>8, AddFloatingType
  <2> HIDE DEF e
  <2>12. Wired(e, {}, {})
    <3>1. {} = ({} \union {v}) \ {v} /\ ({} \union {NIL}) \union {NIL} \subseteq {} \union {NIL}
      OBVIOUS
    <3> QED
      BY <2>10, <3>1, Tidy
  <2>13. Sound(e) /\ Active(e, e.on[w]) = w
    <3>1. Same(t, e)
      BY <2>5, <2>8, <2>11, SameTwice
    <3>2. Active(e, e.on[w]) = Active(t, t.on[w])
      <4>1. e.on = t.on /\ e.recent = t.recent /\ e.alive = t.alive
        BY <3>1 DEF Same
      <4> QED
        BY <4>1 DEF Active, On
    <3> QED
      BY <2>1, <2>11, <3>1, <3>2, SameKeeps DEF Keeps
  <2>14. Beside(t, e, v) /\ e.scratch = t.scratch /\ e.alive = t.alive
    BY <2>9, <2>10 DEF Beside
  <2>15. /\ Wired(b, {}, {}) /\ Still(e, b) /\ b.live = e.live /\ b.scratch = e.scratch
         /\ b.minimized = e.minimized /\ b.wasfloat = e.wasfloat /\ b.alive = e.alive
    BY <1>0, <2>10, <2>12, <2>13, FocusViewWired
  <2> HIDE DEF b
  <2>16. Beside(t, b, v) /\ b.scratch = t.scratch /\ b.alive = t.alive
    BY <2>14, <2>15 DEF Beside, Still
  <2>17. CASE old = NIL
    BY <1>2, <1>4, <2>15, <2>16, <2>17
  <2>18. CASE old # NIL
    <3>1. old \in Workspaces /\ b.alive[old] = "live"
      <4>1. t.parent[v] = NIL \/ t.parent[v] \notin {}
        OBVIOUS
      <4>2. old \in Workspaces /\ t.alive[old] = "live"
        BY <1>0, <2>18, <4>1, OnTheLiving
      <4> QED
        BY <2>16, <4>2
    <3> DEFINE y == WorkspaceConsiderDestroy(b, old)
    <3>2. /\ Wired(y, {}, {}) /\ Still(b, y) /\ y.live = b.live /\ y.scratch = b.scratch
          /\ y.minimized = b.minimized /\ y.wasfloat = b.wasfloat
      BY <2>15, <3>1, ConsiderWired
    <3>3. u = y
      BY <1>2, <1>4, <2>18
    <3> HIDE DEF y, u
    <3>4. Beside(t, y, v)
      BY <2>16, <3>2 DEF Beside, Still
    <3> QED
      BY <2>16, <2>18, <3>2, <3>3, <3>4 DEF old, u
  <2> QED
    BY <2>17, <2>18
<1> QED
  BY <1>3, <1>4

LEMMA MinimizedShowWired ==
    ASSUME NEW t, Sound(t), Roomy(t), Wired(t, {}, {}), NEW v \in Views, v \in t.minimized, v \in t.live,
           NEW w \in Workspaces, t.alive[w] = "live", NEW i \in Nat \ {0}
    PROVE  Wired(MinimizedShow(t, v, w, i), {}, {})
<1> DEFINE old == Owner(t, v)
           a == PoolRemove(t, v)
           x == DisableIf(a, a.fs[w])
           b == DisableIf(x, a.gfs)
           d == IF v \in t.wasfloat THEN AddFloating(b, w, v) ELSE AddTiling(b, w, v, i)
           e == FocusView(d, v)
<1>0. t \in States /\ v \in Containers /\ old \in Workspaces \union {NIL}
  BY OwnerType, Names DEF Wired
<1>1. MinimizedShow(t, v, w, i) =
        IF old = NIL \/ old = w \/ e.alive[old] # "live" THEN e ELSE WorkspaceConsiderDestroy(e, old)
  BY DEF MinimizedShow, PoolLeft
<1>2. /\ a \in States /\ a.parent = t.parent /\ a.ws = t.ws /\ a.kids = t.kids
      /\ a.tiling = t.tiling /\ a.floating = t.floating
      /\ a.live = t.live /\ a.scratch = t.scratch
      /\ a.minimized = t.minimized \ {v} /\ a.wasfloat = t.wasfloat \ {v}
      /\ a.alive = t.alive /\ a.lost = t.lost /\ a.crash = t.crash
      /\ Same(t, a)
  BY <1>0, PoolRemoveFields, PoolRemoveType
<1> HIDE DEF a, old
<1>3. t.parent[v] = NIL /\ t.ws[v] = NIL /\ (v \in t.scratch => v \in t.wasfloat)
  BY DEF Wired, PutAway
<1>4. Wired(a, {} \union {v}, {})
  <2>1. Still(t, a)
    BY <1>2 DEF Still
  <2>2. Flags(t, a, v)
    BY <1>2 DEF Flags, Wired
  <2> QED
    BY <1>2, <1>3, <2>1, <2>2, SetAside
<1>5. a.fs[w] \in Views \union {NIL} /\ a.gfs \in Views \union {NIL}
  BY <1>2 DEF States
<1>6. x \in States /\ Alike(a, x) /\ Same(a, x)
  BY <1>2, <1>5, DisableIfAlike, DisableIfType
<1> HIDE DEF x
<1>7. b \in States /\ Alike(x, b) /\ Same(x, b)
  BY <1>5, <1>6, DisableIfAlike, DisableIfType
<1> HIDE DEF b
<1>8. Alike(a, b) /\ Same(t, b)
  BY <1>2, <1>6, <1>7, AlikeTwice, SameTwice
<1>9. Wired(b, {v}, {})
  <2>1. {} \union {v} = {v}
    OBVIOUS
  <2> QED
    BY <1>4, <1>7, <1>8, <2>1, AlikeWired
<1>10. /\ b.parent[v] = NIL /\ b.ws[v] = NIL /\ v \in b.live /\ b.alive[w] = "live" /\ b.scratch = t.scratch
       /\ Roomy(b)
  BY <1>2, <1>3, <1>8 DEF Alike, Roomy
<1>11. Sound(b)
  BY <1>7, <1>8, SameKeeps DEF Keeps
<1>12. Wired(d, {}, {}) /\ Sound(d)
  <2>1. CASE v \in t.wasfloat
    <3> DEFINE y == AddFloating(b, w, v)
    <3>1. Wired(y, {v} \ {v}, {} \union {NIL})
      BY <1>9, <1>10, AddFloatingWired
    <3>2. Sound(y)
      BY <1>11, AddFloatingType, SameKeeps DEF Sound, Keeps
    <3>3. d = y
      BY <2>1
    <3> HIDE DEF y, d
    <3>4. {} = {v} \ {v} /\ {} \union {NIL} \subseteq {} \union {NIL}
      OBVIOUS
    <3> QED
      BY <3>1, <3>2, <3>3, <3>4, Tidy
  <2>2. CASE v \notin t.wasfloat
    <3> DEFINE y == AddTiling(b, w, v, i)
    <3>1. Wired(y, {}, {})
      BY <1>3, <1>9, <1>10, <2>2, AddTilingWired
    <3>2. Sound(y)
      BY <1>0, <1>10, <1>11, AddTilingSound
    <3> QED
      BY <2>2, <3>1, <3>2
  <2> QED
    BY <2>1, <2>2
<1> HIDE DEF d
<1>13. Wired(e, {}, {})
  BY <1>12, FocusViewWired
<1> HIDE DEF e
<1> QED
  BY <1>0, <1>1, <1>13, ConsiderWired

-----------------------------------------------------------------------------
(* Windows move.                                                           *)
LEMMA MoveToWorkspaceWired ==
    ASSUME NEW t, Wired(t, {}, {}), Roomy(t), NEW v \in Views, v \in t.live,
           NEW w \in Workspaces, t.alive[w] = "live", NEW i \in Nat \ {0}
    PROVE  LET u == MoveToWorkspace(t, v, w, i)
           IN  Wired(u, {}, {t.parent[v]}) /\ u.alive = t.alive
<1> DEFINE p == t.parent[v]
           a == Detach(t, v)
<1>0. v \in Containers
  BY Names
<1>1. MoveToWorkspace(t, v, w, i) =
        IF t.ws[v] = w THEN t
        ELSE IF IsFloating(t, v) THEN AddFloating(a, w, v) ELSE AddTiling(a, w, v, i)
  BY DEF MoveToWorkspace
<1>2. Wired(a, {} \union {v}, {} \union {p}) /\ Rest(t, a) /\ a.parent[v] = NIL /\ a.ws[v] = NIL
  BY <1>0, DetachWired
<1> HIDE DEF a, p
<1>3. Wired(a, {v}, {p})
  <2>1. {v} = {} \union {v} /\ {} \union {p} \subseteq {p} \union {NIL}
    OBVIOUS
  <2> QED
    BY <1>2, <2>1, Tidy
<1>4. v \in a.live /\ a.alive = t.alive /\ a.scratch = t.scratch /\ Roomy(a)
  BY <1>2 DEF Rest, Roomy
<1>5. CASE t.ws[v] = w
  <2>1. {} = {} /\ {} \subseteq {p} \union {NIL}
    OBVIOUS
  <2>2. Wired(t, {}, {p})
    BY <2>1, Tidy
  <2> QED
    BY <1>1, <1>5, <2>2 DEF p
<1>6. CASE t.ws[v] # w /\ IsFloating(t, v)
  <2> DEFINE u == AddFloating(a, w, v)
  <2>1. Wired(u, {v} \ {v}, {p} \union {NIL}) /\ u.alive = a.alive
    BY <1>2, <1>3, <1>4, AddFloatingWired
  <2>2. MoveToWorkspace(t, v, w, i) = u
    BY <1>1, <1>6
  <2> HIDE DEF u
  <2>3. {} = {v} \ {v} /\ {p} \union {NIL} \subseteq {p} \union {NIL}
    OBVIOUS
  <2>4. Wired(u, {}, {p})
    BY <2>1, <2>3, Tidy
  <2> QED
    BY <1>4, <2>1, <2>2, <2>4 DEF p
<1>7. CASE t.ws[v] # w /\ ~IsFloating(t, v)
  <2>1. v \notin t.scratch
    BY <1>7 DEF IsFloating
  <2>2. LET u == AddTiling(a, w, v, i) IN Wired(u, {}, {p}) /\ u.alive = a.alive
    BY <1>2, <1>3, <1>4, <2>1, AddTilingWired
  <2> QED
    BY <1>1, <1>4, <1>7, <2>2 DEF p
<1> QED
  BY <1>5, <1>6, <1>7

LEMMA MoveToContainerWired ==
    ASSUME NEW t, Wired(t, {}, {}), Roomy(t), NEW v \in Views, v \in t.live,
           v \notin t.minimized \/ v \in t.scratch, NEW x \in Views,
           t.ws[x] \in Workspaces, t.alive[t.ws[x]] = "live", NEW i \in Nat \ {0}
    PROVE  LET u == MoveToContainer(t, v, x, i)
           IN  Wired(u, {}, {t.parent[v]}) /\ u.alive = t.alive
<1> DEFINE p == t.parent[v]
           a == Detach(t, v)
<1>0. v \in Containers /\ x \in Containers /\ t \in States
  BY Names DEF Wired
<1>1. MoveToContainer(t, v, x, i) =
        IF v = x THEN t
        ELSE IF IsFloating(t, v) THEN MoveToWorkspace(t, v, t.ws[x], i) ELSE AddSibling(a, x, v)
  BY DEF MoveToContainer
<1>2. /\ Wired(a, {} \union {v}, {} \union {p}) /\ Rest(t, a) /\ Out(t, v, a)
      /\ a.parent[v] = NIL /\ a.ws[v] = NIL
  BY <1>0, DetachWired
<1> HIDE DEF a
<1>5. CASE v = x
  <2>1. {} = {} /\ {} \subseteq {p} \union {NIL}
    OBVIOUS
  <2>2. Wired(t, {}, {p})
    BY <2>1, Tidy
  <2> QED
    BY <1>1, <1>5, <2>2
<1>6. CASE v # x /\ IsFloating(t, v)
  BY <1>1, <1>6, MoveToWorkspaceWired
<1>7. CASE v # x /\ ~IsFloating(t, v)
  <2> DEFINE u == AddSibling(a, x, v)
  <2>1. v \notin t.scratch /\ v \notin t.minimized
    BY <1>7 DEF IsFloating
  <2>2. v \in a.live /\ v \notin a.scratch /\ v \notin a.minimized /\ a.alive = t.alive
    BY <1>2, <2>1 DEF Rest
  <2>3. a.ws[x] = t.ws[x] /\ a.parent[x] = t.parent[x]
    <3>1. t.parent[x] # v
      BY <1>0, NoChildren
    <3> QED
      BY <1>0, <1>2, <1>7, <3>1 DEF Out
  <2>4. a.ws[x] # NIL /\ x \notin {v} /\ a.parent[x] \notin {v}
    <3>1. t.parent[x] # v
      BY <1>0, NoChildren
    <3> QED
      BY <1>7, <2>3, <3>1, Names
  <2>5. Wired(a, {v}, {p})
    <3>1. {v} = {} \union {v} /\ {} \union {p} \subseteq {p} \union {NIL}
      OBVIOUS
    <3> QED
      BY <1>2, <3>1, Tidy
  <2>6. Wired(u, {v} \ {v}, {p} \union {NIL}) /\ Rest(a, u)
    <3> DEFINE Y == {v}
               D == {p}
    <3>1. Wired(a, Y, D) /\ x \notin Y /\ a.parent[x] \notin Y /\ a.ws[x] # NIL /\ x # v
      BY <1>7, <2>4, <2>5
    <3>2. a.parent[v] = NIL /\ a.ws[v] = NIL
      BY <1>2
    <3> HIDE DEF Y, D, p
    <3>3. Wired(u, Y \ {v}, D \union {NIL}) /\ Rest(a, u)
      BY <1>0, <2>2, <3>1, <3>2, AddSiblingWired
    <3> QED
      BY <3>3 DEF Y, D
  <2> HIDE DEF p
  <2>7. MoveToContainer(t, v, x, i) = u
    BY <1>1, <1>7
  <2> HIDE DEF u
  <2>8. {} = {v} \ {v} /\ {p} \union {NIL} \subseteq {p} \union {NIL}
    OBVIOUS
  <2>9. Wired(u, {}, {p})
    BY <2>6, <2>8, Tidy
  <2>10. u.alive = t.alive
    BY <2>2, <2>6 DEF Rest
  <2> QED
    BY <2>7, <2>9, <2>10 DEF p
<1> QED
  BY <1>5, <1>6, <1>7

LEMMA CreateWired ==
    ASSUME NEW t, NEW X, NEW E, Wired(t, X, E), NEW o, NEW w \in Free(t), WorkspaceCreate(t, o, w) \in States
    PROVE  LET u == WorkspaceCreate(t, o, w)
           IN  /\ Wired(u, X, E) /\ Still(t, u) /\ u.live = t.live /\ u.scratch = t.scratch
               /\ u.minimized = t.minimized /\ u.pool = t.pool /\ u.alive[w] = "live"
               /\ \A y \in Workspaces : t.alive[y] = "live" => u.alive[y] = "live"
<1> DEFINE a == [t.alive EXCEPT ![w] = "live"]
           n == [t.on EXCEPT ![w] = o]
           p == [t.prio EXCEPT ![w] = <<o>>]
           r == Append(t.recent, w)
           u == WorkspaceCreate(t, o, w)
<1>0. t \in States /\ w \in Workspaces
  BY DEF Wired, Free
<1>1. u = [t EXCEPT !.alive = a, !.on = n, !.prio = p, !.recent = r]
  BY <1>0 DEF WorkspaceCreate, States
<1>2. a[w] = "live" /\ \A y \in Workspaces : t.alive[y] = "live" => a[y] = "live"
  BY <1>0 DEF States
<1> HIDE DEF a, n, p, r
<1>3. /\ Still(t, u) /\ u.live = t.live /\ u.scratch = t.scratch /\ u.minimized = t.minimized
      /\ u.pool = t.pool /\ u.wasfloat = t.wasfloat /\ u.lost = t.lost /\ u.crash = t.crash /\ u.alive = a
  BY <1>0, <1>1 DEF States, Still
<1> HIDE DEF u
<1>4. Wired(u, X, E)
  <2>1. u \in States
    BY DEF u
  <2>2. t.lost \subseteq u.lost /\ u.crash # "destroyed twice"
    BY <1>3 DEF Wired
  <2> QED
    BY <1>2, <1>3, <2>1, <2>2, StillWired
<1> QED
  BY <1>2, <1>3, <1>4 DEF u

-----------------------------------------------------------------------------
(* The steps on windows.                                                   *)
LEMMA MapWired ==
    ASSUME Sound(s), Roomy(s), Wired(s, {}, {}), NEW v \in Views, NEW w \in Workspaces,
           NEW float \in BOOLEAN, NEW full \in BOOLEAN, Map(v, w, float, full)
    PROVE  Wired(s', {}, {})
<1> DEFINE a == [s EXCEPT !.live = @ \union {v}, !.mode[v] = "none", !.parent[v] = NIL, !.ws[v] = NIL]
           l == s.live \union {v}
           m == [s.mode EXCEPT ![v] = "none"]
           d(i) == IF float THEN AddFloating(a, w, v) ELSE AddTiling(a, w, v, i)
<1>0. s \in States /\ v \in Containers /\ v \notin Columns
  BY Names DEF Wired
<1>1. PICK i \in Positions(s, w) : s' = IF full THEN Fullscreen(d(i), v, "workspace") ELSE d(i)
  BY DEF Map, Becomes
<1>2. v \notin s.live /\ s.alive[w] = "live"
  BY DEF Map, Mapped, Live
<1>3. s.parent[v] = NIL /\ s.ws[v] = NIL /\ v \notin s.scratch
  BY <1>0, <1>2 DEF Wired, Pointers, PutAway
<1>4. /\ a \in States /\ a.live = l /\ a.parent = s.parent /\ a.ws = s.ws /\ a.kids = s.kids
      /\ a.tiling = s.tiling /\ a.floating = s.floating /\ a.scratch = s.scratch
      /\ a.minimized = s.minimized /\ a.wasfloat = s.wasfloat /\ a.alive = s.alive
      /\ a.lost = s.lost /\ a.crash = s.crash
  <2>1. /\ s.parent \in [Containers -> Columns \union {NIL}]
        /\ s.ws \in [Containers -> Workspaces \union {NIL}]
        /\ s.mode \in [Views -> Modes]
    BY <1>0 DEF States
  <2>2. [s.parent EXCEPT ![v] = NIL] = s.parent /\ [s.ws EXCEPT ![v] = NIL] = s.ws
    BY <1>0, <1>3, <2>1, ExceptSame
  <2>3. a = [s EXCEPT !.live = l, !.mode = m, !.parent = [s.parent EXCEPT ![v] = NIL], !.ws = [s.ws EXCEPT ![v] = NIL]]
    BY <1>0 DEF States
  <2>4. a = [s EXCEPT !.live = l, !.mode = m, !.parent = s.parent, !.ws = s.ws]
    BY <2>2, <2>3
  <2>5. l \subseteq Containers /\ m \in [Views -> Modes]
    BY <1>0, <2>1, Fields DEF Modes
  <2> HIDE DEF l, m, a
  <2> QED
    BY <1>0, <2>4, <2>5 DEF States
<1> HIDE DEF a
<1>5. Wired(a, {v}, {})
  <2>1. Wired(s, {v}, {})
    <3>1. {} \union {v} = {v}
      OBVIOUS
    <3>2. Wired(s, {} \union {v}, {})
      BY <1>0, <1>3, Unsettled
    <3> QED
      BY <3>1, <3>2
  <2>2. Listed(a, {v})
    <3>1. Listed(s, {v}) /\ a.scratch \subseteq s.scratch
      BY <1>4, <2>1 DEF Wired
    <3> QED
      BY <1>4, <3>1, ListedSame
  <2>3. Pointers(a, {v})
    BY <1>4, <2>1 DEF Wired, Pointers
  <2>4. PutAway(a, {v})
    BY <1>4, <2>1 DEF Wired, PutAway
  <2>5. Filled(a, {}) /\ a.crash # "destroyed twice"
    BY <1>0, <1>4, <2>1 DEF Wired, Filled
  <2> QED
    BY <1>4, <2>2, <2>3, <2>4, <2>5 DEF Wired
<1>6. v \in a.live /\ a.parent[v] = NIL /\ a.ws[v] = NIL /\ v \notin a.scratch /\ a.alive[w] = "live"
  BY <1>2, <1>3, <1>4
<1>7. Roomy(a)
  BY <1>0, <1>4 DEF Roomy
<1>8. i \in Nat \ {0}
  BY PositionsType
<1> DEFINE e == d(i)
<1>9. Wired(e, {}, {})
  <2>1. Wired(AddFloating(a, w, v), {v} \ {v}, {} \union {NIL})
    BY <1>5, <1>6, AddFloatingWired
  <2>2. {} = {v} \ {v} /\ {} \union {NIL} \subseteq {} \union {NIL}
    OBVIOUS
  <2>3. Wired(AddFloating(a, w, v), {}, {})
    BY <2>1, <2>2, Tidy
  <2>4. Wired(AddTiling(a, w, v, i), {}, {})
    BY <1>5, <1>6, <1>7, <1>8, AddTilingWired
  <2> QED
    BY <2>3, <2>4
<1>10. s' = IF full THEN Fullscreen(e, v, "workspace") ELSE e
  BY <1>1
<1> HIDE DEF d, e
<1>11. Wired(Fullscreen(e, v, "workspace"), {}, {})
  BY <1>9, FullscreenAlike, AlikeWired DEF Wired, Modes
<1> QED
  BY <1>9, <1>10, <1>11

LEMMA UnmapWired ==
    ASSUME Sound(s), Wired(s, {}, {}), NEW v \in Views, Unmap(v)
    PROVE  Wired(s', {}, {})
<1> DEFINE p == s.parent[v]
           w == s.ws[v]
           a == ContainerBeginDestroy(s, v)
           b == LeftBehind(a, p, w)
<1>0. /\ s \in States /\ v \in Containers /\ w \in Workspaces \union {NIL} /\ p \in Columns \union {NIL}
  BY DEF Sound, States, Containers
<1>1. s' = b \/ \E x \in Views : s' = FocusView(b, x)
  BY DEF Unmap, FocusNext, BecomesOneOf
<1>2. Keeps(s, a)
  BY <1>0, ContainerBeginDestroyType, SameKeeps DEF Sound
<1>3. Wired(a, {} \ {v}, {} \union {p}) /\ a.alive = s.alive
  <2>1. \A x \in Views : s.parent[x] # v
    BY <1>0, NoChildren, Names
  <2> QED
    BY <1>0, <2>1, DestroyWired
<1>4. p = NIL /\ w # NIL => a.alive[w] = "live"
  <2>1. SUFFICES ASSUME p = NIL, w # NIL PROVE s.alive[w] = "live"
    BY <1>3
  <2>2. v \notin {} /\ (s.parent[v] = NIL \/ s.parent[v] \notin {})
    OBVIOUS
  <2> QED
    BY <1>0, <2>1, <2>2, OnTheLiving
<1> HIDE DEF a, p, w
<1>5. Wired(a, {}, {p})
  <2>1. {} = {} \ {v} /\ {} \union {p} \subseteq {p} \union {NIL}
    OBVIOUS
  <2> QED
    BY <1>3, <2>1, Tidy
<1>6. Sound(b)
  BY <1>0, <1>2, LeftBehindKeeps DEF Keeps
<1>7. Wired(b, {}, {p} \ {p})
  BY <1>0, <1>4, <1>5, LeftBehindWired
<1>8. Wired(b, {}, {})
  <2>1. {p} \ {p} = {}
    OBVIOUS
  <2> QED
    BY <1>7, <2>1
<1> HIDE DEF b
<1> QED
  BY <1>1, <1>6, <1>8, FocusViewWired

LEMMA SetFloatingWired ==
    ASSUME Wired(s, {}, {}), Roomy(s), NEW v \in Views, SetFloating(v)
    PROVE  Wired(s', {}, {})
<1> DEFINE n == Len(s.tiling[s.ws[v]]) + 1
<1>1. /\ s.ws[v] # NIL
      /\ \/ IsFloating(s, v) /\ \E i \in 1..n : s' = FloatingDisable(s, v, i)
         \/ s' = FloatingEnable(s, v)
  BY DEF SetFloating, Becomes, InTree
<1>2. \A i \in 1..n : i \in Nat \ {0}
  <2>1. s.ws[v] \in Workspaces
    BY <1>1 DEF Wired, States, Containers
  <2>2. s.tiling[s.ws[v]] \in Seq(Containers)
    BY <2>1 DEF Wired, States
  <2>3. n \in Nat
    BY <2>2
  <2> QED
    BY <2>3
<1> HIDE DEF n
<1>3. IsFloating(s, v) => s.parent[v] = NIL
  BY DEF IsFloating, Floats, Wired, PutAway
<1> QED
  BY <1>1, <1>2, <1>3, FloatingDisableWired, FloatingEnableWired

LEMMA SetFullscreenWired ==
    ASSUME Sound(s), Wired(s, {}, {}), NEW v \in Views, NEW m \in Modes, SetFullscreen(v, m)
    PROVE  Wired(s', {}, {})
<1> DEFINE t == Fullscreen(s, v, m)
<1>1. s' \in {t, FocusView(t, v)}
  BY DEF SetFullscreen, BecomesOneOf
<1>2. Sound(t)
  BY FullscreenType, SameKeeps DEF Sound, Keeps
<1>3. Wired(t, {}, {})
  BY FullscreenAlike, AlikeWired DEF Wired
<1> HIDE DEF t
<1> QED
  BY <1>1, <1>2, <1>3, FocusViewWired

LEMMA MoveContainerWired ==
    ASSUME Sound(s), Roomy(s), Wired(s, {}, {}), NEW v \in Views, NEW w \in Workspaces, MoveContainer(v, w)
    PROVE  Wired(s', {}, {})
<1> DEFINE made == IF w \in Live THEN s ELSE WorkspaceCreate(s, s.on[FocusedWs(s)], w)
           a == IF Hidden(v) THEN ScratchpadShow(made, v) ELSE made
           p == s.parent[v]
           old == s.ws[v]
           Left(t) == LeftBehind(t, p, old)
<1>0. s \in States /\ v \in Containers /\ p \in Columns \union {NIL} /\ old \in Workspaces \union {NIL}
  BY DEF Sound, States, Containers
<1>1. /\ s.outs # <<>> /\ w \in Live \union Free(s) /\ v \in s.live /\ v \notin s.minimized
      /\ \/ \E i \in Positions(a, w) : s' = Left(MoveToWorkspace(a, v, w, i))
         \/ \E x \in ViewsOn(made, w) : \E i \in Positions(a, w) :
               s' = Left(MoveToContainer(a, v, x, i))
  BY DEF MoveContainer, Becomes, Mapped, Parked
<1>2. /\ Keeps(s, made) /\ Wired(made, {}, {}) /\ Still(s, made) /\ made.live = s.live
      /\ made.scratch = s.scratch /\ made.minimized = s.minimized /\ made.alive[w] = "live"
      /\ \A y \in Workspaces : s.alive[y] = "live" => made.alive[y] = "live"
  <2>1. CASE w \in Live
    <3>1. Keeps(s, s) /\ Still(s, s)
      BY DEF Keeps, Kept, Still
    <3> QED
      BY <2>1, <3>1 DEF Live
  <2>2. CASE w \notin Live
    <3> DEFINE y == WorkspaceCreate(s, s.on[FocusedWs(s)], w)
    <3>1. w \in Free(s) /\ made = y
      BY <1>1, <2>2
    <3>2. Keeps(s, y)
      BY <1>1, <3>1, CreateFocusedKeeps
    <3>3. y \in States
      BY <3>2 DEF Keeps, Sound
    <3>4. /\ Wired(y, {}, {}) /\ Still(s, y) /\ y.live = s.live /\ y.scratch = s.scratch
          /\ y.minimized = s.minimized /\ y.alive[w] = "live"
          /\ \A z \in Workspaces : s.alive[z] = "live" => y.alive[z] = "live"
      BY <3>1, <3>3, CreateWired
    <3> QED
      BY <3>1, <3>2, <3>4
  <2> QED
    BY <2>1, <2>2
<1>3. \A x \in ViewsOn(made, w) : x \in Views /\ made.ws[x] = w
  BY DEF ViewsOn
<1> HIDE DEF made
<1>4. Keeps(s, a)
  BY <1>2, ScratchpadShowKeeps, KeepsTwice DEF Keeps
<1>5. /\ Wired(a, {}, {}) /\ a.alive = made.alive
      /\ v \in a.live /\ (v \notin a.minimized \/ v \in a.scratch) /\ a.parent[v] = p
      /\ \A x \in Views : made.ws[x] = w => a.ws[x] = w
      /\ Hidden(v) => old = NIL
  <2>1. CASE Hidden(v)
    <3>1. v \in made.scratch /\ made.ws[v] = NIL /\ old = NIL /\ a = ScratchpadShow(made, v)
      BY <1>2, <2>1 DEF Hidden, Still
    <3>2. Sound(made)
      BY <1>2 DEF Keeps
    <3>3. /\ Wired(a, {}, {}) /\ Beside(made, a, v) /\ a.scratch = made.scratch /\ a.alive = made.alive
      BY <1>2, <3>1, <3>2, ScratchpadShowWired
    <3> HIDE DEF a
    <3>4. v \in a.scratch
      BY <3>1, <3>3
    <3>5. v \in a.live /\ a.parent[v] = NIL
      BY <3>3, <3>4 DEF Wired, PutAway
    <3>6. p = NIL
      BY <2>1 DEF Hidden, Wired, PutAway
    <3> QED
      BY <1>0, <1>3, <3>1, <3>3, <3>4, <3>5, <3>6, Names DEF Beside
  <2>2. CASE ~Hidden(v)
    BY <1>1, <1>2, <2>2 DEF Still
  <2> QED
    BY <2>1, <2>2
<1> HIDE DEF a
<1>6. Sound(a) /\ Roomy(a) /\ a.alive[w] = "live"
  BY <1>2, <1>4, <1>5 DEF Keeps, Roomy
<1>7. p = NIL /\ old # NIL => a.alive[old] = "live"
  <2>1. SUFFICES ASSUME p = NIL, old # NIL PROVE s.alive[old] = "live" /\ old \in Workspaces
    BY <1>2, <1>5
  <2>2. v \notin {} /\ (s.parent[v] = NIL \/ s.parent[v] \notin {})
    OBVIOUS
  <2> QED
    BY <1>0, <2>1, <2>2, OnTheLiving
<1> HIDE DEF p, old
<1>8. ASSUME NEW t, Wired(t, {}, {p}), t.alive = a.alive PROVE Wired(Left(t), {}, {})
  <2>1. Wired(Left(t), {}, {p} \ {p})
    BY <1>0, <1>7, <1>8, LeftBehindWired
  <2>2. {p} \ {p} = {}
    OBVIOUS
  <2> QED
    BY <2>1, <2>2
<1> HIDE DEF Left
<1>9. ASSUME NEW i \in Positions(a, w) PROVE Wired(Left(MoveToWorkspace(a, v, w, i)), {}, {})
  <2>1. i \in Nat \ {0}
    BY <1>6, PositionsType
  <2> QED
    BY <1>5, <1>6, <1>8, <2>1, MoveToWorkspaceWired
<1>10. ASSUME NEW x \in ViewsOn(made, w), NEW i \in Positions(a, w)
       PROVE  Wired(Left(MoveToContainer(a, v, x, i)), {}, {})
  <2>1. i \in Nat \ {0}
    BY <1>6, PositionsType
  <2>2. x \in Views /\ a.ws[x] = w
    BY <1>3, <1>5
  <2> QED
    BY <1>5, <1>6, <1>8, <2>1, <2>2, MoveToContainerWired
<1> QED
  BY <1>1, <1>9, <1>10

(* The same lists, in another order. *)
LEMMA Reordered ==
    ASSUME NEW t, NEW X, NEW E, Wired(t, X, E), NEW u \in States, Rest(t, u),
           u.parent = t.parent, u.ws = t.ws, u.floating = t.floating,
           \A p \in Columns : IsInjective(u.kids[p]) /\ Range(u.kids[p]) = Range(t.kids[p]),
           \A w \in Workspaces : IsInjective(u.tiling[w]) /\ Range(u.tiling[w]) = Range(t.tiling[w])
    PROVE  Wired(u, X, E)
<1>1. Listed(u, X)
  <2>0. Listed(t, X) /\ u.scratch = t.scratch
    BY DEF Wired, Rest
  <2>1. \A p \in Columns, v \in Views : v \in Range(u.kids[p]) <=> u.parent[v] = p
    <3>1. \A p \in Columns, v \in Views : v \in Range(t.kids[p]) <=> t.parent[v] = p
      BY <2>0 DEF Listed
    <3> QED
      BY <3>1
  <2>2. \A w \in Workspaces, c \in Containers :
          c \in Range(u.tiling[w]) \/ c \in u.floating[w] <=> c \notin X /\ u.parent[c] = NIL /\ u.ws[c] = w
    <3>1. \A w \in Workspaces, c \in Containers :
            c \in Range(t.tiling[w]) \/ c \in t.floating[w] <=> c \notin X /\ t.parent[c] = NIL /\ t.ws[c] = w
      BY <2>0 DEF Listed
    <3> QED
      BY <3>1
  <2>3. \A w \in Workspaces, v \in u.scratch : v \notin Range(u.tiling[w])
    <3>1. \A w \in Workspaces, v \in t.scratch : v \notin Range(t.tiling[w])
      BY <2>0 DEF Listed
    <3> QED
      BY <2>0, <3>1
  <2> QED
    BY <2>1, <2>2, <2>3 DEF Listed
<1>2. Pointers(u, X)
  BY DEF Wired, Rest, Pointers
<1>3. PutAway(u, X)
  BY DEF Wired, Rest, PutAway
<1>4. Filled(u, E) /\ u.crash # "destroyed twice"
  BY DEF Wired, Rest, Filled
<1> QED
  BY <1>1, <1>2, <1>3, <1>4 DEF Wired

LEMMA SwappedSame ==
    ASSUME NEW S, NEW q \in Seq(S), IsInjective(q), NEW i \in 1..Len(q), NEW j \in 1..Len(q)
    PROVE  LET r == Swapped(q, i, j)
           IN  r \in Seq(S) /\ Len(r) = Len(q) /\ Range(r) = Range(q) /\ IsInjective(r)
<1> DEFINE r == Swapped(q, i, j)
           At(k) == IF k = j THEN i ELSE IF k = i THEN j ELSE k
<1>0. Len(q) \in Nat /\ i \in Nat /\ j \in Nat
  OBVIOUS
<1>1. r \in Seq(S)
  BY SwappedType
<1>2. DOMAIN r = DOMAIN q /\ \A k \in DOMAIN q : r[k] = q[At(k)]
  BY DEF Swapped
<1>3. DOMAIN q = 1..Len(q) /\ DOMAIN r = 1..Len(r)
  BY <1>1
<1> HIDE DEF r
<1>4. Len(r) = Len(q)
  BY <1>1, <1>2, <1>3
<1>5. \A k \in 1..Len(q) : At(k) \in 1..Len(q) /\ At(At(k)) = k /\ r[k] = q[At(k)]
  BY <1>2, <1>3
<1>6. /\ \A x : x \in Range(q) <=> \E k \in 1..Len(q) : q[k] = x
      /\ \A x : x \in Range(r) <=> \E k \in 1..Len(q) : r[k] = x
  BY <1>1, <1>4, RangeSeq
<1>7. \A a, b \in 1..Len(q) : q[a] = q[b] => a = b
  BY <1>3 DEF IsInjective
<1> HIDE DEF At
<1>8. IsInjective(r)
  <2>1. \A a, b \in 1..Len(q) : r[a] = r[b] => At(a) = At(b)
    BY <1>5, <1>7
  <2>2. \A a, b \in 1..Len(q) : r[a] = r[b] => a = b
    BY <1>5, <2>1
  <2> QED
    BY <1>2, <1>3, <2>2 DEF IsInjective
<1>9. Range(r) = Range(q)
  <2>1. ASSUME NEW x \in Range(r) PROVE x \in Range(q)
    BY <1>5, <1>6
  <2>2. ASSUME NEW x \in Range(q) PROVE x \in Range(r)
    <3>1. PICK k \in 1..Len(q) : q[k] = x
      BY <1>6
    <3>2. At(k) \in 1..Len(q) /\ r[At(k)] = x
      <4>1. At(k) \in 1..Len(q) /\ At(At(k)) = k
        BY <1>5
      <4>2. r[At(k)] = q[At(At(k))]
        BY <1>5, <4>1
      <4> QED
        BY <3>1, <4>1, <4>2
    <3> QED
      BY <1>6, <3>2
  <2> QED
    BY <2>1, <2>2
<1> QED
  BY <1>1, <1>4, <1>8, <1>9 DEF r

(* Two columns of a workspace change places. *)
LEMMA TilingSwapped ==
    ASSUME NEW t, Wired(t, {}, {}), NEW w \in Workspaces, NEW i \in 1..Len(t.tiling[w]), NEW j \in 1..Len(t.tiling[w])
    PROVE  Wired([t EXCEPT !.tiling[w] = Swapped(@, i, j)], {}, {})
<1> DEFINE q == t.tiling[w]
           r == Swapped(q, i, j)
           k == [t.tiling EXCEPT ![w] = r]
           u == [t EXCEPT !.tiling[w] = Swapped(@, i, j)]
<1>0. t \in States /\ Listed(t, {})
  BY DEF Wired
<1>1. q \in Seq(Containers) /\ IsInjective(q)
  BY <1>0 DEF States, Listed
<1>2. r \in Seq(Containers) /\ Range(r) = Range(q) /\ IsInjective(r)
  BY <1>1, SwappedSame
<1>3. u = [t EXCEPT !.tiling = k]
  BY <1>0 DEF States
<1> HIDE DEF r, u
<1>4. k \in [Workspaces -> Seq(Containers)] /\ k[w] = r /\ \A x \in Workspaces : x # w => k[x] = t.tiling[x]
  BY <1>0, <1>2 DEF States
<1> HIDE DEF k
<1>5. /\ u \in States /\ Rest(t, u) /\ u.parent = t.parent /\ u.ws = t.ws /\ u.floating = t.floating
      /\ u.kids = t.kids /\ u.tiling = k
  BY <1>0, <1>3, <1>4 DEF States, Rest
<1>6. \A p \in Columns : IsInjective(u.kids[p]) /\ Range(u.kids[p]) = Range(t.kids[p])
  BY <1>0, <1>5 DEF Listed
<1>7. \A x \in Workspaces : IsInjective(u.tiling[x]) /\ Range(u.tiling[x]) = Range(t.tiling[x])
  BY <1>0, <1>2, <1>4, <1>5 DEF Listed
<1>8. Wired(u, {}, {})
  BY <1>5, <1>6, <1>7, Reordered
<1> QED
  BY <1>8 DEF u

LEMMA KidsSwapped ==
    ASSUME NEW t, Wired(t, {}, {}), NEW p \in Columns, NEW i \in 1..Len(t.kids[p]), NEW j \in 1..Len(t.kids[p])
    PROVE  Wired([t EXCEPT !.kids[p] = Swapped(@, i, j)], {}, {})
<1> DEFINE q == t.kids[p]
           r == Swapped(q, i, j)
           k == [t.kids EXCEPT ![p] = r]
           u == [t EXCEPT !.kids[p] = Swapped(@, i, j)]
<1>0. t \in States /\ Listed(t, {})
  BY DEF Wired
<1>1. q \in Seq(Views) /\ IsInjective(q)
  BY <1>0 DEF States, Listed
<1>2. r \in Seq(Views) /\ Range(r) = Range(q) /\ IsInjective(r)
  BY <1>1, SwappedSame
<1>3. u = [t EXCEPT !.kids = k]
  BY <1>0 DEF States
<1> HIDE DEF r, u
<1>4. k \in [Columns -> Seq(Views)] /\ k[p] = r /\ \A x \in Columns : x # p => k[x] = t.kids[x]
  BY <1>0, <1>2 DEF States
<1> HIDE DEF k
<1>5. /\ u \in States /\ Rest(t, u) /\ u.parent = t.parent /\ u.ws = t.ws /\ u.floating = t.floating
      /\ u.kids = k /\ u.tiling = t.tiling
  BY <1>0, <1>3, <1>4 DEF States, Rest
<1>6. \A x \in Columns : IsInjective(u.kids[x]) /\ Range(u.kids[x]) = Range(t.kids[x])
  BY <1>0, <1>2, <1>4, <1>5 DEF Listed
<1>7. \A x \in Workspaces : IsInjective(u.tiling[x]) /\ Range(u.tiling[x]) = Range(t.tiling[x])
  BY <1>0, <1>5 DEF Listed
<1>8. Wired(u, {}, {})
  BY <1>5, <1>6, <1>7, Reordered
<1> QED
  BY <1>8 DEF u

LEMMA MoveInDirectionWired ==
    ASSUME Wired(s, {}, {}), NEW v \in Views, NEW i \in 1..Cardinality(Views),
           NEW j \in 1..Cardinality(Views), MoveInDirection(v, i, j)
    PROVE  Wired(s', {}, {})
<1> DEFINE p == s.parent[v]
           w == s.ws[v]
           k == [s EXCEPT !.kids[p] = Swapped(@, i, j)]
           x == [s EXCEPT !.tiling[w] = Swapped(@, i, j)]
<1>0. /\ s \in States /\ w \in Workspaces /\ p \in Columns \union {NIL}
      /\ j = i + 1 /\ i \in Nat /\ j \in Nat /\ i >= 1
  <2>1. Cardinality(Views) \in Nat
    BY TreeAssumption, FS_CardinalityType DEF TreeAssumption
  <2>2. s \in States /\ v \in Containers
    BY DEF Wired, Containers
  <2>3. w \in Workspaces \union {NIL} /\ p \in Columns \union {NIL}
    BY <2>2 DEF States
  <2>4. w # NIL /\ j = i + 1
    BY DEF MoveInDirection, InTree
  <2> QED
    BY <2>1, <2>2, <2>3, <2>4
<1>1. \/ p # NIL /\ j <= Len(s.kids[p]) /\ s' = EndMouseOperation(k, v)
      \/ j <= Len(s.tiling[w]) /\ s' = EndMouseOperation(x, v)
  BY DEF MoveInDirection, Becomes
<1> HIDE DEF p, w
<1>2. ASSUME p # NIL, j <= Len(s.kids[p]) PROVE Wired(k, {}, {})
  <2>1. s.kids[p] \in Seq(Views)
    BY <1>0, <1>2 DEF States
  <2>2. Len(s.kids[p]) \in Nat
    BY <2>1
  <2>3. i \in 1..Len(s.kids[p]) /\ j \in 1..Len(s.kids[p])
    BY <1>0, <1>2, <2>2
  <2> QED
    BY <1>0, <1>2, <2>3, KidsSwapped
<1>3. ASSUME j <= Len(s.tiling[w]) PROVE Wired(x, {}, {})
  <2>1. s.tiling[w] \in Seq(Containers)
    BY <1>0 DEF States
  <2>2. Len(s.tiling[w]) \in Nat
    BY <2>1
  <2>3. i \in 1..Len(s.tiling[w]) /\ j \in 1..Len(s.tiling[w])
    BY <1>0, <1>3, <2>2
  <2> QED
    BY <1>0, <2>3, TilingSwapped
<1> HIDE DEF k, x
<1>4. \A u : Wired(u, {}, {}) => Wired(EndMouseOperation(u, v), {}, {})
  BY EndMouseOperationType, EndMouseOperationAlike, AlikeWired DEF Wired
<1> QED
  BY <1>1, <1>2, <1>3, <1>4

(* The column is replaced by its only window. *)
LEMMA UnsplitWired ==
    ASSUME Wired(s, {}, {}), NEW v \in Views, Unsplit(v)
    PROVE  Wired(s', {}, {})
<1> DEFINE p == s.parent[v]
           a == AddSibling(s, p, v)
           u == ContainerBeginDestroy(a, p)
<1>0. s \in States /\ p \in Columns /\ p \in Containers /\ v \in Containers /\ p # v /\ p # NIL
  <2>1. s \in States /\ v \in Containers /\ p # NIL
    BY Names DEF Unsplit, Wired
  <2>2. p \in Columns
    BY <2>1, Fields
  <2> QED
    BY <2>1, <2>2, Names
<1>1. s' = u /\ s.ws[v] # NIL /\ Len(s.kids[p]) = 1
  BY DEF Unsplit, Becomes, InTree
<1>2. /\ s.ws[p] = s.ws[v] /\ v \in s.live /\ v \notin s.scratch /\ v \notin s.minimized
  BY <1>0, InAColumn
<1>3. s.parent[p] = NIL
  BY <1>0 DEF Wired, Pointers
<1>4. \A x \in Views : s.parent[x] = p => x = v
  <2>1. s.kids[p] \in Seq(Views)
    BY <1>0 DEF States
  <2>2. \A x \in Views : x \in Range(s.kids[p]) <=> s.parent[x] = p
    BY <1>0 DEF Wired, Listed
  <2>3. \A x : x \in Range(s.kids[p]) <=> \E i \in 1..1 : s.kids[p][i] = x
    BY <1>1, <2>1, RangeSeq
  <2> HIDE DEF p
  <2>4. \A x : x \in Range(s.kids[p]) => s.kids[p][1] = x
    BY <2>3
  <2>5. v \in Range(s.kids[p])
    BY <2>2 DEF p
  <2> QED
    BY <2>2, <2>4, <2>5
<1>5. /\ Wired(a, {} \ {v}, {} \union {p})
      /\ \A d \in Containers : a.parent[d] = IF d = v THEN NIL ELSE s.parent[d]
  <2>1. p \notin {} /\ s.parent[p] \notin {} /\ s.ws[p] # NIL
    BY <1>1, <1>2
  <2> QED
    BY <1>0, <1>2, <1>3, <2>1, AddSiblingWired
<1> HIDE DEF a
<1>6. \A x \in Views : a.parent[x] # p
  <2>1. \A x \in Views : x \in Containers
    BY Names
  <2> QED
    BY <1>0, <1>4, <1>5, <2>1
<1>7. a.parent[p] = NIL
  BY <1>0, <1>3, <1>5
<1> HIDE DEF p
<1>8. Wired(a, {}, {p})
  <2>1. {} = {} \ {v} /\ {} \union {p} \subseteq {p} \union {NIL}
    OBVIOUS
  <2> QED
    BY <1>5, <2>1, Tidy
<1>9. Wired(u, {} \ {p}, {p} \union {NIL}) /\ u.live = a.live \ {p}
  BY <1>0, <1>6, <1>7, <1>8, DestroyWired
<1> HIDE DEF u
<1>10. Wired(u, {} \ {p}, {})
  <2>1. \A c \in Columns : c \in u.live /\ c \in {p} \union {NIL} => c \in {}
    BY <1>9, Names
  <2> QED
    BY <1>9, <2>1, FilledEnough
<1>11. {} \ {p} = {}
  OBVIOUS
<1> QED
  BY <1>1, <1>10, <1>11

LEMMA MoveToScratchpadWired ==
    ASSUME Sound(s), Wired(s, {}, {}), NEW v \in Views, MoveToScratchpad(v)
    PROVE  Wired(s', {}, {})
<1> DEFINE t == ScratchpadAdd(s, v)
           w == s.ws[v]
<1>1. (v \in s.scratch /\ s' = ScratchpadHide(s, v)) \/ s' \in Refocus(t, w)
  BY DEF MoveToScratchpad, Becomes, BecomesOneOf
<1>2. w \in Workspaces /\ w # NIL
  BY DEF MoveToScratchpad, InTree, Sound, States, Containers
<1>3. Sound(t)
  BY ScratchpadAddKeeps DEF Keeps
<1>4. Wired(t, {}, {})
  BY <1>2, ScratchpadAddWired
<1> HIDE DEF t, w
<1> QED
  BY <1>1, <1>2, <1>3, <1>4, ScratchpadHideWired, RefocusWired

LEMMA MinimizeWired ==
    ASSUME Sound(s), Wired(s, {}, {}), NEW v \in Views, Minimize(v)
    PROVE  Wired(s', {}, {}) /\ (Stowed(s, {}) /\ s'.lost = {} => Stowed(s', {}))
<1> DEFINE t == MinimizedHide(s, v)
           w == s.ws[v]
<1>1. v \in s.live /\ v \notin s.minimized /\ (s' = t \/ (w # NIL /\ s' \in Refocus(t, w)))
  BY DEF Minimize, BecomesOneOf, Mapped, Parked
<1>2. w \in Workspaces \union {NIL}
  BY DEF Sound, States, Containers
<1>3. Sound(t)
  BY MinimizedHideSound DEF Keeps
<1>4. Wired(t, {}, {}) /\ (Stowed(s, {}) /\ t.lost = {} => Stowed(t, {}))
  BY <1>1, MinimizedHideWired
<1> HIDE DEF t, w
<1>5. Wired(s', {}, {})
  BY <1>1, <1>2, <1>3, <1>4, RefocusWired
<1>6. s' = t \/ Kept(t, s')
  BY <1>1, <1>2, <1>3, RefocusKeeps DEF Keeps
<1> QED
  BY <1>4, <1>5, <1>6 DEF Kept

LEMMA RestoreWired ==
    ASSUME Sound(s), Roomy(s), Wired(s, {}, {}), NEW v \in Views, NEW w \in Workspaces, Restore(v, w)
    PROVE  Wired(s', {}, {})
<1>1. /\ v \in s.live /\ v \in s.minimized /\ w # NIL
      /\ w = FocusedWs(s) \/ \E o \in Range(s.outs) : w = Active(s, o)
      /\ \E i \in Positions(s, w) : s' = MinimizedShow(s, v, w, i)
  BY DEF Restore, Becomes, Parked, Mapped
<1>2. s.alive[w] = "live"
  <2>1. ASSUME NEW o, w = Active(s, o) PROVE s.alive[w] = "live"
    <3>1. s \in States /\ Served(s, {}, {})
      BY DEF Sound
    <3>2. Active(s, o) = NIL \/ Active(s, o) \in On(s, o)
      BY <3>1, ActiveOn
    <3> QED
      BY <1>1, <2>1, <3>2 DEF On
  <2> QED
    BY <1>1, <2>1, FocusedActive
<1> QED
  BY <1>1, <1>2, PositionsType, MinimizedShowWired

LEMMA SwitchWired ==
    ASSUME Sound(s), Wired(s, {}, {}), NEW w \in Workspaces, Switch(w)
    PROVE  Wired(s', {}, {})
<1> DEFINE y == WorkspaceCreate(s, s.on[FocusedWs(s)], w)
           t == IF w \in Live THEN s ELSE y
<1>1. s' \in Refocus(t, w) /\ s.outs # <<>> /\ w \in Live \union Free(s)
  BY DEF Switch, BecomesOneOf
<1>2. w \notin Live => Sound(y)
  BY <1>1, CreateFocusedKeeps DEF Keeps
<1>3. w \notin Live => Wired(y, {}, {})
  BY <1>1, <1>2, CreateWired DEF Sound
<1>4. Sound(t) /\ Wired(t, {}, {})
  BY <1>2, <1>3
<1> HIDE DEF t
<1> QED
  BY <1>1, <1>4, RefocusWired

(* What was in the pool of a workspace goes with it. *)
LEMMA WorkspaceDestroyWired ==
    ASSUME Wired(s, {}, {}), NEW w \in Workspaces, WorkspaceDestroy(w)
    PROVE  Wired(s', {}, {})
<1> DEFINE snap == SetToSeq(s.pool[w])
           n == Len(snap)
           round(u, i) == [ContainerBeginDestroy(u, snap[i]) EXCEPT
                             !.lost = @ \union ({snap[i]} \intersect s.live)]
           f == [i \in DOMAIN snap |-> [u \in States |-> round(u, i)]]
           t == Rounds(f, s, n)
           r == [t EXCEPT !.alive[w] = "no", !.pool[w] = {},
                          !.crash = IF s.pool[w] \subseteq s.live THEN @ ELSE "used after free"]
           S == {u \in States : Wired(u, {}, {}) /\ u.live \subseteq s.live /\ u.alive = s.alive}
<1>1. s \in States /\ s.alive[w] = "dying" /\ s' = r
  BY DEF Wired, WorkspaceDestroy, Becomes
<1>2. snap \in Seq(Views)
  <2>1. s.pool[w] \subseteq Views
    BY <1>1 DEF States
  <2>2. IsFiniteSet(s.pool[w])
    BY <2>1, TreeAssumption, FS_Subset DEF TreeAssumption
  <2>3. snap \in Seq(s.pool[w])
    BY <2>2, SetToSeqType
  <2> HIDE DEF snap
  <2> QED
    BY <2>1, <2>3
<1> HIDE DEF snap
<1>3. n \in Nat /\ DOMAIN snap = 1..n /\ \A i \in 1..n : snap[i] \in Views
  BY <1>2
<1> HIDE DEF n
<1>4. ASSUME NEW y \in S, NEW i \in 1..n PROVE f[i][y] \in S
  <2> DEFINE v == snap[i]
             d == ContainerBeginDestroy(y, v)
             z == d.lost \union ({v} \intersect s.live)
             e == [d EXCEPT !.lost = @ \union ({v} \intersect s.live)]
             D == {} \union {y.parent[v]}
  <2>1. f[i][y] = e /\ y \in States /\ Wired(y, {}, {}) /\ y.live \subseteq s.live /\ y.alive = s.alive
    BY <1>3
  <2>2. v \in Views /\ v \in Containers
    BY <1>3 DEF Containers
  <2> HIDE DEF v, f, S
  <2>3. /\ Wired(d, {} \ {v}, D) /\ d.live = y.live \ {v} /\ d.alive = y.alive /\ d.lost = y.lost
    <3>1. \A x \in Views : y.parent[x] # v
      BY <2>1, <2>2, NoChildren, Names
    <3>2. Wired(y, {}, {})
      BY <2>1
    <3> HIDE DEF z, e
    <3> QED
      BY <2>2, <3>1, <3>2, DestroyWired
  <2>4. v \in y.live \/ y.parent[v] = NIL
    BY <2>1, <2>2 DEF Wired, Pointers
  <2> HIDE DEF d, D
  <2>5. d \in States /\ {} \ {v} = {}
    BY <2>3 DEF Wired
  <2>6. /\ e \in States /\ Still(d, e) /\ e.live = d.live /\ e.scratch = d.scratch
        /\ e.minimized = d.minimized /\ e.wasfloat = d.wasfloat /\ e.alive = d.alive
        /\ e.lost = z /\ e.crash = d.crash
    <3>1. z \subseteq Views /\ e = [d EXCEPT !.lost = z]
      BY <2>2, <2>5 DEF States
    <3> HIDE DEF z, e
    <3> QED
      BY <2>5, <3>1 DEF States, Still
  <2> HIDE DEF e
  <2>7. Wired(e, {}, D)
    <3>1. Wired(d, {}, D) /\ d.lost \subseteq e.lost /\ e.crash # "destroyed twice"
      BY <2>3, <2>5, <2>6 DEF Wired
    <3> QED
      BY <2>6, <3>1, StillWired
  <2>8. Wired(e, {}, {})
    <3>1. CASE v \in y.live
      <4>1. e.lost # {}
        BY <2>1, <2>6, <3>1
      <4> QED
        BY <2>7, <4>1, FilledEnough
    <3>2. CASE y.parent[v] = NIL
      <4>1. {} = {} /\ D \subseteq {} \union {NIL}
        BY <3>2 DEF D
      <4> QED
        BY <2>7, <4>1, Tidy
    <3> QED
      BY <2>4, <3>1, <3>2
  <2>9. e.live \subseteq s.live /\ e.alive = s.alive
    BY <2>1, <2>3, <2>6
  <2> QED
    BY <2>1, <2>6, <2>8, <2>9 DEF S
<1>5. s \in S
  BY <1>1
<1> HIDE DEF f, S, t
<1>6. t \in S
  BY <1>3, <1>4, <1>5, RoundsKeep DEF t
<1>7. t \in States /\ Wired(t, {}, {}) /\ t.alive = s.alive
  BY <1>6 DEF S
<1> DEFINE a == [t.alive EXCEPT ![w] = "no"]
           p == [t.pool EXCEPT ![w] = {}]
           k == IF s.pool[w] \subseteq s.live THEN t.crash ELSE "used after free"
<1>9. r = [t EXCEPT !.alive = a, !.pool = p, !.crash = k]
  BY <1>7 DEF States
<1>10. /\ a \in [Workspaces -> {"no", "live", "dying"}] /\ p \in [Workspaces -> SUBSET Views]
       /\ \A x \in Workspaces : t.alive[x] = "live" => a[x] = "live"
  BY <1>1, <1>7 DEF States
<1> HIDE DEF a, p, r
<1>11. /\ r \in States /\ Still(t, r) /\ r.live = t.live /\ r.scratch = t.scratch
       /\ r.minimized = t.minimized /\ r.wasfloat = t.wasfloat /\ r.lost = t.lost /\ r.alive = a /\ r.crash = k
  BY <1>7, <1>9, <1>10 DEF States, Still
<1>12. k # "destroyed twice"
  BY <1>7 DEF Wired
<1> HIDE DEF k
<1>13. t.lost \subseteq r.lost /\ r.crash # "destroyed twice"
  BY <1>11, <1>12
<1>14. Wired(r, {}, {})
  BY <1>7, <1>10, <1>11, <1>13, StillWired
<1> QED
  BY <1>1, <1>14

-----------------------------------------------------------------------------
(* The overview.                                                           *)
LEMMA WithinFields ==
    ASSUME NEW t \in States, NEW c \in Containers, NEW w \in Workspaces \union {NIL}
    PROVE  LET u == Within(t, c, w)
           IN  /\ u \in States /\ Rest(t, u) /\ u.parent = t.parent /\ u.kids = t.kids
               /\ u.tiling = t.tiling /\ u.floating = t.floating
               /\ u.ws = [d \in Containers |-> IF d = c \/ d \in KidsOf(t, c) THEN w ELSE t.ws[d]]
<1> DEFINE k == [d \in Containers |-> IF d = c \/ d \in KidsOf(t, c) THEN w ELSE t.ws[d]]
           u == Within(t, c, w)
<1>1. u = [t EXCEPT !.ws = k]
  BY DEF Within
<1>2. u \in States
  BY WithinType
<1> HIDE DEF k, u
<1>3. /\ Rest(t, u) /\ u.parent = t.parent /\ u.kids = t.kids
      /\ u.tiling = t.tiling /\ u.floating = t.floating /\ u.ws = k
  BY <1>1 DEF States, Rest
<1> QED
  BY <1>2, <1>3 DEF k, u

(* Two containers come to two workspaces. *)
LEMMA Crossed ==
    ASSUME NEW t, NEW c \in Containers, NEW d \in Containers, c # d, NEW E, Wired(t, {c, d}, E),
           c \in t.live, c \notin t.minimized, d \in t.live, d \notin t.minimized,
           NEW a \in Workspaces, NEW b \in Workspaces, t.alive[a] = "live", t.alive[b] = "live",
           NEW k \in States, ToWorkspace(t, c, b, k), NEW l \in States, ToWorkspace(k, d, a, l)
    PROVE  Wired(Within(Within(l, c, b), d, a), {}, E)
<1> DEFINE y == Within(k, c, b)
           z == Within(l, c, b)
           u == Within(z, d, a)
           X == {c, d}
<1>0. t.parent[c] = NIL /\ t.parent[d] = NIL /\ X \ {c} = {d} /\ {d} \ {d} = {} /\ c \in X
  BY DEF Wired, Pointers
<1>1. /\ y \in States /\ Rest(k, y) /\ y.parent = k.parent /\ y.kids = k.kids
      /\ y.tiling = k.tiling /\ y.floating = k.floating
      /\ y.ws = [e \in Containers |-> IF e = c \/ e \in KidsOf(k, c) THEN b ELSE k.ws[e]]
  BY WithinFields
<1>2. /\ z \in States /\ Rest(l, z) /\ z.parent = l.parent /\ z.kids = l.kids
      /\ z.tiling = l.tiling /\ z.floating = l.floating
      /\ z.ws = [e \in Containers |-> IF e = c \/ e \in KidsOf(l, c) THEN b ELSE l.ws[e]]
  BY WithinFields
<1>3. Wired(y, {d}, E) /\ Rest(t, y) /\ LeadsToWorkspace(t, c, b, y)
  <2>1. Alike(y, y)
    BY DEF Alike
  <2> HIDE DEF X
  <2>2. Wired(t, X, E)
    BY DEF X
  <2>3. Wired(y, X \ {c}, E) /\ Rest(t, y) /\ LeadsToWorkspace(t, c, b, y)
    BY <1>0, <1>1, <2>1, <2>2, OntoAlike
  <2> QED
    BY <1>0, <2>3
<1> HIDE DEF y, z, X
<1>4. ToWorkspace(y, d, a, z)
  <2>1. /\ Rest(k, l) /\ l.kids = k.kids /\ l.parent = k.parent /\ l.ws = k.ws
        /\ \A x \in Workspaces : x # a => l.tiling[x] = k.tiling[x] /\ l.floating[x] = k.floating[x]
        /\ IsInjective(l.tiling[a])
        /\ \/ Range(l.tiling[a]) = Range(k.tiling[a]) \union {d} /\ l.floating[a] = k.floating[a] /\ d \notin k.scratch
           \/ l.tiling[a] = k.tiling[a] /\ l.floating[a] = k.floating[a] \union {d}
    BY DEF ToWorkspace
  <2>2. KidsOf(l, c) = KidsOf(k, c)
    BY <2>1 DEF KidsOf
  <2>3. z.ws = y.ws
    BY <1>1, <1>2, <2>1, <2>2
  <2>4. Rest(y, z) /\ y.scratch = k.scratch
    BY <1>1, <1>2, <2>1 DEF Rest
  <2> QED
    BY <1>1, <1>2, <2>1, <2>3, <2>4 DEF ToWorkspace
<1>5. Wired(u, {d} \ {d}, E)
  <2>1. u \in States /\ Alike(u, u)
    BY <1>2, WithinType DEF Alike
  <2>2. d \in y.live /\ d \notin y.minimized /\ y.alive[a] = "live" /\ y.parent[d] = NIL /\ d \in {d}
    BY <1>0, <1>3 DEF Rest, LeadsToWorkspace
  <2> QED
    BY <1>2, <1>3, <1>4, <2>1, <2>2, OntoAlike
<1> QED
  BY <1>0, <1>5 DEF z

LEMMA PullFloatingWired ==
    ASSUME NEW t, Wired(t, {}, {}), NEW v \in Views, t.ws[v] # NIL, IsFloating(t, v),
           NEW w \in Workspaces, t.alive[w] = "live"
    PROVE  Wired(PullFloating(t, v, w), {}, {})
<1> DEFINE old == t.ws[v]
           a == DisableIf(t, v)
           b == Detach(a, v)
           d == AddFloating(b, w, v)
<1>0. t \in States /\ v \in Containers
  BY Names DEF Wired
<1>1. PullFloating(t, v, w) = IF old = w THEN a ELSE WorkspaceConsiderDestroy(d, old)
  BY DEF PullFloating
<1>2. old \in Workspaces /\ t.alive[old] = "live" /\ v \in t.live /\ t.parent[v] = NIL
  <2>1. t.parent[v] = NIL
    BY DEF IsFloating, Floats, Wired, PutAway
  <2>2. old \in Workspaces /\ t.alive[old] = "live"
    BY <1>0, <2>1, OnTheLiving
  <2> QED
    BY <1>0, <2>1, <2>2 DEF Wired, Pointers
<1>3. a \in States /\ Alike(t, a)
  BY <1>0, DisableIfAlike
<1> HIDE DEF a, old
<1>4. Wired(a, {}, {})
  BY <1>3, AlikeWired
<1>5. Wired(b, {} \union {v}, {} \union {NIL}) /\ Rest(a, b) /\ b.parent[v] = NIL /\ b.ws[v] = NIL
  <2>1. a.parent[v] = NIL
    BY <1>2, <1>3 DEF Alike
  <2> QED
    BY <1>0, <1>4, <2>1, DetachWired
<1> HIDE DEF b
<1>6. v \in b.live /\ b.alive = t.alive
  BY <1>2, <1>3, <1>5 DEF Alike, Rest
<1>7. Wired(d, ({} \union {v}) \ {v}, ({} \union {NIL}) \union {NIL}) /\ d.alive = b.alive
  BY <1>5, <1>6, AddFloatingWired
<1> HIDE DEF d
<1>8. Wired(d, {}, {})
  <2>1. {} = ({} \union {v}) \ {v} /\ ({} \union {NIL}) \union {NIL} \subseteq {} \union {NIL}
    OBVIOUS
  <2> QED
    BY <1>7, <2>1, Tidy
<1>9. Wired(WorkspaceConsiderDestroy(d, old), {}, {})
  BY <1>2, <1>6, <1>7, <1>8, ConsiderWired
<1> QED
  BY <1>1, <1>4, <1>9

LEMMA PullColumnWired ==
    ASSUME NEW t, Wired(t, {}, {}), Roomy(t), NEW v \in Views, t.ws[v] # NIL, ~IsFloating(t, v),
           NEW w \in Workspaces, t.alive[w] = "live", NEW i \in Nat \ {0}
    PROVE  Wired(PullColumn(t, v, w, i), {}, {})
<1> DEFINE old == t.ws[v]
           c == IF t.parent[v] = NIL THEN v ELSE t.parent[v]
           own == IF IsColumn(c) THEN t.kids[c] ELSE <<c>>
           first == SelectInSeq(own, LAMBDA x : t.mode[x] # "none")
           a == IF first = 0 THEN t ELSE FullscreenDisable(t, own[first])
           b == DisableIf(a, a.fs[w])
           col == IF c \in Views THEN Fresh(b) ELSE c
           d == IF c \in Views THEN NewColumn(b, w, c) ELSE IF old # w THEN Detach(b, c) ELSE b
           was == IndexOf(d.tiling[w], col)
           end == Len(d.tiling[w]) + 1
           to == IF i > end THEN end ELSE i
           at == IF was # 0 /\ was < to THEN to - 1 ELSE to
           q == InsertAt(RemoveFirst(d.tiling[w], col), at, col)
           x == [d EXCEPT !.tiling[w] = InsertAt(RemoveFirst(@, col), at, col)]
           e == Place(x, col, w)
<1>0. /\ t \in States /\ v \in Containers /\ old \in Workspaces /\ t.alive[old] = "live"
      /\ c \in Containers /\ c \in t.live /\ t.parent[c] = NIL /\ t.ws[c] = old /\ v \in t.live
      /\ v \notin t.scratch /\ v \notin t.minimized
      /\ ((IsColumn(c) /\ c \notin Views) \/ c = v)
  <2>1. t \in States /\ v \in Containers /\ v \notin t.scratch
    BY Names DEF Wired, IsFloating
  <2>2. v \in t.live /\ v \notin t.minimized
    BY <2>1 DEF Wired, Pointers, PutAway
  <2>3. old \in Workspaces /\ t.alive[old] = "live"
    <3>1. v \notin {} /\ (t.parent[v] = NIL \/ t.parent[v] \notin {})
      OBVIOUS
    <3> QED
      BY <2>1, <3>1, OnTheLiving
  <2>4. CASE t.parent[v] = NIL
    BY <2>1, <2>2, <2>3, <2>4
  <2>5. CASE t.parent[v] # NIL
    <3>1. t.parent[v] \in Columns /\ t.parent[v] \in t.live /\ t.ws[t.parent[v]] = t.ws[v]
      BY <2>5, InAColumn
    <3>2. t.parent[t.parent[v]] = NIL
      BY <3>1 DEF Wired, Pointers
    <3> QED
      BY <2>1, <2>2, <2>3, <2>5, <3>1, <3>2, Names DEF IsColumn
  <2> QED
    BY <2>4, <2>5
<1>1. PullColumn(t, v, w, i) = IF old # w THEN WorkspaceConsiderDestroy(e, old) ELSE e
  BY DEF PullColumn
<1> HIDE DEF c, old
<1>2. own \in Seq(Views)
  <2>1. CASE IsColumn(c)
    <3>1. t.kids[c] \in Seq(Views)
      BY <1>0, <2>1 DEF States, IsColumn
    <3> QED
      BY <2>1, <3>1
  <2>2. CASE ~IsColumn(c)
    <3>1. c \in Views
      BY <1>0, <2>2
    <3>2. <<c>> \in Seq(Views)
      BY <3>1
    <3> QED
      BY <2>2, <3>2
  <2> QED
    BY <2>1, <2>2
<1> HIDE DEF own
<1>3. first = 0 \/ own[first] \in Views
  <2> DEFINE M == {y \in Views : t.mode[y] # "none"}
             g == SelectInSeq(own, LAMBDA y : y \in M)
  <2>1. \/ g = 0 /\ \A j \in 1..Len(own) : own[j] \notin M
        \/ g \in 1..Len(own) /\ own[g] \in M /\ \A j \in 1..(g-1) : own[j] \notin M
    BY <1>2, SelectFirst
  <2>2. \A j \in 1..Len(own) : own[j] \in M <=> t.mode[own[j]] # "none"
    BY <1>2
  <2>3. first = g
    <3> HIDE DEF M
    <3> QED
      BY <2>2 DEF SelectInSeq
  <2> HIDE DEF g, first
  <2> QED
    BY <2>1, <2>3
<1> HIDE DEF first
<1>4. a \in States /\ Alike(t, a)
  <2>1. Alike(t, t)
    BY DEF Alike
  <2> QED
    BY <1>0, <1>3, <2>1, FullscreenDisableType, FullscreenDisableAlike
<1> HIDE DEF a
<1>5. b \in States /\ Alike(t, b)
  <2>1. a.fs[w] \in Views \union {NIL}
    BY <1>4 DEF States
  <2> QED
    BY <1>4, <2>1, DisableIfAlike, AlikeTwice
<1> HIDE DEF b
<1>6. Wired(b, {}, {}) /\ Roomy(b) /\ b.live = t.live /\ b.ws = t.ws /\ b.parent = t.parent /\ b.alive = t.alive
      /\ b.scratch = t.scratch /\ b.minimized = t.minimized
  BY <1>5, AlikeWired DEF Alike, Roomy
<1>7. PICK X : /\ Wired(d, X, {}) /\ X \ {col} = {} /\ col \in Containers /\ col \in d.live
               /\ col \notin d.minimized /\ col \notin d.scratch
               /\ d.parent[col] = NIL /\ (col \in X \/ d.ws[col] = w) /\ d.alive = t.alive
  <2>1. CASE c \in Views
    <3> DEFINE f == Fresh(b)
               y == NewColumn(b, w, c)
    <3>1. c = v
      BY <1>0, <2>1
    <3>2. Wired(y, ({} \ {c}) \union {f}, {} \union {NIL}) /\ NewColumnOf(b, w, c, f, y)
      <4>1. b.parent[c] = NIL /\ c \in b.live /\ c \notin b.scratch /\ c \notin b.minimized
        BY <1>0, <1>6, <3>1
      <4> QED
        BY <1>6, <2>1, <4>1, NewColumnWired
    <3>3. d = y /\ col = f
      BY <2>1
    <3> HIDE DEF f, y, d, col
    <3>4. Wired(y, {f}, {})
      <4>1. {f} = ({} \ {c}) \union {f} /\ {} \union {NIL} \subseteq {} \union {NIL}
        OBVIOUS
      <4> QED
        BY <3>2, <4>1, Tidy
    <3>5. f \in Columns /\ f \in y.live /\ y.parent[f] = NIL /\ y.alive = b.alive /\ y \in States
      BY <3>2, <3>4 DEF NewColumnOf, Wired
    <3>6. f \in Containers /\ f \notin y.minimized /\ f \notin y.scratch
      BY <3>5, Fields, Names
    <3>7. {f} \ {f} = {} /\ f \in {f}
      OBVIOUS
    <3> QED
      BY <1>6, <3>3, <3>4, <3>5, <3>6, <3>7
  <2>2. CASE c \notin Views /\ old # w
    <3> DEFINE y == Detach(b, c)
    <3>1. Wired(y, {} \union {c}, {} \union {NIL}) /\ Rest(b, y) /\ y.parent[c] = NIL
      BY <1>0, <1>6, DetachWired
    <3>2. d = y /\ col = c
      BY <2>2
    <3> HIDE DEF y, d, col
    <3>3. Wired(y, {c}, {})
      <4>1. {c} = {} \union {c} /\ {} \union {NIL} \subseteq {} \union {NIL}
        OBVIOUS
      <4> QED
        BY <3>1, <4>1, Tidy
    <3>4. c \in y.live /\ y.alive = b.alive /\ y \in States
      BY <1>0, <1>6, <3>1, <3>3 DEF Rest, Wired
    <3>5. c \notin y.minimized /\ c \notin y.scratch
      BY <2>2, <3>4, Fields
    <3>6. {c} \ {c} = {} /\ c \in {c}
      OBVIOUS
    <3> QED
      BY <1>0, <1>6, <3>1, <3>2, <3>3, <3>4, <3>5, <3>6
  <2>3. CASE c \notin Views /\ old = w
    <3>1. d = b /\ col = c
      BY <2>3
    <3> HIDE DEF d, col
    <3>2. c \notin b.minimized /\ c \notin b.scratch
      BY <1>5, <2>3, Fields
    <3>3. {} \ {c} = {}
      OBVIOUS
    <3> QED
      BY <1>0, <1>6, <2>3, <3>1, <3>2, <3>3
  <2> QED
    BY <2>1, <2>2, <2>3
<1> HIDE DEF col, d
<1>8. /\ d \in States /\ d.tiling[w] \in Seq(Containers) /\ IsInjective(d.tiling[w])
  <2>1. d \in States /\ Listed(d, X)
    BY <1>7 DEF Wired
  <2>2. d.tiling \in [Workspaces -> Seq(Containers)]
    BY <2>1, Fields
  <2> QED
    BY <2>1, <2>2 DEF Listed
<1>9. q \in Seq(Containers) /\ IsInjective(q) /\ Range(q) = Range(d.tiling[w]) \union {col}
  <2> DEFINE g == d.tiling[w]
             r == RemoveFirst(g, col)
  <2>1. at \in 1..(Len(r) + 1)
    BY <1>7, <1>8, PullAt
  <2>2. r \in Seq(Containers) /\ Fewer(g, r, col)
    BY <1>8, RemoveFirstType, RemoveFirstFewer
  <2>3. q = InsertAt(r, at, col)
    OBVIOUS
  <2>4. IsInjective(g)
    BY <1>8
  <2> HIDE DEF at, r, q, g
  <2>5. q \in Seq(Containers) /\ More(r, q, col)
    BY <1>7, <2>1, <2>2, <2>3, InsertAtMore, InsertAtType
  <2>6. IsInjective(q) /\ Range(q) = Range(g) \union {col}
    BY <2>2, <2>4, <2>5 DEF More, Fewer
  <2> QED
    BY <2>5, <2>6 DEF g
<1>10. e = Place([d EXCEPT !.tiling[w] = q], col, w)
  OBVIOUS
<1> HIDE DEF e, q
<1>11. Wired(e, X \ {col}, {}) /\ Rest(d, e)
  <2>1. d.alive[w] = "live"
    BY <1>7
  <2> QED
    BY <1>7, <1>8, <1>9, <1>10, <2>1, PutOnto
<1>12. Wired(e, {}, {}) /\ e.alive = t.alive
  BY <1>7, <1>11 DEF Rest
<1> QED
  BY <1>0, <1>1, <1>12, ConsiderWired

(* The container a window is in, on its workspace. *)
ColumnOf(v) == IF s.parent[v] = NIL THEN v ELSE s.parent[v]

LEMMA ColumnOfWired ==
    ASSUME Wired(s, {}, {}), NEW v \in Views, s.ws[v] # NIL
    PROVE  LET c == ColumnOf(v)
           IN  /\ c \in Containers /\ c \in s.live /\ c \notin s.minimized /\ s.parent[c] = NIL
               /\ s.ws[v] \in Workspaces /\ s.alive[s.ws[v]] = "live"
               /\ IF IsFloating(s, v) THEN c = v ELSE c \notin s.scratch
<1> DEFINE c == ColumnOf(v)
<1>1. s \in States /\ v \in Containers
  BY Names DEF Wired
<1>2. s.ws[v] \in Workspaces /\ s.alive[s.ws[v]] = "live"
  <2>1. v \notin {} /\ (s.parent[v] = NIL \/ s.parent[v] \notin {})
    OBVIOUS
  <2> QED
    BY <1>1, <2>1, OnTheLiving
<1>3. v \in s.live /\ v \notin s.minimized
  BY <1>1 DEF Wired, Pointers, PutAway
<1>4. CASE s.parent[v] = NIL
  <2>1. c = v
    BY <1>4 DEF ColumnOf
  <2> HIDE DEF c
  <2>2. IsFloating(s, v) \/ v \notin s.scratch
    BY DEF IsFloating
  <2> QED
    BY <1>1, <1>2, <1>3, <1>4, <2>1, <2>2 DEF c
<1>5. CASE s.parent[v] # NIL
  <2>1. c = s.parent[v]
    BY <1>5 DEF ColumnOf
  <2>2. s.parent[v] \in Columns /\ s.parent[v] \in s.live /\ v \notin s.scratch
    BY <1>5, InAColumn
  <2> HIDE DEF c
  <2>3. ~IsFloating(s, v)
    BY <1>5, <2>2 DEF IsFloating, Floats
  <2>4. c \in Containers /\ c \notin s.minimized /\ c \notin s.scratch
    BY <1>1, <2>1, <2>2, Fields, Names
  <2>5. s.parent[c] = NIL
    BY <2>1, <2>2 DEF Wired, Pointers
  <2> QED
    BY <1>2, <2>1, <2>2, <2>3, <2>4, <2>5 DEF c
<1> QED
  BY <1>4, <1>5

(* Floating windows and columns that come to a workspace. *)
LEMMA ToFloating ==
    ASSUME NEW t \in States, NEW c \in Views, NEW w \in Workspaces, IsInjective(t.tiling[w])
    PROVE  LET a == [t EXCEPT !.floating[w] = @ \union {c}]
           IN  a \in States /\ ToWorkspace(t, c, w, a) /\ \A x \in Workspaces : a.tiling[x] = t.tiling[x]
<1> DEFINE k == [t.floating EXCEPT ![w] = @ \union {c}]
           a == [t EXCEPT !.floating[w] = @ \union {c}]
<1>1. a = [t EXCEPT !.floating = k]
  BY DEF States
<1>2. k \in [Workspaces -> SUBSET Views] /\ k[w] = t.floating[w] \union {c} /\ \A x \in Workspaces : x # w => k[x] = t.floating[x]
  BY DEF States
<1> HIDE DEF k, a
<1>3. /\ a \in States /\ Rest(t, a) /\ a.kids = t.kids /\ a.parent = t.parent /\ a.ws = t.ws
      /\ a.tiling = t.tiling /\ a.floating = k
  BY <1>1, <1>2 DEF States, Rest
<1> QED
  BY <1>2, <1>3 DEF ToWorkspace, a

LEMMA ToTiling ==
    ASSUME NEW t \in States, NEW c \in Containers, c \notin t.scratch, NEW w \in Workspaces,
           IsInjective(t.tiling[w]), c \notin Range(t.tiling[w]), NEW i \in Nat \ {0}
    PROVE  LET a == [t EXCEPT !.tiling[w] = Inserted(@, i, c)]
           IN  /\ a \in States /\ ToWorkspace(t, c, w, a)
               /\ \A x \in Workspaces : x # w => a.tiling[x] = t.tiling[x]
<1> DEFINE q == Inserted(t.tiling[w], i, c)
           k == [t.tiling EXCEPT ![w] = q]
           a == [t EXCEPT !.tiling[w] = Inserted(@, i, c)]
<1>1. a = [t EXCEPT !.tiling = k]
  BY DEF States
<1>2. t.tiling \in [Workspaces -> Seq(Containers)]
  BY Fields
<1>3. q \in Seq(Containers) /\ More(t.tiling[w], q, c)
  <2>1. t.tiling[w] \in Seq(Containers)
    BY <1>2
  <2> QED
    BY <2>1, InsertedMore
<1> HIDE DEF q
<1>4. IsInjective(q) /\ Range(q) = Range(t.tiling[w]) \union {c}
  BY <1>3 DEF More
<1>5. k \in [Workspaces -> Seq(Containers)] /\ k[w] = q /\ \A x \in Workspaces : x # w => k[x] = t.tiling[x]
  BY <1>2, <1>3
<1> HIDE DEF k, a
<1>6. /\ a \in States /\ Rest(t, a) /\ a.kids = t.kids /\ a.parent = t.parent /\ a.ws = t.ws
      /\ a.tiling = k /\ a.floating = t.floating
  BY <1>1, <1>5 DEF States, Rest
<1> QED
  BY <1>4, <1>5, <1>6 DEF ToWorkspace, a

LEMMA SwapOfWired ==
    ASSUME Wired(s, {}, {}), NEW v \in Views, NEW x \in Views, s.ws[v] # NIL, s.ws[x] # NIL,
           ColumnOf(v) # ColumnOf(x), IsFloating(s, v) = IsFloating(s, x)
    PROVE  Wired(SwapOf(v, x), {}, {})
<1> DEFINE a == s.ws[v]
           b == s.ws[x]
           c == ColumnOf(v)
           d == ColumnOf(x)
           i == IndexOf(s.tiling[a], c)
           j == IndexOf(s.tiling[b], d)
           y == Detach(s, c)
           apart == Detach(y, d)
           k1 == [apart EXCEPT !.floating[b] = @ \union {v}]
           l1 == [k1 EXCEPT !.floating[a] = @ \union {x}]
           k2 == [apart EXCEPT !.tiling[b] = Inserted(@, i, c)]
           l2 == [k2 EXCEPT !.tiling[a] = Inserted(@, j, d)]
           crossed == IF IsFloating(s, v) THEN l1 ELSE l2
           in == Within(Within(crossed, c, b), d, a)
           t == FullscreenReparent(FullscreenReparent(in, c), d)
           sw == [s EXCEPT !.tiling[a] = Swapped(@, i, j)]
           f == IsFloating(s, v)
           u == IF ~f /\ (i = 0 \/ j = 0) THEN s ELSE IF a # b THEN t ELSE IF f THEN s ELSE sw
<1>0. s \in States
  BY DEF Wired
<1>1. SwapOf(v, x) = u
  BY DEF SwapOf, ColumnOf
<1>2. /\ c \in Containers /\ c \in s.live /\ c \notin s.minimized /\ s.parent[c] = NIL
      /\ a \in Workspaces /\ s.alive[a] = "live"
      /\ IF f THEN c = v ELSE c \notin s.scratch
  BY ColumnOfWired
<1>3. /\ d \in Containers /\ d \in s.live /\ d \notin s.minimized /\ s.parent[d] = NIL
      /\ b \in Workspaces /\ s.alive[b] = "live"
      /\ IF f THEN d = x ELSE d \notin s.scratch
  BY ColumnOfWired
<1>4. i \in 0..Len(s.tiling[a]) /\ j \in 0..Len(s.tiling[b]) /\ Len(s.tiling[a]) \in Nat /\ Len(s.tiling[b]) \in Nat
  <2>1. s.tiling[a] \in Seq(Containers) /\ s.tiling[b] \in Seq(Containers)
    BY <1>0, <1>2, <1>3 DEF States
  <2> QED
    BY <2>1, IndexOfType
<1>5. c # d
  OBVIOUS
<1> HIDE DEF a, b, c, d, i, j, f
<1>6. /\ Wired(apart, {c, d}, {}) /\ Rest(s, apart)
  <2>1. Wired(y, {} \union {c}, {} \union {NIL}) /\ Rest(s, y) /\ Out(s, c, y)
    BY <1>2, DetachWired
  <2> HIDE DEF y
  <2>2. Wired(y, {c}, {}) /\ y.parent[d] = NIL
    <3>1. {c} = {} \union {c} /\ {} \union {NIL} \subseteq {} \union {NIL}
      OBVIOUS
    <3>2. Wired(y, {c}, {})
      BY <2>1, <3>1, Tidy
    <3> QED
      BY <1>3, <2>1, <3>2 DEF Out
  <2>3. Wired(apart, {c} \union {d}, {} \union {NIL}) /\ Rest(y, apart)
    BY <1>3, <2>2, DetachWired
  <2> HIDE DEF apart
  <2>4. {c, d} = {c} \union {d} /\ {} \union {NIL} \subseteq {} \union {NIL}
    OBVIOUS
  <2>5. Wired(apart, {c, d}, {})
    BY <2>3, <2>4, Tidy
  <2> QED
    BY <2>1, <2>3, <2>5 DEF Rest
<1> HIDE DEF apart, y
<1>7. /\ apart \in States /\ \A w \in Workspaces : IsInjective(apart.tiling[w])
      /\ \A w \in Workspaces : c \notin Range(apart.tiling[w]) /\ d \notin Range(apart.tiling[w])
      /\ apart.scratch = s.scratch /\ apart.alive = s.alive /\ apart.live = s.live /\ apart.minimized = s.minimized
  <2>1. apart \in States /\ Listed(apart, {c, d}) /\ c \in {c, d} /\ d \in {c, d}
    BY <1>6 DEF Wired
  <2> QED
    BY <1>2, <1>3, <1>6, <2>1 DEF Listed, Rest
<1>8. ASSUME a # b, f PROVE Wired(in, {}, {})
  <2>1. c = v /\ d = x
    BY <1>2, <1>3, <1>8
  <2>2. k1 \in States /\ ToWorkspace(apart, c, b, k1) /\ \A w \in Workspaces : k1.tiling[w] = apart.tiling[w]
    BY <1>3, <1>7, <2>1, ToFloating
  <2> HIDE DEF k1
  <2>3. l1 \in States /\ ToWorkspace(k1, d, a, l1)
    <3>1. IsInjective(k1.tiling[a])
      BY <1>2, <1>7, <2>2
    <3> QED
      BY <1>2, <2>1, <2>2, <3>1, ToFloating
  <2>4. crossed = l1
    BY <1>8 DEF f
  <2> HIDE DEF l1, crossed
  <2>5. Wired(Within(Within(l1, c, b), d, a), {}, {})
    BY <1>2, <1>3, <1>5, <1>6, <1>7, <2>2, <2>3, Crossed
  <2> QED
    BY <2>4, <2>5
<1>9. ASSUME a # b, ~f, i # 0, j # 0 PROVE Wired(in, {}, {})
  <2>1. i \in Nat \ {0} /\ j \in Nat \ {0} /\ c \notin apart.scratch /\ d \notin apart.scratch
    BY <1>2, <1>3, <1>4, <1>7, <1>9
  <2>2. /\ k2 \in States /\ ToWorkspace(apart, c, b, k2)
        /\ \A w \in Workspaces : w # b => k2.tiling[w] = apart.tiling[w]
    BY <1>2, <1>3, <1>7, <2>1, ToTiling
  <2> HIDE DEF k2
  <2>3. l2 \in States /\ ToWorkspace(k2, d, a, l2)
    <3>1. IsInjective(k2.tiling[a]) /\ d \notin Range(k2.tiling[a])
      BY <1>2, <1>3, <1>7, <1>9, <2>2
    <3>2. d \notin k2.scratch
      BY <2>1, <2>2 DEF ToWorkspace, Rest
    <3> QED
      BY <1>2, <1>3, <2>1, <2>2, <3>1, <3>2, ToTiling
  <2>4. crossed = l2
    BY <1>9 DEF f
  <2> HIDE DEF l2, crossed
  <2>5. Wired(Within(Within(l2, c, b), d, a), {}, {})
    BY <1>2, <1>3, <1>5, <1>6, <1>7, <2>2, <2>3, Crossed
  <2> QED
    BY <2>4, <2>5
<1> HIDE DEF in
<1>10. Wired(in, {}, {}) => Wired(t, {}, {})
  <2> SUFFICES ASSUME Wired(in, {}, {}) PROVE Wired(t, {}, {})
    OBVIOUS
  <2> DEFINE z == FullscreenReparent(in, c)
  <2>1. Wired(z, {}, {})
    BY <1>2, FullscreenReparentAlike, AlikeWired DEF Wired
  <2> HIDE DEF z
  <2>2. Wired(FullscreenReparent(z, d), {}, {})
    BY <1>3, <2>1, FullscreenReparentAlike, AlikeWired DEF Wired
  <2> QED
    BY <2>2 DEF z
<1> HIDE DEF t
<1>11. ASSUME a = b, i # 0, j # 0 PROVE Wired(sw, {}, {})
  <2>1. i \in 1..Len(s.tiling[a]) /\ j \in 1..Len(s.tiling[a])
    BY <1>4, <1>11
  <2> QED
    BY <1>2, <2>1, TilingSwapped
<1> HIDE DEF sw
<1> QED
  BY <1>1, <1>8, <1>9, <1>10, <1>11

LEMMA OverviewSwapWired ==
    ASSUME Sound(s), Wired(s, {}, {}), NEW v \in Views, NEW x \in Views, OverviewSwap(v, x)
    PROVE  Wired(s', {}, {})
<1>1. s' = FocusView(SwapOf(v, x), x)
  BY DEF OverviewSwap, Becomes, SwapOf
<1>2. /\ InTree(v) /\ InTree(x) /\ ColumnOf(v) # ColumnOf(x) /\ IsFloating(s, v) = IsFloating(s, x)
  BY DEF OverviewSwap, ColumnOf
<1>3. Sound(SwapOf(v, x)) /\ Wired(SwapOf(v, x), {}, {})
  BY <1>2, SwapOfSound, SwapOfWired DEF InTree
<1> QED
  BY <1>1, <1>3, FocusViewWired

LEMMA OverviewPullWired ==
    ASSUME Sound(s), Roomy(s), Wired(s, {}, {}), NEW v \in Views, NEW w \in Workspaces, OverviewPull(v, w)
    PROVE  Wired(s', {}, {})
<1> DEFINE n == Len(s.tiling[w]) + 1
<1>1. /\ s.ws[v] # NIL /\ w \in {Active(s, o) : o \in Range(s.outs)}
      /\ IF IsFloating(s, v)
           THEN s' = FocusView(PullFloating(s, v, w), v)
           ELSE \E i \in 1..n : s' = FocusView(PullColumn(s, v, w, i), v)
  BY DEF OverviewPull, InTree, Becomes
<1>2. \A i \in 1..n : i \in Nat \ {0}
  <2>1. s.tiling[w] \in Seq(Containers)
    BY DEF Sound, States
  <2>2. n \in Nat
    BY <2>1
  <2> QED
    BY <2>2
<1> HIDE DEF n
<1>3. s.alive[w] = "live"
  <2>1. PICK o \in Range(s.outs) : w = Active(s, o)
    BY <1>1
  <2>2. s \in States /\ Served(s, {}, {})
    BY DEF Sound
  <2>3. Active(s, o) = NIL \/ Active(s, o) \in On(s, o)
    BY <2>2, ActiveOn
  <2> QED
    BY <2>1, <2>3, Names DEF On
<1>4. Sound(PullFloating(s, v, w))
  BY <1>1, PullFloatingKeeps DEF Keeps
<1>5. \A i \in 1..n : Sound(PullColumn(s, v, w, i))
  BY <1>1, <1>2, PullColumnSound
<1>6. IsFloating(s, v) => Wired(PullFloating(s, v, w), {}, {})
  BY <1>1, <1>3, PullFloatingWired
<1>7. ~IsFloating(s, v) => \A i \in 1..n : Wired(PullColumn(s, v, w, i), {}, {})
  BY <1>1, <1>2, <1>3, PullColumnWired
<1>8. \A t : Sound(t) /\ Wired(t, {}, {}) => Wired(FocusView(t, v), {}, {})
  BY FocusViewWired
<1> QED
  BY <1>1, <1>4, <1>5, <1>6, <1>7, <1>8

-----------------------------------------------------------------------------
(* Workspaces move between outputs, and take their windows along.          *)

LEMMA PriorityAlike ==
    ASSUME NEW t \in States, NEW w \in Workspaces, NEW old, NEW o
    PROVE  Alike(t, OutputRaisePriority(t, w, old, o)) /\ Alike(t, OutputAddPriority(t, w, o))
<1>1. Alike(t, t) /\ \A q : Alike(t, [t EXCEPT !.prio[w] = q])
  <2>1. \A p : Alike(t, [t EXCEPT !.prio = p])
    BY DEF States, Alike
  <2>2. \A q : [t EXCEPT !.prio[w] = q] = [t EXCEPT !.prio = [t.prio EXCEPT ![w] = q]]
    BY DEF States
  <2> QED
    BY <2>1, <2>2 DEF Alike
<1> DEFINE i == IndexOf(t.prio[w], old)
           x == Raised(t.prio[w], i, o)
           y == Append(t.prio[w], o)
<1>2. OutputRaisePriority(t, w, old, o) = t \/ OutputRaisePriority(t, w, old, o) = [t EXCEPT !.prio[w] = x]
  BY DEF OutputRaisePriority
<1>3. OutputAddPriority(t, w, o) = t \/ OutputAddPriority(t, w, o) = [t EXCEPT !.prio[w] = y]
  BY DEF OutputAddPriority
<1> HIDE DEF x, y
<1> QED
  BY <1>1, <1>2, <1>3

LEMMA OnAlike ==
    ASSUME NEW t \in States, NEW w \in Workspaces, NEW o
    PROVE  Alike(t, [t EXCEPT !.on[w] = o])
<1>1. \A k : Alike(t, [t EXCEPT !.on = k])
  BY DEF States, Alike
<1>2. [t EXCEPT !.on[w] = o] = [t EXCEPT !.on = [t.on EXCEPT ![w] = o]]
  BY DEF States
<1> QED
  BY <1>1, <1>2

LEMMA MoveToOutputWired ==
    ASSUME NEW t, Sound(t), Wired(t, {}, {}), Free(t) # {}, NEW w \in Workspaces, t.alive[w] = "live",
           NEW o \in Range(t.outs), t.on[w] # o
    PROVE  Wired(MoveToOutput(t, w, o), {}, {})
<1> DEFINE old == t.on[w]
           shown == Active(t, o)
           a == [t EXCEPT !.on[w] = o]
           n == Lowest(Free(a))
           c == WorkspaceCreate(a, old, n)
           b == IF On(a, old) = {} THEN Raise(c, n) ELSE a
           d == WorkspaceConsiderDestroy(b, shown)
           u == OutputRaisePriority(d, w, old, o)
<1>1. MoveToOutput(t, w, o) = u
  BY DEF MoveToOutput
<1>2. t \in States /\ Served(t, {}, {}) /\ o \in Outputs
  <2>1. t \in States /\ Served(t, {}, {}) /\ t.outs \in Seq(Outputs)
    BY DEF Sound, States
  <2> QED
    BY <2>1, RangeSeq
<1>3. shown \in Workspaces /\ t.alive[shown] = "live"
  <2>1. On(t, o) # {}
    BY <1>2 DEF Served
  <2>2. shown \in On(t, o)
    BY <1>2, <2>1, ActiveOn
  <2> QED
    BY <2>2 DEF On
<1>4. /\ a \in States /\ a.alive = t.alive /\ Alike(t, a) /\ a.outs = t.outs /\ a.recent = t.recent
      /\ \A x \in Workspaces : a.on[x] = IF x = w THEN o ELSE t.on[x]
  BY <1>2, OnType, OnAlike
<1>5. old \in Range(t.outs) /\ old \in Outputs /\ Home(t) = Range(t.outs)
  <2>1. t.outs # <<>> /\ t.outs \in Seq(Outputs)
    <3>1. t.outs \in Seq(Outputs)
      BY <1>2 DEF States
    <3> QED
      BY <3>1, RangeSeq
  <2>2. old \in Range(t.outs)
    BY <1>2, <2>1 DEF Served, Home
  <2> QED
    BY <2>1, <2>2, RangeSeq DEF Home
<1> HIDE DEF shown, a
<1>6. Wired(a, {}, {})
  BY <1>4, AlikeWired
<1>7. Free(a) # {} /\ Home(a) = Home(t)
  BY <1>4 DEF Free, Home
<1>12. Served(a, {}, {old})
  <2>1. \A x \in Workspaces : a.on[x] # NIL <=> a.alive[x] = "live"
    <3>1. o # NIL
      BY <1>2, TreeAssumption DEF TreeAssumption
    <3> QED
      BY <1>2, <1>4, <3>1 DEF Served
  <2>2. \A x \in Workspaces : a.alive[x] = "live" => a.on[x] \in Home(a)
    BY <1>2, <1>4, <1>5, <1>7 DEF Served
  <2>3. \A x : x # old => On(t, x) \subseteq On(a, x)
    BY <1>4 DEF On
  <2> QED
    BY <1>2, <1>4, <2>1, <2>2, <2>3 DEF Served
<1> HIDE DEF old
<1>8. b \in States /\ Wired(b, {}, {}) /\ b.alive[shown] = "live"
  <2>1. CASE On(a, old) = {}
    <3>1. n \in Free(a) /\ n \in Workspaces
      BY <1>7, LowestFree DEF Free
    <3> HIDE DEF n
    <3>2. old \in Outputs \union {Fallback} /\ old \in Home(a) \union {}
      BY <1>5, <1>7
    <3>3. c \in States
      BY <1>4, <1>12, <3>1, <3>2, CreateServed
    <3>4. Wired(c, {}, {}) /\ c.alive[shown] = "live"
      BY <1>3, <1>4, <1>6, <3>1, <3>3, CreateWired
    <3> HIDE DEF c
    <3>5. Raise(c, n) \in States /\ Alike(c, Raise(c, n)) /\ Wired(Raise(c, n), {}, {})
      BY <3>1, <3>4, RaiseWired
    <3> QED
      BY <2>1, <3>4, <3>5 DEF Alike
  <2>2. CASE On(a, old) # {}
    BY <1>3, <1>4, <1>6, <2>2
  <2> QED
    BY <2>1, <2>2
<1> HIDE DEF b
<1>9. Wired(d, {}, {})
  BY <1>3, <1>8, ConsiderWired
<1> HIDE DEF d
<1>10. d \in States
  BY <1>9 DEF Wired
<1>11. u \in States /\ Alike(d, u)
  BY <1>2, <1>10, OutputRaisePriorityType, PriorityAlike
<1> HIDE DEF u
<1> QED
  BY <1>1, <1>9, <1>11, AlikeWired

LEMMA MoveWorkspaceWired ==
    ASSUME Sound(s), Wired(s, {}, {}), NEW w \in Workspaces, NEW o \in Outputs, MoveWorkspace(w, o)
    PROVE  Wired(s', {}, {})
<1> DEFINE t == MoveToOutput(s, w, o)
<1>1. /\ Free(s) # {} /\ s.alive[w] = "live" /\ s.on[w] # o /\ o \in Range(s.outs)
      /\ s' \in {t} \union Refocus(t, w)
  BY DEF MoveWorkspace, BecomesOneOf, Live
<1>2. Sound(t) /\ Wired(t, {}, {})
  BY <1>1, MoveToOutputSound, MoveToOutputWired
<1> HIDE DEF t
<1> QED
  BY <1>1, <1>2, RefocusWired

(* Windows stay where they are, shown or minimized, and what has some of   *)
(* them stays alive.                                                       *)
Spared(t, u) ==
    /\ u.live = t.live /\ u.ws = t.ws /\ u.pool = t.pool
    /\ u.tiling = t.tiling /\ u.floating = t.floating
    /\ \A w \in Workspaces : t.alive[w] = "live" /\ ~IsEmpty(t, w) => u.alive[w] = "live"

LEMMA AlikeSpared ==
    ASSUME NEW t, NEW u, Alike(t, u)
    PROVE  Spared(t, u)
BY DEF Alike, Spared

LEMMA SparedTwice ==
    ASSUME NEW t, NEW u, NEW k, Spared(t, u), Spared(u, k)
    PROVE  Spared(t, k)
BY DEF Spared, IsEmpty

LEMMA ConsiderSpared ==
    ASSUME NEW t, Wired(t, {}, {}), NEW w \in Workspaces, t.alive[w] = "live"
    PROVE  Spared(t, WorkspaceConsiderDestroy(t, w))
BY ConsiderWired DEF Spared, Still

LEMMA EmptySpared ==
    ASSUME NEW t, Wired(t, {}, {}), NEW w \in Workspaces, t.alive[w] = "live", IsEmpty(t, w)
    PROVE  Spared(t, WorkspaceBeginDestroy(t, w))
<1>1. t.tiling[w] = <<>> /\ t.floating[w] = {}
  BY DEF IsEmpty
<1>2. \A x \in Workspaces : ~IsEmpty(t, x) => x # w
  OBVIOUS
<1> QED
  BY <1>1, <1>2, BeginDestroyWired DEF Spared, Still

LEMMA CreateSpared ==
    ASSUME NEW t, Wired(t, {}, {}), NEW o, NEW w \in Free(t), WorkspaceCreate(t, o, w) \in States
    PROVE  Spared(t, WorkspaceCreate(t, o, w))
BY CreateWired DEF Spared, Still

LEMMA EvacuateWired ==
    ASSUME NEW t \in States, NEW o \in Outputs, Served(t, {o}, {}), Wired(t, {}, {}), NEW w \in On(t, o)
    PROVE  Wired(Evacuate(t, w), {}, {}) /\ Spared(t, Evacuate(t, w))
<1> DEFINE a == [t EXCEPT !.on[w] = NIL]
           best == HighestAvailable(a, w)
           to == IF best # NIL THEN best ELSE IF a.outs # <<>> THEN a.outs[1] ELSE Fallback
           shown == Active(a, to)
           p == OutputAddPriority(a, w, to)
           b == [p EXCEPT !.on[w] = to]
           x == WorkspaceBeginDestroy(a, w)
           y == WorkspaceConsiderDestroy(b, shown)
<1>1. Evacuate(t, w) = IF IsEmpty(a, w) THEN x ELSE IF shown = NIL THEN b ELSE y
  BY DEF Evacuate
<1>2. w \in Workspaces /\ t.alive[w] = "live"
  BY DEF On
<1>3. a \in States /\ a.alive = t.alive /\ a.recent = t.recent /\ a.outs = t.outs /\ Alike(t, a)
  BY <1>2, OnType, OnAlike
<1> HIDE DEF a
<1>4. Wired(a, {}, {}) /\ Spared(t, a)
  BY <1>3, AlikeWired, AlikeSpared
<1>5. IsEmpty(a, w) => Wired(x, {}, {}) /\ Spared(t, x)
  <2>1. IsEmpty(a, w) => a.tiling[w] = <<>> /\ a.floating[w] = {}
    BY DEF IsEmpty
  <2> HIDE DEF x
  <2>2. IsEmpty(a, w) => Spared(a, x)
    BY <1>2, <1>3, <1>4, EmptySpared DEF x
  <2>3. IsEmpty(a, w) => Spared(t, x)
    BY <1>4, <2>2, SparedTwice
  <2>4. IsEmpty(a, w) => Wired(x, {}, {})
    BY <1>2, <1>3, <1>4, <2>1, BeginDestroyWired DEF x
  <2> QED
    BY <2>3, <2>4
<1>6. to \in Outputs \union {Fallback}
  <2>1. t.outs \in Seq(Outputs)
    BY DEF States
  <2>2. \A z \in Range(t.outs) : z \in Outputs
    BY <2>1, RangeSeq
  <2>3. best \in Range(t.outs) \union {NIL}
    BY <1>2, <1>3, HighestAvailableType
  <2>4. t.outs # <<>> => t.outs[1] \in Outputs
    BY <2>1
  <2> HIDE DEF best
  <2> QED
    BY <1>3, <2>2, <2>3, <2>4
<1> HIDE DEF to
<1>7. b \in States /\ Alike(a, b)
  <2>1. p \in States /\ Alike(a, p)
    BY <1>2, <1>3, <1>6, OutputAddPriorityType, PriorityAlike
  <2> HIDE DEF p
  <2>2. b \in States /\ Alike(p, b)
    BY <1>2, <1>6, <2>1, OnType, OnAlike
  <2> QED
    BY <2>1, <2>2, AlikeTwice
<1> HIDE DEF b
<1>8. Wired(b, {}, {}) /\ b.alive = t.alive /\ Spared(t, b)
  <2>1. Wired(b, {}, {}) /\ b.alive = t.alive
    BY <1>3, <1>4, <1>7, AlikeWired DEF Alike
  <2>2. Spared(t, b)
    BY <1>4, <1>7, AlikeSpared, SparedTwice
  <2> QED
    BY <2>1, <2>2
<1>9. shown = NIL \/ (shown \in Workspaces /\ t.alive[shown] = "live")
  <2>1. Remembered(a)
    BY <1>3 DEF Remembered, Served
  <2>2. shown = NIL \/ shown \in On(a, to)
    BY <1>3, <2>1, ActiveRemembered
  <2> HIDE DEF shown
  <2> QED
    BY <1>3, <2>2 DEF On
<1> HIDE DEF shown
<1>10. shown # NIL => Wired(y, {}, {}) /\ Spared(t, y)
  <2> HIDE DEF y
  <2>1. shown # NIL => Wired(y, {}, {})
    BY <1>8, <1>9, ConsiderWired DEF y
  <2>2. shown # NIL => Spared(b, y)
    BY <1>8, <1>9, ConsiderSpared DEF y
  <2> QED
    BY <1>8, <2>1, <2>2, SparedTwice
<1> QED
  BY <1>1, <1>5, <1>8, <1>10

LEMMA OutputDisabledWired ==
    ASSUME NEW t, Sound(t), Wired(t, {}, {}), NEW o \in Range(t.outs)
    PROVE  Wired(OutputDisabled(t, o), {}, {}) /\ Spared(t, OutputDisabled(t, o))
<1> DEFINE n == Cardinality(On(t, o))
           q == RemoveFirst(t.outs, o)
           a == [t EXCEPT !.outs = q]
           f == [i \in 1..n |-> [u \in States |-> Evacuate(u, Lowest(On(u, o)))]]
           S == [i \in 0..n |-> {u \in States : /\ Served(u, {o}, {}) /\ u.outs = q /\ Wired(u, {}, {}) /\ Spared(t, u)
                                                /\ Cardinality(On(u, o)) = n - i}]
           r == Rounds(f, a, n)
<1>1. OutputDisabled(t, o) = r
  BY DEF OutputDisabled
<1>2. t \in States /\ Served(t, {}, {}) /\ t.outs \in Seq(Outputs) /\ IsInjective(t.outs)
  BY DEF Sound, Served, States
<1>3. q \in Seq(Outputs) /\ IsInjective(q) /\ Range(q) = Range(t.outs) \ {o}
  BY <1>2, RemoveFirstInjective
<1> HIDE DEF q
<1>4. o \in Outputs /\ t.outs # <<>> /\ Home(t) = Range(t.outs)
  <2>1. o \in Outputs /\ \E i \in 1..Len(t.outs) : t.outs[i] = o
    BY <1>2, RangeSeq
  <2>2. t.outs # <<>>
    BY <2>1
  <2> QED
    BY <2>1, <2>2 DEF Home
<1>5. \A u : On(u, o) \in SUBSET Nat /\ IsFiniteSet(On(u, o)) /\ Cardinality(On(u, o)) \in Nat
  <2>1. \A u : On(u, o) \subseteq Workspaces
    BY DEF On
  <2>2. Workspaces \subseteq Nat /\ IsFiniteSet(Workspaces)
    BY TreeAssumption DEF TreeAssumption
  <2> QED
    BY <2>1, <2>2, FS_Subset, FS_CardinalityType
<1>6. n \in Nat
  BY <1>5
<1>7. a \in S[0]
  <2>1. a \in States /\ a.alive = t.alive /\ a.on = t.on /\ a.recent = t.recent /\ a.outs = q
    BY <1>2, <1>3 DEF States
  <2>0. Alike(t, a)
    BY <1>2 DEF States, Alike
  <2> HIDE DEF a
  <2>2. \A x : On(a, x) = On(t, x)
    BY <2>1 DEF On
  <2>3. \A x \in Workspaces : a.alive[x] = "live" => a.on[x] \in Home(a) \union {o}
    BY <1>2, <1>3, <1>4, <2>1 DEF Served, Home
  <2>4. Served(a, {o}, {})
    BY <1>2, <1>3, <2>1, <2>2, <2>3 DEF Served
  <2>5. Wired(a, {}, {}) /\ Spared(t, a)
    BY <2>0, <2>1, AlikeWired, AlikeSpared
  <2> QED
    BY <1>6, <2>1, <2>2, <2>4, <2>5
<1>8. ASSUME NEW i \in 1..n, NEW y \in S[i - 1] PROVE f[i][y] \in S[i]
  <2> DEFINE w == Lowest(On(y, o))
             e == Evacuate(y, w)
  <2>1. /\ y \in States /\ Served(y, {o}, {}) /\ y.outs = q /\ Wired(y, {}, {}) /\ Spared(t, y)
        /\ Cardinality(On(y, o)) = n - (i - 1)
    <3>1. i - 1 \in 0..n
      BY <1>6
    <3> QED
      BY <3>1
  <2>2. f[i][y] = e
    BY <2>1
  <2>3. On(y, o) # {}
    <3>1. Cardinality(On(y, o)) # 0
      BY <1>6, <2>1
    <3> QED
      BY <3>1, FS_EmptySet
  <2>4. w \in On(y, o)
    BY <1>5, <2>3, LowestIn
  <2> HIDE DEF f, w
  <2>5. o \notin Range(y.outs)
    BY <1>3, <2>1
  <2>6. /\ e \in States /\ Served(e, {o}, {}) /\ e.outs = q /\ On(e, o) = On(y, o) \ {w}
    BY <1>4, <2>1, <2>4, <2>5, EvacuateServed
  <2>7. Wired(e, {}, {}) /\ Spared(y, e)
    BY <1>4, <2>1, <2>4, EvacuateWired
  <2>10. Spared(t, e)
    BY <2>1, <2>7, SparedTwice
  <2> HIDE DEF e
  <2>8. Cardinality(On(e, o)) = n - i
    <3>1. Cardinality(On(y, o) \ {w}) = Cardinality(On(y, o)) - 1
      BY <1>5, <2>4, FS_RemoveElement
    <3> QED
      BY <1>6, <2>1, <2>6, <3>1
  <2>9. i \in 0..n
    BY <1>6
  <2> QED
    BY <2>2, <2>6, <2>7, <2>8, <2>9, <2>10
<1> HIDE DEF f, a
<1>9. r \in S[n]
  <2> HIDE DEF S, n
  <2> QED
    BY <1>6, <1>7, <1>8, RoundsReach
<1> HIDE DEF r
<1>10. n \in 0..n
  BY <1>6
<1> QED
  BY <1>1, <1>9, <1>10

LEMMA RestoreFromWired ==
    ASSUME NEW t \in States, NEW o \in Range(t.outs), Served(t, {Fallback}, {o}), Wired(t, {}, {}),
           NEW other \in Range(t.outs), other # o, Free(t) # {}
    PROVE  Wired(RestoreFrom(t, other, o), {}, {}) /\ Spared(t, RestoreFrom(t, other, o))
<1> DEFINE back == {w \in On(t, other) : HighestAvailable(t, w) = o}
           k == [w \in Workspaces |-> IF w \in back THEN o ELSE t.on[w]]
           a == [t EXCEPT !.on = k]
           n == Lowest(Free(a))
           u == WorkspaceCreate(a, other, n)
<1>1. RestoreFrom(t, other, o) = IF On(a, other) = {} THEN u ELSE a
  <2>1. a = [t EXCEPT !.on = [w \in Workspaces |-> IF w \in back THEN o ELSE @[w]]]
    BY DEF States
  <2> QED
    BY <2>1 DEF RestoreFrom
<1>2. o \in Outputs
  <2>1. t.outs \in Seq(Outputs)
    BY DEF States
  <2> QED
    BY <2>1, RangeSeq
<1> HIDE DEF back
<1>3. k \in [Workspaces -> Outputs \union {Fallback, NIL}]
  BY <1>2 DEF States
<1> HIDE DEF k
<1>4. a \in States /\ Alike(t, a) /\ a.alive = t.alive
  BY <1>3 DEF States, Alike
<1> HIDE DEF a
<1>5. Wired(a, {}, {}) /\ Spared(t, a)
  BY <1>4, AlikeWired, AlikeSpared
<1>6. RestoreFrom(t, other, o) \in States
  BY RestoreFromServed
<1>7. n \in Free(a)
  <2>1. Free(a) # {}
    BY <1>4 DEF Free
  <2> QED
    BY <2>1, LowestFree
<1> HIDE DEF n
<1>8. u \in States => Wired(u, {}, {}) /\ Spared(t, u)
  <2> HIDE DEF u
  <2>1. u \in States => Wired(u, {}, {}) /\ Spared(a, u)
    BY <1>5, <1>7, CreateWired, CreateSpared DEF u
  <2> QED
    BY <1>5, <2>1, SparedTwice
<1> QED
  BY <1>1, <1>5, <1>6, <1>8

LEMMA OutputEnabledWired ==
    ASSUME NEW t, Sound(t), Wired(t, {}, {}), NEW o \in Outputs, o \notin Range(t.outs),
           Free(t) # {}, Cardinality(Free(t)) >= Len(t.outs)
    PROVE  Wired(OutputEnabled(t, o), {}, {}) /\ Spared(t, OutputEnabled(t, o))
<1> DEFINE n == Len(t.outs)
           m == n + 1
           q == Append(t.outs, o)
           a == [t EXCEPT !.outs = q]
           f == [i \in DOMAIN q |-> [u \in States |-> IF q[i] = o THEN u ELSE RestoreFrom(u, q[i], o)]]
           S == [i \in 0..m |-> {u \in States : /\ Served(u, {Fallback}, {o}) /\ u.outs = q /\ Wired(u, {}, {}) /\ Spared(t, u)
                                                /\ Cardinality(Free(u)) >= n - i
                                                /\ On(u, o) = {} => Free(u) = Free(t)}]
           r == Rounds(f, a, Len(q))
           k == [w \in Workspaces |-> IF r.on[w] = Fallback THEN o ELSE r.on[w]]
           b == [r EXCEPT !.on = k]
           w == Lowest(Free(b))
           c == WorkspaceCreate(b, o, w)
           d == IF FocusedWs(b) = NIL THEN Raise(c, w) ELSE c
<1>1. t \in States /\ Served(t, {}, {}) /\ t.outs \in Seq(Outputs) /\ IsInjective(t.outs)
  BY DEF Sound, Served, States
<1>2. n \in Nat
  BY <1>1
<1>3. /\ q \in Seq(Outputs) /\ Len(q) = m /\ q[m] = o /\ DOMAIN q = 1..m
      /\ \A i \in 1..n : q[i] = t.outs[i]
  BY <1>1
<1> HIDE DEF q
<1>4. /\ \A i \in 1..n : q[i] # o
      /\ IsInjective(q) /\ Range(q) = Range(t.outs) \union {o}
  <2>1. \A i \in 1..n : q[i] \in Range(t.outs)
    BY <1>1, <1>3, RangeSeq
  <2>2. \A i \in 1..n : q[i] # o
    BY <2>1
  <2>3. \A i, j \in 1..n : t.outs[i] = t.outs[j] => i = j
    <3>1. DOMAIN t.outs = 1..n
      BY <1>1
    <3> QED
      BY <1>1, <3>1 DEF IsInjective
  <2>4. \A i \in 1..m : i \in 1..n \/ i = m
    BY <1>2
  <2>5. \A i, j \in 1..m : q[i] = q[j] => i = j
    BY <1>3, <2>2, <2>3, <2>4
  <2>6. IsInjective(q)
    BY <1>3, <2>5 DEF IsInjective
  <2>7. \A x : x \in Range(q) <=> \E i \in 1..m : q[i] = x
    BY <1>3, RangeSeq
  <2>8. \A x : x \in Range(t.outs) <=> \E i \in 1..n : t.outs[i] = x
    BY <1>1, RangeSeq
  <2>9. m \in 1..m /\ \A i \in 1..n : i \in 1..m
    BY <1>2
  <2>10. Range(q) = Range(t.outs) \union {o}
    BY <1>3, <2>4, <2>7, <2>8, <2>9
  <2> QED
    BY <2>2, <2>6, <2>10
<1>5. \A u : IsFiniteSet(Free(u)) /\ Cardinality(Free(u)) \in Nat
  <2>1. \A u : Free(u) \subseteq Workspaces
    BY DEF Free
  <2>2. IsFiniteSet(Workspaces)
    BY TreeAssumption DEF TreeAssumption
  <2> QED
    BY <2>1, <2>2, FS_Subset, FS_CardinalityType
<1>6. a \in S[0]
  <2>1. a \in States /\ a.alive = t.alive /\ a.on = t.on /\ a.recent = t.recent /\ a.outs = q
    BY <1>1, <1>3 DEF States
  <2>0. Alike(t, a)
    BY <1>1 DEF States, Alike
  <2> HIDE DEF a
  <2>6. Wired(a, {}, {}) /\ Spared(t, a)
    BY <2>0, <2>1, AlikeWired, AlikeSpared
  <2>2. (\A x : On(a, x) = On(t, x)) /\ Free(a) = Free(t)
    BY <2>1 DEF On, Free
  <2>3. \A x \in Workspaces : a.alive[x] = "live" => a.on[x] \in Home(a) \union {Fallback}
    BY <1>1, <1>4, <2>1 DEF Served, Home
  <2>4. Served(a, {Fallback}, {o})
    BY <1>1, <1>4, <2>1, <2>2, <2>3 DEF Served
  <2>5. 0 \in 0..m /\ Cardinality(Free(a)) >= n - 0
    BY <1>2, <1>5, <2>2
  <2> QED
    BY <2>1, <2>2, <2>4, <2>5, <2>6
<1>7. ASSUME NEW i \in 1..m, NEW y \in S[i - 1] PROVE f[i][y] \in S[i]
  <2> DEFINE e == RestoreFrom(y, q[i], o)
  <2>1. /\ y \in States /\ Served(y, {Fallback}, {o}) /\ y.outs = q /\ Wired(y, {}, {}) /\ Spared(t, y)
        /\ Cardinality(Free(y)) >= n - (i - 1)
        /\ On(y, o) = {} => Free(y) = Free(t)
    <3>1. i - 1 \in 0..m
      BY <1>2
    <3> QED
      BY <3>1
  <2>2. i \in 0..m
    BY <1>2
  <2>3. f[i][y] = IF q[i] = o THEN y ELSE e
    BY <1>3, <2>1
  <2> HIDE DEF f
  <2>4. CASE q[i] = o
    <3>1. Cardinality(Free(y)) >= n - i
      BY <1>2, <1>5, <2>1
    <3> QED
      BY <2>1, <2>2, <2>3, <2>4, <3>1
  <2>5. CASE q[i] # o
    <3>1. i <= n
      BY <1>2, <1>3, <2>5
    <3>2. Free(y) # {}
      <4>1. Cardinality(Free(y)) # 0
        BY <1>2, <1>5, <2>1, <3>1
      <4> QED
        BY <4>1, FS_EmptySet
    <3>3. o \in Range(y.outs) /\ q[i] \in Range(y.outs)
      BY <1>3, <1>4, <2>1, RangeSeq
    <3>4. /\ e \in States /\ Served(e, {Fallback}, {o}) /\ e.outs = y.outs
          /\ (Free(e) = Free(y) \/ \E x : Free(e) = Free(y) \ {x})
          /\ On(e, o) = {} => Free(e) = Free(y)
          /\ On(y, o) \subseteq On(e, o)
      BY <2>1, <2>5, <3>2, <3>3, RestoreFromServed
    <3>5. On(y, o) # {} => On(e, o) # {}
      BY <3>4
    <3>8. Wired(e, {}, {}) /\ Spared(y, e)
      BY <2>1, <2>5, <3>2, <3>3, RestoreFromWired
    <3>9. Spared(t, e)
      BY <2>1, <3>8, SparedTwice
    <3> HIDE DEF e
    <3>6. Cardinality(Free(e)) >= n - i
      <4>1. ASSUME NEW x, Free(e) = Free(y) \ {x}
            PROVE  Cardinality(Free(e)) >= Cardinality(Free(y)) - 1
        <5>1. CASE x \in Free(y)
          <6>1. Cardinality(Free(y) \ {x}) = Cardinality(Free(y)) - 1
            BY <1>5, <5>1, FS_RemoveElement
          <6> QED
            BY <1>5, <4>1, <6>1
        <5>2. CASE x \notin Free(y)
          <6>1. Free(e) = Free(y)
            BY <4>1, <5>2
          <6> QED
            BY <1>5, <6>1
        <5> QED
          BY <5>1, <5>2
      <4>2. Cardinality(Free(e)) >= Cardinality(Free(y)) - 1
        <5>1. CASE Free(e) = Free(y)
          BY <1>5, <5>1
        <5>2. CASE \E x : Free(e) = Free(y) \ {x}
          <6>1. PICK x : Free(e) = Free(y) \ {x}
            BY <5>2
          <6> QED
            BY <4>1, <6>1
        <5> QED
          BY <3>4, <5>1, <5>2
      <4> QED
        BY <1>2, <1>5, <2>1, <4>2
    <3>7. On(e, o) = {} => Free(e) = Free(t)
      BY <2>1, <3>4, <3>5
    <3> QED
      BY <2>1, <2>2, <2>3, <2>5, <3>4, <3>6, <3>7, <3>8, <3>9
  <2> QED
    BY <2>4, <2>5
<1>8. RestoreWorkspaces(a, o) = b
  <2>1. a.outs = q /\ a \in States
    BY <1>1, <1>3 DEF States
  <2>2. f = [i \in DOMAIN a.outs |-> [u \in States |->
               IF a.outs[i] = o THEN u ELSE RestoreFrom(u, a.outs[i], o)]]
    BY <2>1
  <2> HIDE DEF f, a
  <2>3. RestoreWorkspaces(a, o) =
          [r EXCEPT !.on = [x \in Workspaces |-> IF @[x] = Fallback THEN o ELSE @[x]]]
    BY <2>1, <2>2 DEF RestoreWorkspaces
  <2> HIDE DEF r
  <2> QED
    BY <2>3
<1>9. OutputEnabled(t, o) = IF On(b, o) # {} THEN b ELSE d
  BY <1>8 DEF OutputEnabled, a, q
<1> HIDE DEF f, a
<1>10. r \in S[m]
  <2> HIDE DEF S
  <2>1. m \in Nat /\ Len(q) = m
    BY <1>2, <1>3
  <2> HIDE DEF m
  <2> QED
    BY <1>6, <1>7, <2>1, RoundsReach
<1> HIDE DEF r
<1>11. /\ r \in States /\ Served(r, {Fallback}, {o}) /\ r.outs = q /\ Wired(r, {}, {}) /\ Spared(t, r)
       /\ On(r, o) = {} => Free(r) = Free(t)
  <2>1. m \in 0..m
    BY <1>2
  <2> QED
    BY <1>10, <2>1
<1> HIDE DEF S
<1>12. k \in [Workspaces -> Outputs \union {Fallback, NIL}]
  BY <1>11 DEF States
<1>13. \A x \in Workspaces : k[x] = IF r.on[x] = Fallback THEN o ELSE r.on[x]
  OBVIOUS
<1> HIDE DEF k
<1>14. b \in States /\ b.on = k /\ b.alive = r.alive /\ b.recent = r.recent /\ b.outs = q /\ Alike(r, b)
  BY <1>11, <1>12 DEF States, Alike
<1> HIDE DEF b
<1>15. Wired(b, {}, {}) /\ Spared(t, b)
  <2>1. Wired(b, {}, {}) /\ Spared(r, b)
    BY <1>11, <1>14, AlikeWired, AlikeSpared
  <2> QED
    BY <1>11, <2>1, SparedTwice
<1>19. Free(b) = Free(r) /\ On(r, o) \subseteq On(b, o)
  <2>1. Fallback # o
    BY TreeAssumption DEF TreeAssumption
  <2> QED
    BY <1>13, <1>14, <2>1 DEF Free, On
<1>16. Served(b, {}, {o})
  <2>1. Fallback \notin Range(q) /\ o # NIL /\ Fallback # NIL
    <3>1. Range(q) \subseteq Outputs
      BY <1>3, RangeSeq
    <3> QED
      BY <3>1, TreeAssumption DEF TreeAssumption
  <2>2. \A x \in Workspaces : b.on[x] # NIL <=> b.alive[x] = "live"
    BY <1>11, <1>13, <1>14, <2>1 DEF Served
  <2>3. \A x \in Workspaces : b.alive[x] = "live" => b.on[x] \in Home(b)
    <3>1. o \in Range(q) /\ Home(r) = Range(q) /\ Home(b) = Range(q)
      <4>1. q # <<>>
        BY <1>2, <1>3
      <4> QED
        BY <1>4, <1>11, <1>14, <4>1 DEF Home
    <3> QED
      BY <1>11, <1>13, <1>14, <3>1 DEF Served
  <2>4. \A x \in Range(b.outs) \ {o} : On(b, x) # {}
    <3>1. \A x \in Range(q) \ {o} : On(b, x) = On(r, x)
      BY <1>13, <1>14, <2>1 DEF On
    <3> QED
      BY <1>11, <1>14, <3>1 DEF Served
  <2> QED
    BY <1>4, <1>11, <1>14, <2>2, <2>3, <2>4 DEF Served
<1>17. CASE On(b, o) # {}
  BY <1>9, <1>15, <1>17
<1>18. CASE On(b, o) = {}
  <2>1. Free(b) # {}
    BY <1>11, <1>18, <1>19
  <2>2. w \in Free(b) /\ w \in Workspaces
    BY <2>1, LowestFree DEF Free
  <2> HIDE DEF w
  <2>3. o \in Outputs \union {Fallback} /\ o \in Home(b) \union {}
    BY <1>4, <1>14 DEF Home
  <2>4. c \in States
    BY <1>14, <1>16, <2>2, <2>3, CreateServed
  <2>5. Wired(c, {}, {}) /\ Spared(b, c)
    BY <1>15, <2>2, <2>4, CreateWired, CreateSpared
  <2> HIDE DEF c
  <2>6. Wired(Raise(c, w), {}, {}) /\ Spared(c, Raise(c, w))
    BY <2>2, <2>5, RaiseWired, AlikeSpared
  <2>7. Spared(t, c)
    BY <1>15, <2>5, SparedTwice
  <2>8. Spared(t, Raise(c, w))
    BY <2>6, <2>7, SparedTwice
  <2> QED
    BY <1>9, <1>18, <2>5, <2>6, <2>7, <2>8
<1> QED
  BY <1>17, <1>18

-----------------------------------------------------------------------------
(* The lists and the pointers of the tree tell the same, always.           *)

LEMMA InitWired ==
    ASSUME Init
    PROVE  Wired(s, {}, {})
<1>1. s \in States
  BY InitSound DEF Sound
<1>2. /\ \A c \in Containers : s.parent[c] = NIL /\ s.ws[c] = NIL
      /\ \A c \in Columns : s.kids[c] = <<>>
      /\ \A w \in Workspaces : s.tiling[w] = <<>> /\ s.floating[w] = {}
      /\ s.live = {} /\ s.scratch = {} /\ s.minimized = {} /\ s.crash = "no"
  BY DEF Init
<1>3. Range(<<>>) = {} /\ IsInjective(<<>>)
  BY DEF Range, IsInjective
<1>4. Listed(s, {})
  <2>1. \A p \in Columns : p # NIL
    BY Names
  <2>2. \A w \in Workspaces : w # NIL
    BY Names
  <2>3. \A v \in Views : v \in Containers
    BY Names
  <2> QED
    BY <1>2, <1>3, <2>1, <2>2, <2>3 DEF Listed
<1>5. Pointers(s, {})
  BY <1>2, Names DEF Pointers
<1>6. PutAway(s, {}) /\ Filled(s, {}) /\ s.crash # "destroyed twice"
  BY <1>2 DEF PutAway, Filled
<1> QED
  BY <1>1, <1>4, <1>5, <1>6 DEF Wired

LEMMA WindowStepWired ==
    ASSUME Sound(s), Roomy(s), Wired(s, {}, {}), NEW v \in Views, WindowStep(v)
    PROVE  Wired(s', {}, {})
<1>1. CASE \E w \in Workspaces, float, full \in BOOLEAN : Map(v, w, float, full)
  BY <1>1, MapWired
<1>2. CASE Unmap(v)
  BY <1>2, UnmapWired
<1>3. CASE SetFloating(v)
  BY <1>3, SetFloatingWired
<1>4. CASE \E m \in Modes : SetFullscreen(v, m)
  BY <1>4, SetFullscreenWired
<1>5. CASE \E i, j \in 1 .. Cardinality(Views) : MoveInDirection(v, i, j)
  BY <1>5, MoveInDirectionWired
<1>6. CASE Unsplit(v)
  BY <1>6, UnsplitWired
<1>7. CASE MoveToScratchpad(v)
  BY <1>7, MoveToScratchpadWired
<1>8. CASE ShowScratchpad(v)
  BY <1>8, ScratchpadShowWired DEF ShowScratchpad, Becomes
<1>9. CASE Minimize(v)
  BY <1>9, MinimizeWired
<1> QED
  BY <1>1, <1>2, <1>3, <1>4, <1>5, <1>6, <1>7, <1>8, <1>9 DEF WindowStep

LEMMA WorkspaceStepWired ==
    ASSUME Sound(s), Roomy(s), Wired(s, {}, {}), NEW w \in Workspaces, WorkspaceStep(w)
    PROVE  Wired(s', {}, {})
<1>1. CASE \E v \in Views : MoveContainer(v, w)
  BY <1>1, MoveContainerWired
<1>2. CASE \E v \in Views : Restore(v, w)
  BY <1>2, RestoreWired
<1>3. CASE \E v \in Views : OverviewPull(v, w)
  BY <1>3, OverviewPullWired
<1>4. CASE WorkspaceDestroy(w)
  BY <1>4, WorkspaceDestroyWired
<1>5. CASE Switch(w)
  BY <1>5, SwitchWired
<1>6. CASE \E o \in Outputs : MoveWorkspace(w, o)
  BY <1>6, MoveWorkspaceWired
<1> QED
  BY <1>1, <1>2, <1>3, <1>4, <1>5, <1>6 DEF WorkspaceStep

(* Sound and Wired(s, {}, {}) together are inductive. *)
LEMMA NextWired ==
    ASSUME Sound(s), Wired(s, {}, {}), [Next]_s
    PROVE  Wired(s', {}, {})
<1>1. CASE UNCHANGED s
  BY <1>1
<1>2. CASE Next
  <2>1. Roomy(s)
    BY <1>2 DEF Next, Roomy
  <2>2. CASE \E v \in Views : WindowStep(v)
    BY <2>1, <2>2, WindowStepWired
  <2>3. CASE \E v, x \in Views : OverviewSwap(v, x)
    BY <2>3, OverviewSwapWired
  <2>4. CASE \E w \in Workspaces : WorkspaceStep(w)
    BY <2>1, <2>4, WorkspaceStepWired
  <2>5. CASE \E o \in Outputs : OutputEnable(o)
    BY <2>5, OutputEnabledWired DEF OutputEnable, Becomes
  <2>6. CASE \E o \in Outputs : OutputDisable(o)
    BY <2>6, OutputDisabledWired DEF OutputDisable, Becomes
  <2> QED
    BY <1>2, <2>2, <2>3, <2>4, <2>5, <2>6 DEF Next
<1> QED
  BY <1>1, <1>2

(* A list that names nothing twice is as long as what it names. *)
LEMMA InjectiveUnique ==
    ASSUME NEW S, NEW q \in Seq(S), IsInjective(q)
    PROVE  Unique(q)
<1>1. DOMAIN q = 1..Len(q) /\ Len(q) \in Nat
  OBVIOUS
<1>2. /\ \A i \in 1..Len(q) : q[i] \in Range(q)
      /\ \A x \in Range(q) : \E i \in 1..Len(q) : q[i] = x
  BY RangeSeq
<1>3. q \in [1..Len(q) -> Range(q)]
  BY <1>1, <1>2
<1>4. q \in Bijection(1..Len(q), Range(q))
  BY <1>2, <1>3 DEF Bijection, Injection, Surjection, IsInjective
<1>5. ExistsBijection(1..Len(q), Range(q))
  BY <1>4 DEF ExistsBijection
<1> QED
  BY <1>1, <1>5, FS_CountingElements DEF Unique

LEMMA WiredLinked ==
    ASSUME Sound(s), Wired(s, {}, {})
    PROVE  Linked
<1>1. TypeOK /\ s.crash # "destroyed twice" /\ s \in States
  BY SoundTyped DEF Wired
<1>2. /\ s.kids \in [Columns -> Seq(Views)] /\ s.tiling \in [Workspaces -> Seq(Containers)]
      /\ s.floating \in [Workspaces -> SUBSET Views]
      /\ s.parent \in [Containers -> Columns \union {NIL}]
      /\ s.ws \in [Containers -> Workspaces \union {NIL}]
  BY <1>1 DEF States
<1>3. /\ \A p \in Columns : IsInjective(s.kids[p])
      /\ \A w \in Workspaces : IsInjective(s.tiling[w])
      /\ \A p \in Columns, v \in Views : v \in Range(s.kids[p]) <=> s.parent[v] = p
      /\ \A w \in Workspaces, c \in Containers :
            c \in Range(s.tiling[w]) \/ c \in s.floating[w] <=> s.parent[c] = NIL /\ s.ws[c] = w
  <2>1. Listed(s, {})
    BY DEF Wired
  <2> QED
    BY <2>1 DEF Listed
<1>4. /\ \A c \in Columns : s.parent[c] = NIL
      /\ \A v \in Views : s.parent[v] # NIL => s.ws[v] = s.ws[s.parent[v]]
      /\ \A c \in Containers : c \notin s.live => s.ws[c] = NIL
      /\ \A c \in Containers : s.parent[c] = NIL /\ s.ws[c] # NIL => s.alive[s.ws[c]] = "live"
  <2>1. Pointers(s, {})
    BY DEF Wired
  <2> QED
    BY <2>1 DEF Pointers
<1>5. /\ \A c \in Columns : c \in s.live => s.ws[c] # NIL
      /\ \A v \in Views : v \in s.live /\ s.parent[v] = NIL /\ s.ws[v] = NIL
                            => v \in s.scratch \/ v \in s.minimized
  <2>1. PutAway(s, {})
    BY DEF Wired
  <2> QED
    BY <2>1 DEF PutAway
<1>6. /\ \A p \in Columns : \A x \in Range(s.kids[p]) : x \in Views
      /\ \A w \in Workspaces : \A x \in Range(s.tiling[w]) : x \in Containers
      /\ \A p \in Columns : s.kids[p] = <<>> => \A x : x \notin Range(s.kids[p])
      /\ \A w \in Workspaces : (\A x : x \notin Range(s.tiling[w])) => s.tiling[w] = <<>>
  <2>1. ASSUME NEW S, NEW q \in Seq(S)
        PROVE  (q = <<>> => \A x : x \notin Range(q)) /\ ((\A x : x \notin Range(q)) => q = <<>>)
    <3>1. Len(q) \in Nat /\ \A i \in 1..Len(q) : q[i] \in Range(q)
      BY RangeSeq
    <3>2. q # <<>> => 1 \in 1..Len(q)
      BY <3>1
    <3>3. (q = <<>>) => Len(q) = 0
      OBVIOUS
    <3>4. \A x : x \in Range(q) <=> \E i \in 1..Len(q) : q[i] = x
      BY RangeSeq
    <3>5. Len(q) = 0 => \A x : x \notin Range(q)
      BY <3>4
    <3> QED
      BY <3>1, <3>2, <3>3, <3>5
  <2>2. \A p \in Columns : s.kids[p] \in Seq(Views)
    BY <1>2
  <2>3. \A w \in Workspaces : s.tiling[w] \in Seq(Containers)
    BY <1>2
  <2> QED
    BY <2>1, <2>2, <2>3, RangeSeq
<1>7. ASSUME Running, NEW c \in Columns, c \in s.live
      PROVE  s.kids[c] # <<>> /\ s.ws[c] # NIL /\ c \in Range(s.tiling[s.ws[c]])
  <2>1. PICK v \in Views : s.parent[v] = c
    BY <1>7 DEF Running, Wired, Filled
  <2>2. s.kids[c] # <<>>
    BY <1>3, <1>6, <2>1
  <2>3. s.ws[c] \in Workspaces /\ c \in Containers /\ c \notin Views
    BY <1>2, <1>5, <1>7, Names
  <2> QED
    BY <1>2, <1>3, <1>4, <2>2, <2>3, Names
<1>8. ASSUME NEW c \in Columns
      PROVE  Unique(s.kids[c]) /\ \A v \in Range(s.kids[c]) : s.parent[v] = c /\ s.ws[v] = s.ws[c]
  <2>1. s.kids[c] \in Seq(Views)
    BY <1>2
  <2>2. Unique(s.kids[c])
    BY <1>3, <2>1, InjectiveUnique
  <2> QED
    BY <1>3, <1>4, <1>6, <2>2, Names
<1>9. ASSUME NEW w \in Workspaces
      PROVE  /\ Unique(s.tiling[w])
             /\ \A c \in Range(s.tiling[w]) \union s.floating[w] :
                   c \in s.live /\ s.parent[c] = NIL /\ s.ws[c] = w
             /\ s.alive[w] # "live" => s.tiling[w] = <<>> /\ s.floating[w] = {}
  <2>1. s.tiling[w] \in Seq(Containers)
    BY <1>2
  <2>2. Unique(s.tiling[w])
    BY <1>3, <2>1, InjectiveUnique
  <2>3. \A c \in Range(s.tiling[w]) \union s.floating[w] :
           c \in Containers /\ c \in s.live /\ s.parent[c] = NIL /\ s.ws[c] = w
    <3>1. \A c \in Range(s.tiling[w]) \union s.floating[w] : c \in Containers
      BY <1>2, <1>6, Names
    <3> QED
      BY <1>3, <1>4, <3>1, Names
  <2>4. s.alive[w] # "live" => \A c : c \notin Range(s.tiling[w]) /\ c \notin s.floating[w]
    BY <1>4, <2>3, Names
  <2> QED
    BY <1>6, <2>2, <2>3, <2>4
<1>10. ASSUME NEW v \in Views, v \in s.live
       PROVE  \/ s.parent[v] # NIL /\ v \in Range(s.kids[s.parent[v]])
              \/ s.ws[v] # NIL /\ v \in Range(s.tiling[s.ws[v]]) \union s.floating[s.ws[v]]
              \/ s.ws[v] = NIL /\ v \in s.scratch \union s.minimized
  BY <1>2, <1>3, <1>5, <1>10, Names
<1> QED
  BY <1>1, <1>7, <1>8, <1>9, <1>10 DEF Linked

(* Whatever is done to windows, workspaces and outputs, a window is in the *)
(* one list that its parent and its workspace name, or put away; no column *)
(* is left empty or on a workspace that is gone; and nothing is destroyed  *)
(* twice (container_detach, container_reap_empty, workspace_consider_destroy, *)
(* root_scratchpad_show, container_minimized_show).                        *)
THEOREM TreeLinked == Spec => []Linked
<1>1. Init => Sound(s) /\ Wired(s, {}, {})
  BY InitSound, InitWired
<1>2. Sound(s) /\ Wired(s, {}, {}) /\ [Next]_s => Sound(s)' /\ Wired(s, {}, {})'
  BY NextSound, NextWired
<1>3. Sound(s) /\ Wired(s, {}, {}) => Linked
  BY WiredLinked
<1> QED
  BY <1>1, <1>2, <1>3, PTL DEF Spec

-----------------------------------------------------------------------------
(* The minimize pools.                                                     *)

(* A crash is the end, and so is the loss of a window. *)
LEMMA NextRunning ==
    ASSUME Next
    PROVE  Running
<1>1. CASE \E v \in Views : WindowStep(v)
  <2>1. PICK v \in Views : WindowStep(v)
    BY <1>1
  <2>2. (\E w \in Workspaces, float, full \in BOOLEAN : Map(v, w, float, full)) => Running
    BY DEF Map, Becomes
  <2>3. Unmap(v) => Running
    BY DEF Unmap, BecomesOneOf
  <2>4. SetFloating(v) => Running
    BY DEF SetFloating, Becomes
  <2>5. (\E m \in Modes : SetFullscreen(v, m)) => Running
    BY DEF SetFullscreen, BecomesOneOf
  <2>6. (\E i, j \in 1 .. Cardinality(Views) : MoveInDirection(v, i, j)) => Running
    BY DEF MoveInDirection, Becomes
  <2>7. Unsplit(v) \/ ShowScratchpad(v) => Running
    BY DEF Unsplit, ShowScratchpad, Becomes
  <2>8. MoveToScratchpad(v) \/ Minimize(v) => Running
    BY DEF MoveToScratchpad, Minimize, Becomes, BecomesOneOf
  <2> QED
    BY <2>1, <2>2, <2>3, <2>4, <2>5, <2>6, <2>7, <2>8 DEF WindowStep
<1>2. CASE \E v, x \in Views : OverviewSwap(v, x)
  BY <1>2 DEF OverviewSwap, Becomes
<1>3. CASE \E w \in Workspaces : WorkspaceStep(w)
  <2>1. PICK w \in Workspaces : WorkspaceStep(w)
    BY <1>3
  <2>2. (\E v \in Views : MoveContainer(v, w)) => Running
    BY DEF MoveContainer, Becomes
  <2>3. (\E v \in Views : Restore(v, w) \/ OverviewPull(v, w)) => Running
    BY DEF Restore, OverviewPull, Becomes
  <2>4. WorkspaceDestroy(w) => Running
    BY DEF WorkspaceDestroy, Becomes
  <2>5. Switch(w) \/ (\E o \in Outputs : MoveWorkspace(w, o)) => Running
    BY DEF Switch, MoveWorkspace, BecomesOneOf
  <2> QED
    BY <2>1, <2>2, <2>3, <2>4, <2>5 DEF WorkspaceStep
<1>4. CASE \E o \in Outputs : OutputEnable(o) \/ OutputDisable(o)
  BY <1>4 DEF OutputEnable, OutputDisable, Becomes
<1> QED
  BY <1>1, <1>2, <1>3, <1>4 DEF Next

LEMMA InitStowed ==
    ASSUME Init
    PROVE  Stowed(s, {})
BY DEF Init, Stowed

LEMMA NextStowed ==
    ASSUME Sound(s), Wired(s, {}, {}), Next, Stowed(s, {}), Running'
    PROVE  Stowed(s', {})
<1>1. Roomy(s) /\ s'.lost = {}
  BY DEF Next, Roomy, Running
<1>2. Kept(s, s') => Stowed(s', {})
  BY <1>1 DEF Kept
<1>3. ASSUME NEW v \in Views, WindowStep(v) PROVE Stowed(s', {})
  <2>1. CASE \E w \in Workspaces, float, full \in BOOLEAN : Map(v, w, float, full)
    BY <1>1, <1>2, <2>1, MapSound
  <2>2. CASE Unmap(v)
    BY <1>2, <2>2, UnmapSound
  <2>3. CASE SetFloating(v)
    <3>1. v \notin s.minimized
      BY <2>3 DEF SetFloating, InTree, Wired, PutAway
    <3> QED
      BY <1>1, <1>2, <2>3, <3>1, SetFloatingSound
  <2>4. CASE \E m \in Modes : SetFullscreen(v, m)
    BY <1>2, <2>4, SetFullscreenSound
  <2>5. CASE \E i, j \in 1 .. Cardinality(Views) : MoveInDirection(v, i, j)
    BY <1>2, <2>5, MoveInDirectionSound
  <2>6. CASE Unsplit(v)
    BY <1>2, <2>6, UnsplitSound
  <2>7. CASE MoveToScratchpad(v)
    BY <1>2, <2>7, MoveToScratchpadSound
  <2>8. CASE ShowScratchpad(v)
    <3>1. s' = ScratchpadShow(s, v)
      BY <2>8 DEF ShowScratchpad, Becomes
    <3> QED
      BY <1>2, <3>1, ScratchpadShowKeeps DEF Keeps
  <2>9. CASE Minimize(v)
    BY <1>1, <2>9, MinimizeWired
  <2> QED
    BY <1>3, <2>1, <2>2, <2>3, <2>4, <2>5, <2>6, <2>7, <2>8, <2>9 DEF WindowStep
<1>4. ASSUME NEW w \in Workspaces, WorkspaceStep(w) PROVE Stowed(s', {})
  <2>1. CASE \E v \in Views : MoveContainer(v, w)
    BY <1>1, <1>2, <2>1, MoveContainerSound
  <2>2. CASE \E v \in Views : Restore(v, w)
    BY <1>1, <1>2, <2>2, RestoreSound
  <2>3. CASE \E v \in Views : OverviewPull(v, w)
    BY <1>1, <1>2, <2>3, OverviewPullSound
  <2>4. CASE WorkspaceDestroy(w)
    BY <2>4, WorkspaceDestroySound
  <2>5. CASE Switch(w)
    BY <1>2, <2>5, SwitchSound
  <2>6. CASE \E o \in Outputs : MoveWorkspace(w, o)
    BY <1>2, <2>6, MoveWorkspaceSound
  <2> QED
    BY <1>4, <2>1, <2>2, <2>3, <2>4, <2>5, <2>6 DEF WorkspaceStep
<1>5. CASE \E v, x \in Views : OverviewSwap(v, x)
  BY <1>2, <1>5, OverviewSwapSound
<1>6. CASE \E o \in Outputs : OutputEnable(o)
  <2>1. PICK o \in Outputs : OutputEnable(o)
    BY <1>6
  <2> QED
    BY <1>2, <2>1, OutputEnabledSound DEF OutputEnable, Becomes
<1>7. CASE \E o \in Outputs : OutputDisable(o)
  <2>1. PICK o \in Outputs : OutputDisable(o)
    BY <1>7
  <2> QED
    BY <1>2, <2>1, OutputDisabledSound DEF OutputDisable, Becomes
<1> QED
  BY <1>3, <1>4, <1>5, <1>6, <1>7 DEF Next

LEMMA StowedPooled ==
    ASSUME Sound(s), Wired(s, {}, {}), Stowed(s, {})
    PROVE  Pooled
<1>1. \A w \in Live : w \in Workspaces /\ s.on[w] # NIL
  BY DEF Live, Sound, Served
<1>2. ASSUME NEW v \in s.minimized
      PROVE  LET pools == {w \in Live : v \in s.pool[w]}
             IN  /\ s.ws[v] = NIL /\ s.parent[v] = NIL
                 /\ Cardinality(pools) <= 1
                 /\ pools = {} => v \in s.scratch \union UNION {s.pool[w] : w \in Workspaces}
  <2> DEFINE pools == {w \in Live : v \in s.pool[w]}
  <2>1. v \in Views
    BY DEF Wired, States
  <2>2. s.ws[v] = NIL /\ s.parent[v] = NIL
    BY <2>1 DEF Wired, PutAway
  <2>3. \A w, x \in pools : w = x
    BY <1>1 DEF Stowed
  <2>4. Cardinality(pools) <= 1
    <3>1. CASE pools = {}
      BY <3>1, FS_EmptySet
    <3>2. CASE pools # {}
      <4>1. PICK w \in pools : TRUE
        BY <3>2
      <4>2. pools = {w}
        BY <2>3, <4>1
      <4> HIDE DEF pools
      <4> QED
        BY <4>2, FS_Singleton
    <3> QED
      BY <3>1, <3>2
  <2>5. v \in s.scratch \/ \E w \in Workspaces : v \in s.pool[w]
    BY DEF Stowed
  <2> QED
    BY <2>2, <2>4, <2>5
<1>3. \A w \in Live : s.pool[w] \subseteq s.minimized
  BY <1>1 DEF Stowed
<1> QED
  BY <1>2, <1>3 DEF Pooled

(* A minimized window is out of the tree and in the pool of one workspace  *)
(* at most, and in none only when it is in the scratchpad or waits for the *)
(* end of its workspace; the pools of living workspaces hold minimized     *)
(* windows alone: workspace_minimized_owner never has to choose            *)
(* (container_minimized_hide, container_minimized_show, workspace_destroy). *)
THEOREM TreePooled == Spec => []Pooled
<1> DEFINE Inv == Sound(s) /\ Wired(s, {}, {}) /\ (Running => Stowed(s, {}))
<1>1. Init => Inv
  BY InitSound, InitWired, InitStowed
<1>2. Inv /\ [Next]_s => Inv'
  <2>1. ASSUME Inv, Next PROVE Inv'
    <3>1. Running
      BY <2>1, NextRunning
    <3>2. Sound(s') /\ Wired(s', {}, {})
      BY <2>1, NextSound, NextWired
    <3>3. Running' => Stowed(s', {})
      BY <2>1, <3>1, NextStowed
    <3> QED
      BY <3>2, <3>3
  <2>2. ASSUME Inv, UNCHANGED s PROVE Inv'
    BY <2>2 DEF Running
  <2> QED
    BY <2>1, <2>2
<1>3. Inv => Pooled
  BY StowedPooled DEF Pooled
<1> QED
  BY <1>1, <1>2, <1>3, PTL DEF Spec

-----------------------------------------------------------------------------
(* Outputs come and go.                                                    *)

(* Only these two steps change the list of outputs. *)
LEMMA NextOutputs ==
    ASSUME Sound(s), Wired(s, {}, {}), [Next]_s, s'.outs # s.outs
    PROVE  Spared(s, s')
<1>1. s' # s /\ Next /\ Roomy(s)
  BY DEF Next, Roomy
<1>2. CASE \E v \in Views : WindowStep(v)
  BY <1>1, <1>2, WindowStepSound
<1>3. CASE \E v, x \in Views : OverviewSwap(v, x)
  BY <1>3, OverviewSwapSound
<1>4. CASE \E w \in Workspaces : WorkspaceStep(w)
  BY <1>1, <1>4, WorkspaceStepSound
<1>5. CASE \E o \in Outputs : OutputEnable(o)
  BY <1>5, OutputEnabledWired DEF OutputEnable, Becomes
<1>6. CASE \E o \in Outputs : OutputDisable(o)
  BY <1>6, OutputDisabledWired DEF OutputDisable, Becomes
<1> QED
  BY <1>1, <1>2, <1>3, <1>4, <1>5, <1>6 DEF Next

(* A workspace that a living container is on has one in its lists. *)
LEMMA NotEmpty ==
    ASSUME NEW t, Wired(t, {}, {}), NEW w \in Workspaces, NEW c \in t.live, t.ws[c] = w
    PROVE  ~IsEmpty(t, w)
<1>1. /\ t.live \subseteq Containers /\ t.parent \in [Containers -> Columns \union {NIL}]
      /\ t.tiling \in [Workspaces -> Seq(Containers)]
  BY DEF Wired, States
<1>2. /\ \A d \in Columns : t.parent[d] = NIL
      /\ \A v \in Views : t.parent[v] # NIL => t.ws[v] = t.ws[t.parent[v]]
  BY DEF Wired, Pointers
<1>3. \E d \in Containers : t.parent[d] = NIL /\ t.ws[d] = w
  <2>1. CASE t.parent[c] = NIL
    BY <1>1, <2>1
  <2>2. CASE t.parent[c] # NIL
    <3>1. c \in Views /\ t.parent[c] \in Columns
      BY <1>1, <1>2, <2>2 DEF Containers
    <3> QED
      BY <1>2, <2>2, <3>1 DEF Containers
  <2> QED
    BY <2>1, <2>2
<1>4. PICK d \in Containers : t.parent[d] = NIL /\ t.ws[d] = w
  BY <1>3
<1>5. d \in Range(t.tiling[w]) \/ d \in t.floating[w]
  BY <1>4 DEF Wired, Listed
<1>6. t.tiling[w] = <<>> => Range(t.tiling[w]) = {}
  BY DEF Range
<1> QED
  BY <1>5, <1>6 DEF IsEmpty

(* Outputs that come and go close no window, put none on another workspace *)
(* and take no workspace that has one: restore_workspaces and              *)
(* output_evacuate move whole workspaces and destroy only those that have  *)
(* neither windows nor a pool.                                             *)
THEOREM OutputsKeepAll == Spec => OutputsKeepWindows
<1>1. Init => Sound(s) /\ Wired(s, {}, {})
  BY InitSound, InitWired
<1>2. Sound(s) /\ Wired(s, {}, {}) /\ [Next]_s => Sound(s)' /\ Wired(s, {}, {})'
  BY NextSound, NextWired
<1>3. ASSUME Sound(s), Wired(s, {}, {}), [Next]_s, s'.outs # s.outs
      PROVE  /\ s'.live = s.live /\ s'.ws = s.ws /\ s'.pool = s.pool
             /\ \A w \in Live, v \in s.live : s.ws[v] = w \/ v \in s.pool[w] => s'.alive[w] = "live"
  <2>1. Spared(s, s')
    BY <1>3, NextOutputs
  <2>2. \A w \in Live, v \in s.live : s.ws[v] = w \/ v \in s.pool[w] => ~IsEmpty(s, w)
    <3>1. \A w \in Live : w \in Workspaces
      BY DEF Live
    <3>2. \A w \in Live, v \in s.live : s.ws[v] = w => ~IsEmpty(s, w)
      BY <1>3, <3>1, NotEmpty
    <3>3. \A w, v : v \in s.pool[w] => ~IsEmpty(s, w)
      BY DEF IsEmpty
    <3> QED
      BY <3>2, <3>3
  <2> QED
    BY <2>1, <2>2 DEF Spared, Live
<1>4. Sound(s) /\ Wired(s, {}, {}) /\ [Next]_s =>
        [s'.outs # s.outs =>
           /\ s'.live = s.live /\ s'.ws = s.ws /\ s'.pool = s.pool
           /\ \A w \in Live, v \in s.live : s.ws[v] = w \/ v \in s.pool[w] => s'.alive[w] = "live"]_s
  BY <1>3
<1> QED
  BY <1>1, <1>2, <1>4, PTL DEF Spec, OutputsKeepWindows
=============================================================================
