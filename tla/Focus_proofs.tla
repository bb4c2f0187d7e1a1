--------------------------- MODULE Focus_proofs ---------------------------
(***************************************************************************)
(* Proofs about the keyboard focus, for any windows, workspaces, outputs,  *)
(* layers and clients.  The functions of seat.c are operators from a       *)
(* record to a record that call each other; each gets one lemma that says  *)
(* what it makes of the parts of the invariant, and an action combines     *)
(* them.  The stack of nodes is only looked at through MostRecent.         *)
(***************************************************************************)
EXTENDS Focus, SequenceLemmas

-----------------------------------------------------------------------------
(***************************************************************************)
(* The inductive invariant.  x is a view whose node is destroyed already   *)
(* while its window is still on its workspace, NULL outside such a step.   *)
(***************************************************************************)

(* The stack holds the windows that are mapped and the workspaces that     *)
(* exist, and each output has one; what is fullscreen is where it is so.   *)
Placed(s, x) ==
    /\ s \in Seats /\ IsInjective(s.focus_stack)
    /\ \A v \in Views : v \in ToSet(s.focus_stack) <=> v # x /\ s.pending[v] # NULL
    /\ \A v \in Views : s.pending[v] # NULL => s.pending[v] \in ToSet(s.focus_stack)
    /\ \A o \in Outputs : \E w \in Live(s) : OutputOf[w] = o
    /\ \A w \in Workspaces : s.fullscreen[w] # NULL => s.pending[s.fullscreen[w]] = w

(* The first node of the stack is on the first workspace of the stack,     *)
(* which is the one the seat knows if the node is focused.                 *)
TopFirst(s) == MostRecent(s, Workspaces) = WorkspaceOf(s, FocusInactive(s))
WorkspaceKnown(s) == s.has_focus => s.workspace = WorkspaceOf(s, FocusInactive(s))

(* Of the windows in front of every workspace in the stack none is hidden  *)
(* by a fullscreen one further behind: they may come to its top unnoticed. *)
FrontClear(s) ==
    \A v \in Views :
        MostRecent(s, Workspaces \cup {v}) = v =>
            LET z == s.fullscreen[s.pending[v]]
            IN  z \in {v, NULL} \/ MostRecent(s, {v, z}) = z

StackInv(s, x) ==
    /\ Placed(s, x)
    /\ TopFirst(s) /\ WorkspaceKnown(s) /\ FrontClear(s)
    /\ s.workspace \in Live(s)
    /\ s.focused_layer # NULL => ~s.has_focus

(* Who has the keyboard. *)
ViewHasKeyboard(s) == ~s.locked /\ GetFocus(s) \in Views => s.keyboard = GetFocus(s)
LayerHasKeyboard(s) ==
    ~s.locked /\ s.focused_layer # NULL => s.keyboard = s.focused_layer
ExclusiveFocused(s) == ~s.locked /\ s.has_exclusive_layer => s.focused_layer # NULL
LockHasKeyboard(s) == s.locked /\ s.focused # NULL => s.keyboard = s.focused
LayersKeyed(s) == LayerHasKeyboard(s) /\ ExclusiveFocused(s) /\ LockHasKeyboard(s)
Keyed(s) == ViewHasKeyboard(s) /\ LayersKeyed(s)

LockInv(s) ==
    /\ s.focused = NULL <=> MappedSurfaces(s) = {}
    /\ s.focused # NULL => s.focused \in MappedSurfaces(s)
    /\ (s.locked /\ ~s.abandoned) \/ \A o \in Outputs : s.surface[o] = "none"

IInv ==
    /\ StackInv(seat, NULL)
    /\ Keyed(seat) /\ LockInv(seat)
-----------------------------------------------------------------------------
(***************************************************************************)
(* The stack.                                                              *)
(***************************************************************************)
IsStack(q) == q \in Seq(FocusNodes) /\ IsInjective(q)

LEMMA NullIsNoNode == NULL \notin FocusNodes
BY FocusAssumption DEF FocusNodes

LEMMA MostRecentFound ==
    ASSUME NEW s, IsStack(s.focus_stack), NEW S
    PROVE  /\ MostRecent(s, S) = NULL <=> ToSet(s.focus_stack) \cap S = {}
           /\ MostRecent(s, S) # NULL => MostRecent(s, S) \in ToSet(s.focus_stack) \cap S
<1> DEFINE q == s.focus_stack
           i == SelectInSeq(q, LAMBDA n : n \in S)
<1>1. \/ i = 0 /\ \A j \in 1..Len(q) : q[j] \notin S
      \/ i \in 1..Len(q) /\ q[i] \in S /\ \A j \in 1..(i-1) : q[j] \notin S
  BY SelectFirst DEF IsStack
<1>2. MostRecent(s, S) = IF i = 0 THEN NULL ELSE q[i]
  BY DEF MostRecent
<1>3. DOMAIN q = 1..Len(q) /\ Len(q) \in Nat /\ \A j \in 1..Len(q) : q[j] \in FocusNodes
  BY DEF IsStack
<1> HIDE DEF i
<1>4. CASE i = 0
  BY <1>1, <1>2, <1>3, <1>4 DEF ToSet
<1>5. CASE i # 0
  <2>1. q[i] \in ToSet(q) \cap S
    BY <1>1, <1>3, <1>5 DEF ToSet
  <2> QED
    BY <2>1, <1>1, <1>2, <1>3, <1>5, NullIsNoNode
<1> QED
  BY <1>4, <1>5

LEMMA MostRecentUnique ==
    ASSUME NEW s, IsStack(s.focus_stack), NEW S, NEW i \in 1..Len(s.focus_stack),
           s.focus_stack[i] \in S, \A j \in 1..(i-1) : s.focus_stack[j] \notin S
    PROVE  MostRecent(s, S) = s.focus_stack[i]
<1>1. SelectInSeq(s.focus_stack, LAMBDA n : n \in S) = i
  BY SelectFirstUnique DEF IsStack
<1>2. i # 0
  OBVIOUS
<1> QED
  BY <1>1, <1>2 DEF MostRecent

(* The most recent node of a set is that of any subset it is in.           *)
LEMMA MostRecentSubset ==
    ASSUME NEW s, IsStack(s.focus_stack), NEW S, NEW T,
           MostRecent(s, S) \in T, T \cap FocusNodes \subseteq S
    PROVE  MostRecent(s, T) = MostRecent(s, S)
<1> DEFINE q == s.focus_stack
           i == SelectInSeq(q, LAMBDA n : n \in S)
<1>1. \/ i = 0 /\ \A j \in 1..Len(q) : q[j] \notin S
      \/ i \in 1..Len(q) /\ q[i] \in S /\ \A j \in 1..(i-1) : q[j] \notin S
  BY SelectFirst DEF IsStack
<1>2. MostRecent(s, S) = IF i = 0 THEN NULL ELSE q[i]
  BY DEF MostRecent
<1>3. Len(q) \in Nat /\ DOMAIN q = 1..Len(q) /\ \A j \in 1..Len(q) : q[j] \in FocusNodes
  BY DEF IsStack
<1> HIDE DEF i
<1>4. CASE i = 0
  <2>1. ToSet(q) \cap T = {}
    BY <1>1, <1>3, <1>4 DEF ToSet
  <2> QED
    BY <2>1, <1>2, <1>4, MostRecentFound
<1>5. CASE i # 0
  <2>1. i \in 1..Len(q) /\ q[i] \in T /\ \A j \in 1..(i-1) : q[j] \notin T
    BY <1>1, <1>2, <1>3, <1>5
  <2> QED
    BY <2>1, <1>2, <1>5, MostRecentUnique
<1> QED
  BY <1>4, <1>5

LEMMA FirstIsMostRecent ==
    ASSUME NEW s, IsStack(s.focus_stack), NEW S, FocusInactive(s) \in S
    PROVE  MostRecent(s, S) = FocusInactive(s)
BY MostRecentSubset DEF FocusInactive

(* What is left of a stack without one of its nodes.                       *)
LEMMA WithoutIsStack ==
    ASSUME NEW q, IsStack(q), NEW n
    PROVE  LET r == RemoveFirst(q, n)
           IN  /\ IsStack(r)
               /\ ToSet(r) = ToSet(q) \ {n}
<1> DEFINE r == RemoveFirst(q, n)
<1> USE DEF IsStack
<1>1. /\ r \in Seq(FocusNodes)
      /\ n \notin ToSet(q) => r = q
      /\ n \in ToSet(q) =>
           \E i \in 1..Len(q) :
              /\ q[i] = n /\ Len(r) = Len(q) - 1
              /\ \A j \in 1..Len(r) : r[j] = IF j < i THEN q[j] ELSE q[j + 1]
  BY RemoveFirstShifts
<1> HIDE DEF r
<1>2. CASE n \notin ToSet(q)
  BY <1>1, <1>2 DEF r
<1>3. CASE n \in ToSet(q)
  <2>1. PICK i \in 1..Len(q) :
            /\ q[i] = n /\ Len(r) = Len(q) - 1
            /\ \A j \in 1..Len(r) : r[j] = IF j < i THEN q[j] ELSE q[j + 1]
    BY <1>1, <1>3
  <2>2. /\ DOMAIN q = 1..Len(q) /\ DOMAIN r = 1..Len(r)
        /\ Len(q) \in Nat /\ Len(r) \in Nat /\ i \in Nat
    BY <1>1, <2>1
  <2>3. \A a, b \in 1..Len(q) : q[a] = q[b] => a = b
    BY <2>2 DEF IsInjective
  <2>4. IsInjective(r)
    <3>1. ASSUME NEW a \in 1..Len(r), NEW b \in 1..Len(r), r[a] = r[b]
          PROVE  a = b
      BY <3>1, <2>1, <2>2, <2>3
    <3> QED
      BY <3>1, <2>2 DEF IsInjective
  <2>5. \A a \in 1..Len(r) : r[a] \in ToSet(q) \ {n}
    <3> TAKE a \in 1..Len(r)
    <3>1. CASE a < i
      BY <3>1, <2>1, <2>2, <2>3 DEF ToSet
    <3>2. CASE ~(a < i)
      BY <3>2, <2>1, <2>2, <2>3 DEF ToSet
    <3> QED
      BY <3>1, <3>2
  <2>6. \A a \in 1..Len(q) : q[a] # n => q[a] \in ToSet(r)
    <3> SUFFICES ASSUME NEW a \in 1..Len(q), q[a] # n
                 PROVE  \E b \in 1..Len(r) : r[b] = q[a]
      BY <2>2 DEF ToSet
    <3>1. CASE a < i
      <4>1. a \in 1..Len(r) /\ r[a] = q[a]
        BY <3>1, <2>1, <2>2
      <4> QED
        BY <4>1
    <3>2. CASE a > i
      <4>1. a - 1 \in 1..Len(r) /\ ~(a - 1 < i) /\ (a - 1) + 1 = a
        BY <3>2, <2>1, <2>2
      <4> QED
        BY <4>1, <2>1
    <3> QED
      BY <3>1, <3>2, <2>1, <2>2
  <2>7. ToSet(r) = {r[a] : a \in 1..Len(r)} /\ ToSet(q) = {q[a] : a \in 1..Len(q)}
    BY <2>2 DEF ToSet
  <2>8. ToSet(r) \subseteq ToSet(q) \ {n}
    BY <2>5, <2>7
  <2>9. ToSet(q) \ {n} \subseteq ToSet(r)
    BY <2>6, <2>7
  <2> QED
    BY <1>1, <2>4, <2>8, <2>9 DEF r
<1> QED
  BY <1>2, <1>3

LEMMA MostRecentWithout ==
    ASSUME NEW s, NEW t, IsStack(s.focus_stack), NEW n, NEW S,
           t.focus_stack = RemoveFirst(s.focus_stack, n)
    PROVE  MostRecent(t, S) = MostRecent(s, S \ {n})
<1> DEFINE q == s.focus_stack
           r == t.focus_stack
           k == SelectInSeq(q, LAMBDA x : x \in S \ {n})
<1>1. /\ IsStack(r) /\ ToSet(r) = ToSet(q) \ {n}
  BY WithoutIsStack
<1>2. \/ k = 0 /\ \A j \in 1..Len(q) : q[j] \notin S \ {n}
      \/ k \in 1..Len(q) /\ q[k] \in S \ {n} /\ \A j \in 1..(k-1) : q[j] \notin S \ {n}
  BY SelectFirst DEF IsStack
<1>3. MostRecent(s, S \ {n}) = IF k = 0 THEN NULL ELSE q[k]
  BY DEF MostRecent
<1> HIDE DEF k
<1>4. DOMAIN q = 1..Len(q) /\ DOMAIN r = 1..Len(r) /\ Len(q) \in Nat /\ Len(r) \in Nat
  BY <1>1 DEF IsStack
<1>5. CASE k = 0
  <2>1. ToSet(q) \cap (S \ {n}) = {}
    BY <1>2, <1>4, <1>5 DEF ToSet
  <2>2. ToSet(r) \cap S = {}
    BY <1>1, <2>1
  <2> QED
    BY <1>1, <1>3, <1>5, <2>2, MostRecentFound
<1>6. CASE k # 0
  <2>1. k \in 1..Len(q) /\ q[k] \in S \ {n} /\ \A j \in 1..(k-1) : q[j] \notin S \ {n}
    BY <1>2, <1>6
  <2>2. CASE n \notin ToSet(q)
    <3>1. r = q
      BY <2>2, RemoveFirstShifts DEF IsStack
    <3>2. \A j \in 1..(k-1) : q[j] \in ToSet(q)
      BY <2>1, <1>4 DEF ToSet
    <3>3. \A j \in 1..(k-1) : q[j] \notin S
      BY <3>2, <2>1, <2>2
    <3> QED
      BY <3>1, <3>3, <2>1, <1>1, <1>3, <1>6, MostRecentUnique
  <2>3. CASE n \in ToSet(q)
    <3>1. PICK i \in 1..Len(q) :
              /\ q[i] = n /\ Len(r) = Len(q) - 1
              /\ \A j \in 1..Len(r) : r[j] = IF j < i THEN q[j] ELSE q[j + 1]
      BY <2>3, RemoveFirstShifts DEF IsStack
    <3>2. k # i /\ k \in Nat /\ i \in Nat
      BY <2>1, <3>1, <1>4
    <3>3. \A a \in 1..Len(q) : q[a] = n => a = i
      BY <3>1, <1>4 DEF IsStack, IsInjective
    <3>4. CASE k < i
      <4>1. k \in 1..Len(r) /\ r[k] = q[k]
        BY <3>1, <3>2, <3>4, <2>1, <1>4
      <4>2. ASSUME NEW j \in 1..(k-1)
            PROVE  r[j] \notin S
        <5>1. j \in 1..Len(q) /\ j \in 1..Len(r) /\ j < i /\ j # i
          BY <3>1, <3>2, <3>4, <2>1, <1>4
        <5>2. r[j] = q[j]
          BY <5>1, <3>1
        <5>3. q[j] # n
          BY <5>1, <3>3
        <5>4. q[j] \notin S \ {n}
          BY <2>1
        <5> QED
          BY <5>2, <5>3, <5>4
      <4>3. \A j \in 1..(k-1) : r[j] \notin S
        BY <4>2
      <4> QED
        BY <4>1, <4>3, <2>1, <1>1, <1>3, <1>6, MostRecentUnique
    <3>5. CASE k > i
      <4>1. k - 1 \in 1..Len(r) /\ ~(k - 1 < i) /\ (k - 1) + 1 = k
        BY <3>1, <3>2, <3>5, <2>1, <1>4
      <4>2. r[k - 1] = q[k]
        BY <3>1, <4>1
      <4>3. ASSUME NEW j \in 1..((k-1)-1)
            PROVE  r[j] \notin S
        <5>1. j \in Nat /\ j \in 1..Len(r) /\ j \in 1..(k-1) /\ j + 1 \in 1..(k-1)
          BY <3>1, <3>2, <4>1, <1>4
        <5>2. j + 1 \in 1..Len(q) /\ j \in 1..Len(q)
          BY <5>1, <2>1, <1>4
        <5>3. CASE j < i
          <6>1. r[j] = q[j] /\ q[j] # n
            BY <5>1, <5>2, <5>3, <3>1, <3>2, <3>3
          <6> QED
            BY <6>1, <5>1, <2>1
        <5>4. CASE ~(j < i)
          <6>1. r[j] = q[j + 1] /\ q[j + 1] # n
            BY <5>1, <5>2, <5>4, <3>1, <3>2, <3>3
          <6> QED
            BY <6>1, <5>1, <2>1
        <5> QED
          BY <5>3, <5>4
      <4> QED
        BY <4>1, <4>2, <4>3, <2>1, <1>1, <1>3, <1>6, MostRecentUnique
    <3> QED
      BY <3>2, <3>4, <3>5
  <2> QED
    BY <2>2, <2>3
<1> QED
  BY <1>5, <1>6

(***************************************************************************)
(* What a function of the seat leaves alone.                               *)
(***************************************************************************)
SameWorld(s, t) ==
    /\ t.pending = s.pending /\ t.fullscreen = s.fullscreen
    /\ t.interactive = s.interactive
    /\ t.locked = s.locked /\ t.abandoned = s.abandoned
    /\ t.surface = s.surface /\ t.focused = s.focused
SameLayer(s, t) ==
    t.focused_layer = s.focused_layer /\ t.has_exclusive_layer = s.has_exclusive_layer
SameFocus(s, t) == t.has_focus = s.has_focus /\ t.workspace = s.workspace
SameStack(s, t) == t.focus_stack = s.focus_stack

LEMMA SameStackSame ==
    ASSUME NEW s, NEW t, SameStack(s, t)
    PROVE  /\ \A S : MostRecent(t, S) = MostRecent(s, S)
           /\ FocusInactive(t) = FocusInactive(s) /\ Live(t) = Live(s)
           /\ \A o : ActiveWorkspace(t, o) = ActiveWorkspace(s, o)
           /\ \A w : Visible(t, w) <=> Visible(s, w)
<1>1. \A S : MostRecent(t, S) = MostRecent(s, S)
  BY DEF MostRecent, SameStack
<1> QED
  BY <1>1 DEF FocusInactive, Live, ActiveWorkspace, Visible, SameStack

LEMMA SetRawFocusStack ==
    ASSUME NEW s \in Seats, IsStack(s.focus_stack), NEW n \in FocusNodes
    PROVE  LET r == SetRawFocus(s, n)
           IN  /\ r \in Seats /\ IsStack(r.focus_stack)
               /\ ToSet(r.focus_stack) = ToSet(s.focus_stack) \cup {n}
               /\ \A S : MostRecent(r, S) = IF n \in S THEN n ELSE MostRecent(s, S)
               /\ SameWorld(s, r) /\ SameLayer(s, r) /\ SameFocus(s, r)
               /\ r.keyboard = s.keyboard
<1> DEFINE r == SetRawFocus(s, n)
           d == [s EXCEPT !.focus_stack = RemoveFirst(@, n)]
           q == RemoveFirst(s.focus_stack, n)
<1>1. IsStack(q) /\ ToSet(q) = ToSet(s.focus_stack) \ {n}
  BY WithoutIsStack
<1>2. r.focus_stack = <<n>> \o q
  BY DEF SetRawFocus, Seats
<1>3. d.focus_stack = q
  BY DEF Seats
<1>4. /\ SameWorld(s, r) /\ SameLayer(s, r) /\ SameFocus(s, r) /\ r.keyboard = s.keyboard
  BY DEF SetRawFocus, Seats, SameWorld, SameLayer, SameFocus
<1> HIDE DEF q
<1>5. q \in Seq(FocusNodes) /\ Len(q) \in Nat /\ DOMAIN q = 1..Len(q)
  BY <1>1 DEF IsStack
<1>6. /\ r.focus_stack \in Seq(FocusNodes)
      /\ Len(r.focus_stack) = Len(q) + 1 /\ DOMAIN r.focus_stack = 1..(Len(q) + 1)
      /\ r.focus_stack[1] = n
      /\ \A j \in 1..Len(q) : r.focus_stack[j + 1] = q[j]
  BY <1>2, <1>5
<1>7. r \in Seats
  BY <1>6 DEF SetRawFocus, Seats
<1> HIDE DEF r, d
<1>8. \A j \in 2..(Len(q) + 1) : j - 1 \in 1..Len(q) /\ r.focus_stack[j] = q[j - 1]
  <2> TAKE j \in 2..(Len(q) + 1)
  <2>1. j - 1 \in 1..Len(q) /\ (j - 1) + 1 = j
    BY <1>5
  <2> QED
    BY <2>1, <1>6
<1>9. \A j \in 1..Len(q) : q[j] \in ToSet(q) /\ q[j] # n
  BY <1>1, <1>5 DEF ToSet
<1>10. IsInjective(r.focus_stack)
  <2>1. \A a, b \in 1..Len(q) : q[a] = q[b] => a = b
    BY <1>1, <1>5 DEF IsStack, IsInjective
  <2>2. ASSUME NEW a \in 1..(Len(q) + 1), NEW b \in 1..(Len(q) + 1),
               r.focus_stack[a] = r.focus_stack[b]
        PROVE  a = b
    <3>1. a = 1 \/ a \in 2..(Len(q) + 1)
      BY <1>5
    <3>2. b = 1 \/ b \in 2..(Len(q) + 1)
      BY <1>5
    <3>3. CASE a = 1 /\ b = 1
      BY <3>3
    <3>4. CASE a = 1 /\ b \in 2..(Len(q) + 1)
      BY <3>4, <2>2, <1>6, <1>8, <1>9
    <3>5. CASE a \in 2..(Len(q) + 1) /\ b = 1
      BY <3>5, <2>2, <1>6, <1>8, <1>9
    <3>6. CASE a \in 2..(Len(q) + 1) /\ b \in 2..(Len(q) + 1)
      <4>1. a - 1 = b - 1
        BY <3>6, <2>2, <2>1, <1>8
      <4> QED
        BY <4>1, <1>5
    <3> QED
      BY <3>1, <3>2, <3>3, <3>4, <3>5, <3>6
  <2> QED
    BY <2>2, <1>6 DEF IsInjective
<1>11. ToSet(r.focus_stack) = ToSet(s.focus_stack) \cup {n}
  <2>1. \A j \in 1..(Len(q) + 1) : r.focus_stack[j] \in ToSet(q) \cup {n}
    <3> TAKE j \in 1..(Len(q) + 1)
    <3>1. j = 1 \/ j \in 2..(Len(q) + 1)
      BY <1>5
    <3> QED
      BY <3>1, <1>6, <1>8, <1>9
  <2>2. \A m \in ToSet(q) \cup {n} : \E j \in 1..(Len(q) + 1) : r.focus_stack[j] = m
    <3> TAKE m \in ToSet(q) \cup {n}
    <3>1. CASE m = n
      <4>1. 1 \in 1..(Len(q) + 1)
        BY <1>5
      <4> QED
        BY <3>1, <4>1, <1>6
    <3>2. CASE m \in ToSet(q)
      <4>1. PICK j \in 1..Len(q) : q[j] = m
        BY <3>2, <1>5 DEF ToSet
      <4>2. j + 1 \in 1..(Len(q) + 1)
        BY <1>5
      <4> QED
        BY <4>1, <4>2, <1>6
    <3> QED
      BY <3>1, <3>2
  <2>3. ToSet(r.focus_stack) = {r.focus_stack[j] : j \in 1..(Len(q) + 1)}
    BY <1>6 DEF ToSet
  <2>4. ToSet(r.focus_stack) = ToSet(q) \cup {n}
    BY <2>1, <2>2, <2>3
  <2> QED
    BY <2>4, <1>1
<1>12. IsStack(r.focus_stack)
  BY <1>6, <1>10 DEF IsStack
<1>13. ASSUME NEW S
       PROVE  MostRecent(r, S) = IF n \in S THEN n ELSE MostRecent(s, S)
  <2>1. CASE n \in S
    <3>1. 1 \in 1..Len(r.focus_stack) /\ \A j \in 1..(1-1) : r.focus_stack[j] \notin S
      BY <1>5, <1>6
    <3> QED
      BY <3>1, <2>1, <1>6, <1>12, MostRecentUnique
  <2>2. CASE n \notin S
    <3> DEFINE k == SelectInSeq(q, LAMBDA m : m \in S)
    <3>1. MostRecent(d, S) = MostRecent(s, S \ {n}) /\ S \ {n} = S
      BY <2>2, <1>3, MostRecentWithout DEF q
    <3>2. \/ k = 0 /\ \A j \in 1..Len(q) : q[j] \notin S
          \/ k \in 1..Len(q) /\ q[k] \in S /\ \A j \in 1..(k-1) : q[j] \notin S
      BY <1>5, SelectFirst
    <3>3. MostRecent(d, S) = IF k = 0 THEN NULL ELSE q[k]
      BY <1>3 DEF MostRecent
    <3> HIDE DEF k
    <3>4. CASE k = 0
      <4>1. ToSet(q) \cap S = {}
        BY <3>2, <3>4, <1>5 DEF ToSet
      <4>2. ToSet(r.focus_stack) \cap S = {}
        BY <4>1, <2>2, <1>1, <1>11
      <4> QED
        BY <4>2, <3>1, <3>3, <3>4, <2>2, <1>12, MostRecentFound
    <3>5. CASE k # 0
      <4>1. k \in 1..Len(q) /\ q[k] \in S /\ \A j \in 1..(k-1) : q[j] \notin S
        BY <3>2, <3>5
      <4>2. k + 1 \in 1..Len(r.focus_stack) /\ r.focus_stack[k + 1] = q[k] /\ (k + 1) - 1 = k
        BY <4>1, <1>5, <1>6
      <4>3. ASSUME NEW j \in 1..((k + 1) - 1)
            PROVE  r.focus_stack[j] \notin S
        <5>1. j = 1 \/ (j \in 2..(Len(q) + 1) /\ j - 1 \in 1..(k - 1))
          BY <4>1, <1>5
        <5> QED
          BY <5>1, <4>1, <1>6, <1>8, <2>2
      <4>4. MostRecent(r, S) = r.focus_stack[k + 1]
        BY <4>1, <4>2, <4>3, <1>12, MostRecentUnique
      <4> QED
        BY <4>2, <4>4, <3>1, <3>3, <3>5, <2>2
    <3> QED
      BY <3>4, <3>5
  <2> QED
    BY <2>1, <2>2
<1> QED
  BY <1>4, <1>7, <1>11, <1>12, <1>13 DEF r

LEMMA SeatNodeDestroyStack ==
    ASSUME NEW s \in Seats, IsStack(s.focus_stack), NEW n
    PROVE  LET r == SeatNodeDestroy(s, n)
           IN  /\ r \in Seats /\ IsStack(r.focus_stack)
               /\ ToSet(r.focus_stack) = ToSet(s.focus_stack) \ {n}
               /\ \A S : MostRecent(r, S) = MostRecent(s, S \ {n})
               /\ r.has_focus = (s.has_focus /\ ToSet(r.focus_stack) # {})
               /\ r.workspace = s.workspace
               /\ SameWorld(s, r) /\ SameLayer(s, r) /\ r.keyboard = s.keyboard
<1> DEFINE r == SeatNodeDestroy(s, n)
           q == RemoveFirst(s.focus_stack, n)
<1>1. IsStack(q) /\ ToSet(q) = ToSet(s.focus_stack) \ {n}
  BY WithoutIsStack
<1>2. r = [s EXCEPT !.focus_stack = q, !.has_focus = @ /\ q # << >>]
  BY DEF SeatNodeDestroy
<1> HIDE DEF q, r
<1>3. r.focus_stack = q /\ r.has_focus = (s.has_focus /\ q # << >>)
  BY <1>2 DEF Seats
<1>4. r \in Seats
  BY ZenonT(40), <1>1, <1>2 DEF Seats, IsStack
<1>5. q # << >> <=> ToSet(q) # {}
  BY <1>1 DEF ToSet, IsStack
<1>6. \A S : MostRecent(r, S) = MostRecent(s, S \ {n})
  BY <1>3, MostRecentWithout DEF q
<1>7. /\ r.workspace = s.workspace
      /\ SameWorld(s, r) /\ SameLayer(s, r) /\ r.keyboard = s.keyboard
  BY <1>2 DEF Seats, SameWorld, SameLayer
<1> QED
  BY <1>1, <1>3, <1>4, <1>5, <1>6, <1>7 DEF r

(* A new node goes to the end of the stack.                                *)
LEMMA AppendStack ==
    ASSUME NEW q, IsStack(q), NEW n \in FocusNodes, n \notin ToSet(q)
    PROVE  IsStack(Append(q, n)) /\ ToSet(Append(q, n)) = ToSet(q) \cup {n}
<1> DEFINE r == Append(q, n)
<1>1. q \in Seq(FocusNodes) /\ Len(q) \in Nat /\ DOMAIN q = 1..Len(q)
  BY DEF IsStack
<1>2. /\ r \in Seq(FocusNodes) /\ DOMAIN r = 1..(Len(q) + 1)
      /\ r[Len(q) + 1] = n
      /\ \A j \in 1..Len(q) : r[j] = q[j]
  BY <1>1
<1> HIDE DEF r
<1>3. \A j \in 1..(Len(q) + 1) : j \in 1..Len(q) \/ j = Len(q) + 1
  BY <1>1
<1>4. Len(q) + 1 \in 1..(Len(q) + 1) /\ \A j \in 1..Len(q) : j \in 1..(Len(q) + 1)
  BY <1>1
<1>5. \A j \in 1..Len(q) : q[j] \in ToSet(q) /\ q[j] # n
  BY <1>1 DEF ToSet
<1>6. IsInjective(r)
  <2>1. \A a, b \in 1..Len(q) : q[a] = q[b] => a = b
    BY <1>1 DEF IsStack, IsInjective
  <2>2. \A a, b \in 1..(Len(q) + 1) : r[a] = r[b] => a = b
    BY <2>1, <1>2, <1>3, <1>5
  <2> QED
    BY <2>2, <1>2 DEF IsInjective
<1>7. ToSet(r) = ToSet(q) \cup {n}
  <2>1. ToSet(r) = {r[j] : j \in 1..(Len(q) + 1)} /\ ToSet(q) = {q[j] : j \in 1..Len(q)}
    BY <1>1, <1>2 DEF ToSet
  <2>2. \A j \in 1..(Len(q) + 1) : r[j] \in ToSet(q) \cup {n}
    BY <1>2, <1>3, <1>5
  <2>3. ToSet(q) \cup {n} \subseteq ToSet(r)
    BY <2>1, <1>2, <1>4
  <2> QED
    BY <2>1, <2>2, <2>3
<1> QED
  BY <1>2, <1>6, <1>7 DEF r, IsStack

LEMMA MostRecentAppend ==
    ASSUME NEW s, NEW t, IsStack(s.focus_stack), NEW n \in FocusNodes,
           n \notin ToSet(s.focus_stack), t.focus_stack = Append(s.focus_stack, n),
           NEW S
    PROVE  MostRecent(t, S) = IF MostRecent(s, S) # NULL THEN MostRecent(s, S)
                              ELSE IF n \in S THEN n ELSE NULL
<1> DEFINE q == s.focus_stack
           r == t.focus_stack
           k == SelectInSeq(q, LAMBDA m : m \in S)
<1>1. q \in Seq(FocusNodes) /\ Len(q) \in Nat /\ DOMAIN q = 1..Len(q)
  BY DEF IsStack
<1>2. IsStack(r) /\ ToSet(r) = ToSet(q) \cup {n}
  BY AppendStack
<1>3. Len(r) = Len(q) + 1 /\ r[Len(q) + 1] = n /\ \A j \in 1..Len(q) : r[j] = q[j]
  BY <1>1
<1>4. \/ k = 0 /\ \A j \in 1..Len(q) : q[j] \notin S
      \/ k \in 1..Len(q) /\ q[k] \in S /\ \A j \in 1..(k-1) : q[j] \notin S
  BY <1>1, SelectFirst
<1>5. MostRecent(s, S) = IF k = 0 THEN NULL ELSE q[k]
  BY DEF MostRecent
<1> HIDE DEF k, r
<1>6. CASE k # 0
  <2>1. k \in 1..Len(q) /\ q[k] \in S /\ \A j \in 1..(k-1) : q[j] \notin S
    BY <1>4, <1>6
  <2>2. k \in 1..Len(r) /\ r[k] = q[k] /\ \A j \in 1..(k-1) : r[j] = q[j]
    BY <2>1, <1>1, <1>3
  <2>3. MostRecent(t, S) = q[k]
    BY <2>1, <2>2, <1>2, MostRecentUnique DEF r
  <2>4. q[k] # NULL
    BY <2>1, <1>1, NullIsNoNode
  <2> QED
    BY <2>3, <2>4, <1>5, <1>6
<1>7. CASE k = 0
  <2>1. MostRecent(s, S) = NULL /\ ToSet(q) \cap S = {}
    BY <1>4, <1>5, <1>7, <1>1 DEF ToSet
  <2>2. MostRecent(t, S) = NULL <=> ToSet(r) \cap S = {}
    BY <1>2, MostRecentFound DEF r
  <2>3. MostRecent(t, S) # NULL => MostRecent(t, S) \in ToSet(r) \cap S
    BY <1>2, MostRecentFound DEF r
  <2> QED
    BY <2>1, <2>2, <2>3, <1>2
<1> QED
  BY <1>6, <1>7

-----------------------------------------------------------------------------
(***************************************************************************)
(* Where nodes are.                                                        *)
(***************************************************************************)
LEMMA PlacedStack ==
    ASSUME NEW s, NEW x, Placed(s, x)
    PROVE  /\ s \in Seats /\ IsStack(s.focus_stack)
           /\ ToSet(s.focus_stack) \subseteq FocusNodes
           /\ ToSet(s.focus_stack) # {}
           /\ FocusInactive(s) \in ToSet(s.focus_stack)
           /\ \A o \in Outputs : ActiveWorkspace(s, o) \in Live(s)
                                 /\ OutputOf[ActiveWorkspace(s, o)] = o
<1>1. s \in Seats /\ IsStack(s.focus_stack)
  BY DEF Placed, IsStack, Seats
<1>2. ToSet(s.focus_stack) \subseteq FocusNodes
  BY <1>1 DEF IsStack, ToSet
<1>3. ASSUME NEW o \in Outputs
      PROVE  ActiveWorkspace(s, o) \in Live(s) /\ OutputOf[ActiveWorkspace(s, o)] = o
  <2> DEFINE S == {w \in Workspaces : OutputOf[w] = o}
  <2>1. ToSet(s.focus_stack) \cap S # {}
    BY DEF Placed, Live
  <2>2. MostRecent(s, S) \in ToSet(s.focus_stack) \cap S
    BY <1>1, <2>1, MostRecentFound
  <2> QED
    BY <2>2 DEF ActiveWorkspace, Live
<1>4. Outputs # {}
  BY FocusAssumption DEF Outputs, ToSet
<1>5. ToSet(s.focus_stack) # {}
  BY <1>3, <1>4 DEF Live
<1>6. FocusInactive(s) \in ToSet(s.focus_stack)
  BY <1>1, <1>2, <1>5, MostRecentFound DEF FocusInactive
<1> QED
  BY <1>1, <1>2, <1>3, <1>5, <1>6

LEMMA PlacedSame ==
    ASSUME NEW s, NEW t \in Seats, NEW x, Placed(s, x), IsInjective(t.focus_stack),
           ToSet(t.focus_stack) = ToSet(s.focus_stack),
           t.pending = s.pending, t.fullscreen = s.fullscreen
    PROVE  Placed(t, x)
BY DEF Placed, Live

LEMMA WorkspaceOfNode ==
    ASSUME NEW s, NEW x, Placed(s, x), NEW n \in ToSet(s.focus_stack)
    PROVE  /\ WorkspaceOf(s, n) \in Live(s)
           /\ n \in Views => s.pending[n] = WorkspaceOf(s, n) /\ s.pending[n] \in Workspaces
           /\ n \notin Views => WorkspaceOf(s, n) = n /\ n \in Workspaces
<1>1. n \in FocusNodes
  BY PlacedStack
<1>2. CASE n \in Views
  <2>1. s.pending[n] \in Workspaces \cup {NULL} /\ s.pending[n] # NULL
    BY <1>2 DEF Placed, Seats
  <2> QED
    BY <1>2, <2>1 DEF WorkspaceOf, Placed, Live
<1>3. CASE n \notin Views
  BY <1>1, <1>3 DEF WorkspaceOf, Live, FocusNodes
<1> QED
  BY <1>2, <1>3

(* The workspace of the first node is shown.                               *)
LEMMA TopShown ==
    ASSUME NEW s, NEW x, Placed(s, x), TopFirst(s)
    PROVE  Visible(s, WorkspaceOf(s, FocusInactive(s)))
<1> DEFINE w == WorkspaceOf(s, FocusInactive(s))
           S == {y \in Workspaces : OutputOf[y] = OutputOf[w]}
<1>1. w \in Live(s) /\ w \in S /\ S \subseteq Workspaces
  BY PlacedStack, WorkspaceOfNode DEF Live
<1>2. IsStack(s.focus_stack) /\ MostRecent(s, Workspaces) = w
  BY PlacedStack DEF TopFirst
<1> HIDE DEF w
<1>3. MostRecent(s, S) = w
  BY <1>1, <1>2, MostRecentSubset
<1> QED
  BY <1>1, <1>3 DEF Visible, ActiveWorkspace, w

SameWindows(s, t) == t.pending = s.pending /\ t.fullscreen = s.fullscreen

LEMMA SameWindowsPlaced ==
    ASSUME NEW s, NEW t \in Seats, NEW x, Placed(s, x), SameStack(s, t), SameWindows(s, t)
    PROVE  Placed(t, x)
BY PlacedSame DEF SameStack, SameWindows, Placed

LEMMA SamePlaced ==
    ASSUME NEW s, NEW t \in Seats, NEW x, Placed(s, x), SameStack(s, t), SameWorld(s, t)
    PROVE  Placed(t, x)
BY SameWindowsPlaced DEF SameWorld, SameWindows

(* What depends on the stack and on where the windows are.                 *)
LEMMA SameWindowsTop ==
    ASSUME NEW s, NEW t, SameStack(s, t), SameWindows(s, t)
    PROVE  /\ TopFirst(t) <=> TopFirst(s)
           /\ FrontClear(t) <=> FrontClear(s)
           /\ FocusInactive(t) = FocusInactive(s)
           /\ \A n : (Obstructed(t, n) <=> Obstructed(s, n))
           /\ \A n : WorkspaceOf(t, n) = WorkspaceOf(s, n)
           /\ SameFocus(s, t) => (WorkspaceKnown(t) <=> WorkspaceKnown(s))
           /\ t.has_focus = s.has_focus => GetFocus(t) = GetFocus(s)
<1>1. /\ t.pending = s.pending /\ t.fullscreen = s.fullscreen
  BY DEF SameWindows
<1>2. /\ \A S : MostRecent(t, S) = MostRecent(s, S)
      /\ FocusInactive(t) = FocusInactive(s)
      /\ \A w : Visible(t, w) <=> Visible(s, w)
  BY SameStackSame
<1>3. \A n : WorkspaceOf(t, n) = WorkspaceOf(s, n)
  BY <1>1 DEF WorkspaceOf
<1>4. FrontClear(t) <=> FrontClear(s)
  BY <1>1, <1>2 DEF FrontClear
<1>5. TopFirst(t) <=> TopFirst(s)
  BY <1>2, <1>3 DEF TopFirst
<1>6. \A n : (Obstructed(t, n) <=> Obstructed(s, n))
  BY <1>1 DEF Obstructed
<1>7. SameFocus(s, t) => (WorkspaceKnown(t) <=> WorkspaceKnown(s))
  BY <1>2, <1>3 DEF SameFocus, WorkspaceKnown
<1>8. t.has_focus = s.has_focus => GetFocus(t) = GetFocus(s)
  BY <1>2 DEF GetFocus
<1> QED
  BY <1>2, <1>3, <1>4, <1>5, <1>6, <1>7, <1>8

LEMMA SameTop ==
    ASSUME NEW s, NEW t, SameStack(s, t), SameWorld(s, t)
    PROVE  /\ TopFirst(t) <=> TopFirst(s)
           /\ FrontClear(t) <=> FrontClear(s)
           /\ FocusInactive(t) = FocusInactive(s)
           /\ \A n : (Obstructed(t, n) <=> Obstructed(s, n))
           /\ \A n : WorkspaceOf(t, n) = WorkspaceOf(s, n)
           /\ SameFocus(s, t) => (WorkspaceKnown(t) <=> WorkspaceKnown(s))
           /\ t.has_focus = s.has_focus => GetFocus(t) = GetFocus(s)
BY SameWindowsTop DEF SameWorld, SameWindows

(* An empty workspace that is not shown can go.                            *)
LEMMA ReapedPlaced ==
    ASSUME NEW s, NEW x, Placed(s, x), NEW w, Disposable(s, w)
    PROVE  LET r == SeatNodeDestroy(s, w)
           IN  /\ Placed(r, x)
               /\ Live(r) = Live(s) \ {w}
               /\ r.has_focus = s.has_focus
<1> DEFINE r == SeatNodeDestroy(s, w)
           o == OutputOf[w]
<1>1. s \in Seats /\ IsStack(s.focus_stack)
  BY PlacedStack
<1>2. /\ r \in Seats /\ IsStack(r.focus_stack)
      /\ ToSet(r.focus_stack) = ToSet(s.focus_stack) \ {w}
      /\ r.has_focus = (s.has_focus /\ ToSet(r.focus_stack) # {})
      /\ SameWorld(s, r)
  BY <1>1, SeatNodeDestroyStack
<1> HIDE DEF r
<1>3. w \in Live(s) /\ w \in Workspaces /\ w \notin Views
  BY FocusAssumption DEF Disposable, Live
<1>4. o \in Outputs
  BY <1>3, FocusAssumption
<1>5. ActiveWorkspace(s, o) \in Live(s) \ {w} /\ OutputOf[ActiveWorkspace(s, o)] = o
  BY <1>3, <1>4, PlacedStack DEF Disposable, Visible
<1>6. Live(r) = Live(s) \ {w}
  BY <1>2 DEF Live
<1>7. \A v \in Views : s.pending[v] # w
  BY DEF Disposable, ViewsIn
<1>8. \A p \in Outputs : \E y \in Live(r) : OutputOf[y] = p
  BY <1>5, <1>6 DEF Placed
<1>9. \A v \in Views : v \in ToSet(r.focus_stack) <=> v # x /\ r.pending[v] # NULL
  BY <1>2, <1>3 DEF Placed, SameWorld
<1>10. \A v \in Views : r.pending[v] # NULL => r.pending[v] \in ToSet(r.focus_stack)
  BY <1>2, <1>7 DEF Placed, SameWorld
<1>11. Placed(r, x)
  BY <1>2, <1>8, <1>9, <1>10 DEF Placed, SameWorld, IsStack
<1>12. ToSet(r.focus_stack) # {}
  BY <1>5, <1>6 DEF Live
<1>13. s.has_focus \in BOOLEAN
  BY <1>1 DEF Seats
<1>14. r.has_focus = s.has_focus
  BY <1>2, <1>12, <1>13
<1> QED
  BY <1>6, <1>11, <1>14 DEF r

LEMMA RaisedPlaced ==
    ASSUME NEW s, NEW x, Placed(s, x), NEW n \in ToSet(s.focus_stack)
    PROVE  LET r == SetRawFocus(s, n)
           IN  Placed(r, x) /\ ToSet(r.focus_stack) = ToSet(s.focus_stack) /\ Live(r) = Live(s)
<1> DEFINE r == SetRawFocus(s, n)
<1>1. s \in Seats /\ IsStack(s.focus_stack) /\ n \in FocusNodes
  BY PlacedStack
<1>2. /\ r \in Seats /\ IsStack(r.focus_stack)
      /\ ToSet(r.focus_stack) = ToSet(s.focus_stack) \cup {n}
      /\ SameWorld(s, r)
  BY <1>1, SetRawFocusStack
<1> HIDE DEF r
<1>3. ToSet(r.focus_stack) = ToSet(s.focus_stack)
  BY <1>2
<1>4. Placed(r, x)
  BY <1>2, <1>3, PlacedSame DEF SameWorld, IsStack
<1> QED
  BY <1>3, <1>4 DEF r, Live

-----------------------------------------------------------------------------
(***************************************************************************)
(* Setting the focus.                                                      *)
(***************************************************************************)
LEMMA UnfocusedFacts ==
    ASSUME NEW s \in Seats, IsStack(s.focus_stack)
    PROVE  LET r == Unfocused(s)
           IN  /\ r \in Seats /\ SameStack(s, r)
               /\ SameWorld(s, r) /\ SameLayer(s, r) /\ SameFocus(s, r)
               /\ r.keyboard = IF GetFocus(s) = NULL THEN s.keyboard ELSE NULL
BY DEF Unfocused, SendUnfocus, Seats, SameStack, SameWorld, SameLayer, SameFocus

(* A node that is focused comes to the top, its workspace right behind it. *)
LEMMA RaisedFacts ==
    ASSUME NEW s, NEW x, Placed(s, x), NEW n \in ToSet(s.focus_stack)
    PROVE  LET r == Raised(s, n)
               w == WorkspaceOf(s, n)
           IN  /\ Placed(r, x)
               /\ ToSet(r.focus_stack) = ToSet(s.focus_stack)
               /\ \A S : MostRecent(r, S) = IF n \in S THEN n
                                            ELSE IF w \in S THEN w ELSE MostRecent(s, S)
               /\ SameWorld(s, r) /\ SameLayer(s, r) /\ SameFocus(s, r)
               /\ r.keyboard = IF n \in Views /\ ~s.locked THEN n ELSE s.keyboard
<1> DEFINE w == WorkspaceOf(s, n)
           a == SetRawFocus(s, w)
           b == SetRawFocus(a, n)
           c == SetRawFocus(s, n)
           r == Raised(s, n)
<1>1. s \in Seats /\ IsStack(s.focus_stack) /\ n \in FocusNodes
  BY PlacedStack
<1>2. w \in Live(s) /\ w \in ToSet(s.focus_stack) /\ w \in FocusNodes
  BY WorkspaceOfNode DEF Live, FocusNodes
<1>3. CASE n \in Views
  <2>1. s.pending[n] = w
    BY <1>3, WorkspaceOfNode
  <2>2. r = SendFocus(b, n)
    BY <1>3, <2>1 DEF Raised
  <2>3. Placed(a, x) /\ ToSet(a.focus_stack) = ToSet(s.focus_stack)
    BY <1>2, RaisedPlaced
  <2>4. /\ a \in Seats /\ IsStack(a.focus_stack)
        /\ \A S : MostRecent(a, S) = IF w \in S THEN w ELSE MostRecent(s, S)
        /\ SameWorld(s, a) /\ SameLayer(s, a) /\ SameFocus(s, a) /\ a.keyboard = s.keyboard
    BY <1>1, <1>2, SetRawFocusStack
  <2> HIDE DEF a
  <2>5. Placed(b, x) /\ ToSet(b.focus_stack) = ToSet(s.focus_stack)
    BY <2>3, RaisedPlaced
  <2>6. /\ b \in Seats /\ IsStack(b.focus_stack)
        /\ \A S : MostRecent(b, S) = IF n \in S THEN n ELSE MostRecent(a, S)
        /\ SameWorld(a, b) /\ SameLayer(a, b) /\ SameFocus(a, b) /\ b.keyboard = a.keyboard
    BY <1>1, <2>4, SetRawFocusStack
  <2> HIDE DEF b
  <2>7. /\ r \in Seats /\ SameStack(b, r)
        /\ SameWorld(b, r) /\ SameLayer(b, r) /\ SameFocus(b, r)
        /\ r.keyboard = IF ~b.locked THEN n ELSE b.keyboard
    BY <1>3, <2>2, <2>6 DEF SendFocus, Seats, SameStack, SameWorld, SameLayer, SameFocus
  <2> HIDE DEF r
  <2>8. Placed(r, x)
    BY <2>5, <2>6, <2>7, PlacedSame DEF SameWorld, SameStack, IsStack
  <2>9. \A S : MostRecent(r, S) = MostRecent(b, S)
    BY <2>7, SameStackSame
  <2>10. \A S : MostRecent(r, S) = IF n \in S THEN n
                                   ELSE IF w \in S THEN w ELSE MostRecent(s, S)
    BY <2>4, <2>6, <2>9
  <2>11. /\ SameWorld(s, r) /\ SameLayer(s, r) /\ SameFocus(s, r)
         /\ r.keyboard = IF n \in Views /\ ~s.locked THEN n ELSE s.keyboard
         /\ ToSet(r.focus_stack) = ToSet(s.focus_stack)
    BY <1>3, <2>4, <2>5, <2>6, <2>7 DEF SameWorld, SameLayer, SameFocus, SameStack
  <2> QED
    BY <2>8, <2>10, <2>11 DEF r
<1>4. CASE n \notin Views
  <2>1. w = n
    BY <1>4, WorkspaceOfNode
  <2>2. r = c
    BY <1>4 DEF Raised
  <2>3. Placed(c, x) /\ ToSet(c.focus_stack) = ToSet(s.focus_stack)
    BY RaisedPlaced
  <2>4. /\ \A S : MostRecent(c, S) = IF n \in S THEN n ELSE MostRecent(s, S)
        /\ SameWorld(s, c) /\ SameLayer(s, c) /\ SameFocus(s, c) /\ c.keyboard = s.keyboard
    BY <1>1, SetRawFocusStack
  <2> QED
    BY <2>1, <2>2, <2>3, <2>4, <1>4
<1> QED
  BY <1>3, <1>4

(* What holds of the seat once node n has the focus.                       *)
OnTop(s, n) ==
    /\ FocusInactive(s) = n /\ s.has_focus
    /\ s.workspace = WorkspaceOf(s, n) /\ s.workspace \in Live(s)
    /\ TopFirst(s) /\ FrontClear(s)

LEMMA SameOnTop ==
    ASSUME NEW s, NEW t, NEW n, OnTop(s, n),
           SameStack(s, t), SameWorld(s, t), SameFocus(s, t)
    PROVE  OnTop(t, n)
BY SameTop, SameStackSame DEF OnTop, SameFocus

(* seat_set_workspace_focus, when it does not return early.                *)
LEMMA FocusSet ==
    ASSUME NEW s, NEW x, Placed(s, x), NEW n \in ToSet(s.focus_stack),
           GetFocus(s) # n, ~Obstructed(s, n)
    PROVE  LET r == SetWorkspaceFocus(s, n)
               last == ActiveWorkspace(s, OutputOf[WorkspaceOf(s, n)])
           IN  /\ Placed(r, x) /\ OnTop(r, n)
               /\ SameWorld(s, r) /\ SameLayer(s, r)
               /\ r.keyboard = IF n \in Views /\ ~s.locked THEN n
                               ELSE IF GetFocus(s) = NULL THEN s.keyboard ELSE NULL
               /\ ToSet(r.focus_stack) \subseteq ToSet(s.focus_stack)
               /\ \A m \in ToSet(s.focus_stack) \ ToSet(r.focus_stack) :
                     m = last /\ m # WorkspaceOf(s, n) /\ m \in Live(s) /\ ViewsIn(s, m) = {}
               /\ ViewsIn(s, last) = {} /\ last # WorkspaceOf(s, n) => last \notin Live(r)
               /\ \A o : o # OutputOf[WorkspaceOf(s, n)] =>
                            ActiveWorkspace(r, o) = ActiveWorkspace(s, o)
<1> DEFINE w == WorkspaceOf(s, n)
           last == ActiveWorkspace(s, OutputOf[w])
           u == Unfocused(s)
           a == Raised(u, n)
           m == [a EXCEPT !.workspace = w]
           d == SeatNodeDestroy(m, last)
           p == Reaped(m, last)
           r == [p EXCEPT !.has_focus = TRUE]
<1>1. /\ s \in Seats /\ IsStack(s.focus_stack)
      /\ n \in FocusNodes /\ n # NULL /\ ToSet(s.focus_stack) \subseteq FocusNodes
  BY PlacedStack, NullIsNoNode
<1>2. /\ w \in Live(s) /\ w \in Workspaces /\ w \in ToSet(s.focus_stack) /\ w \in FocusNodes
      /\ n \notin Views => w = n
      /\ n \in Views => w = s.pending[n]
      /\ OutputOf[w] \in Outputs
  BY WorkspaceOfNode, FocusAssumption DEF Live, FocusNodes
<1>3. SetWorkspaceFocus(s, n) = r
  BY <1>1 DEF SetWorkspaceFocus
<1>4. last \in Live(s) /\ OutputOf[last] = OutputOf[w] /\ last \in Workspaces
  BY <1>2, PlacedStack DEF Live
<1> HIDE DEF w, last
<1>5. /\ u \in Seats /\ SameStack(s, u)
      /\ SameWorld(s, u) /\ SameLayer(s, u) /\ SameFocus(s, u)
      /\ u.keyboard = IF GetFocus(s) = NULL THEN s.keyboard ELSE NULL
  BY <1>1, UnfocusedFacts
<1> HIDE DEF u
<1>6. Placed(u, x) /\ n \in ToSet(u.focus_stack) /\ w = WorkspaceOf(u, n)
      /\ \A S : MostRecent(u, S) = MostRecent(s, S)
  BY <1>1, <1>5, PlacedSame, SameStackSame DEF SameStack, SameWorld, IsStack, WorkspaceOf, w
<1>7. /\ Placed(a, x)
      /\ ToSet(a.focus_stack) = ToSet(s.focus_stack)
      /\ \A S : MostRecent(a, S) = IF n \in S THEN n
                                   ELSE IF w \in S THEN w ELSE MostRecent(s, S)
      /\ SameWorld(u, a) /\ SameLayer(u, a)
      /\ a.keyboard = IF n \in Views /\ ~u.locked THEN n ELSE u.keyboard
  BY <1>5, <1>6, RaisedFacts DEF SameStack
<1>8. a \in Seats /\ IsStack(a.focus_stack)
  BY <1>7, PlacedStack
<1> HIDE DEF a
<1>9. /\ m \in Seats /\ SameStack(a, m) /\ SameWorld(a, m) /\ SameLayer(a, m)
      /\ m.keyboard = a.keyboard /\ m.workspace = w
  BY <1>2, <1>8 DEF Seats, SameStack, SameWorld, SameLayer
<1>10. /\ Placed(m, x) /\ IsStack(m.focus_stack)
       /\ ToSet(m.focus_stack) = ToSet(s.focus_stack)
       /\ \A S : MostRecent(m, S) = IF n \in S THEN n
                                    ELSE IF w \in S THEN w ELSE MostRecent(s, S)
  <2>1. m.focus_stack = a.focus_stack /\ IsInjective(m.focus_stack)
    BY <1>8, <1>9 DEF SameStack, IsStack
  <2>2. m.pending = a.pending /\ m.fullscreen = a.fullscreen
    BY <1>9 DEF SameWorld
  <2>3. Placed(m, x)
    <3> HIDE DEF m
    <3> QED
      BY <2>1, <2>2, <1>7, <1>9, PlacedSame
  <2>4. \A S : MostRecent(m, S) = MostRecent(a, S)
    <3> HIDE DEF m
    <3> QED
      BY <1>9, SameStackSame
  <2> QED
    BY <2>1, <2>3, <2>4, <1>7, <1>8
<1>11. SameWorld(s, m) /\ SameLayer(s, m)
       /\ m.keyboard = (IF n \in Views /\ ~s.locked THEN n
                        ELSE IF GetFocus(s) = NULL THEN s.keyboard ELSE NULL)
  BY <1>5, <1>7, <1>9 DEF SameWorld, SameLayer
<1> HIDE DEF m
(* The workspace of n is shown now, so it does not go.                     *)
<1>12. ActiveWorkspace(m, OutputOf[w]) = w
  <2> DEFINE S == {y \in Workspaces : OutputOf[y] = OutputOf[w]}
  <2>1. w \in S /\ (n \in S => n = w)
    BY <1>2, FocusAssumption
  <2> QED
    BY <2>1, <1>10 DEF ActiveWorkspace
<1>13. Disposable(m, last) => last # w
  BY <1>4, <1>12 DEF Disposable, Visible
<1>14. /\ Placed(p, x) /\ IsStack(p.focus_stack) /\ p \in Seats
       /\ p.workspace = w /\ SameWorld(m, p) /\ SameLayer(m, p) /\ p.keyboard = m.keyboard
       /\ ToSet(p.focus_stack) = IF Disposable(m, last)
                                 THEN ToSet(m.focus_stack) \ {last} ELSE ToSet(m.focus_stack)
       /\ \A S : MostRecent(p, S) = IF Disposable(m, last)
                                    THEN MostRecent(m, S \ {last}) ELSE MostRecent(m, S)
  <2>1. CASE Disposable(m, last)
    <3>1. p = d
      BY <2>1 DEF Reaped
    <3>2. Placed(d, x)
      BY <2>1, <1>10, ReapedPlaced
    <3> QED
      BY <3>1, <3>2, <2>1, <1>9, <1>10, SeatNodeDestroyStack
  <2>2. CASE ~Disposable(m, last)
    <3>1. p = m
      BY <2>2 DEF Reaped
    <3> QED
      BY <3>1, <2>2, <1>9, <1>10 DEF SameWorld, SameLayer
  <2> QED
    BY <2>1, <2>2
<1> HIDE DEF p
<1>15. /\ r \in Seats /\ SameStack(p, r) /\ SameWorld(p, r) /\ SameLayer(p, r)
       /\ r.keyboard = p.keyboard /\ r.workspace = w /\ r.has_focus
  BY <1>14 DEF Seats, SameStack, SameWorld, SameLayer
<1> HIDE DEF r
<1>16. Placed(r, x) /\ \A S : MostRecent(r, S) = MostRecent(p, S)
  BY <1>14, <1>15, PlacedSame, SameStackSame DEF SameStack, SameWorld, IsStack
<1>17. \A S : /\ n \in S /\ n # last => MostRecent(r, S) = n
              /\ n \in S /\ ~Disposable(m, last) => MostRecent(r, S) = n
              /\ n \notin S /\ w \in S => MostRecent(r, S) = w
  <2> TAKE S
  <2>1. CASE Disposable(m, last)
    BY <2>1, <1>10, <1>13, <1>14, <1>16
  <2>2. CASE ~Disposable(m, last)
    BY <2>2, <1>10, <1>14, <1>16
  <2> QED
    BY <2>1, <2>2
<1>18. n = last => ~Disposable(m, last)
  BY <1>2, <1>4, <1>13, FocusAssumption
<1>19. \A S : n \in S => MostRecent(r, S) = n
  BY <1>17, <1>18
<1>20. FocusInactive(r) = n
  BY <1>1, <1>19 DEF FocusInactive
<1>21. WorkspaceOf(r, n) = w /\ SameWorld(s, r) /\ SameLayer(s, r)
       /\ r.keyboard = (IF n \in Views /\ ~s.locked THEN n
                        ELSE IF GetFocus(s) = NULL THEN s.keyboard ELSE NULL)
  BY <1>11, <1>14, <1>15 DEF SameWorld, SameLayer, WorkspaceOf, w
<1>22. w \in Live(r)
  <2>1. w \in ToSet(p.focus_stack)
    BY <1>2, <1>10, <1>13, <1>14
  <2> QED
    BY <2>1, <1>2, <1>15 DEF Live, SameStack
<1>23. TopFirst(r)
  <2>1. n \in Workspaces => n = w
    BY <1>2, FocusAssumption
  <2>2. MostRecent(r, Workspaces) = w
    BY <2>1, <1>2, <1>17, <1>19
  <2> QED
    BY <2>2, <1>20, <1>21 DEF TopFirst
<1>24. FrontClear(r)
  <2> SUFFICES ASSUME NEW v \in Views, MostRecent(r, Workspaces \cup {v}) = v
               PROVE  r.fullscreen[r.pending[v]] \in {v, NULL}
    BY DEF FrontClear
  <2>1. v \notin Workspaces
    BY FocusAssumption
  <2>2. n = v
    <3>1. n \in Workspaces \cup {v} => MostRecent(r, Workspaces \cup {v}) = n
      BY <1>19
    <3>2. n \notin Workspaces \cup {v} => MostRecent(r, Workspaces \cup {v}) = w
      BY <1>2, <1>17
    <3> QED
      BY <3>1, <3>2, <2>1, <1>2
  <2> QED
    BY <2>2, <1>21 DEF Obstructed, SameWorld
<1>25. OnTop(r, n)
  BY <1>15, <1>20, <1>21, <1>22, <1>23, <1>24 DEF OnTop
<1>26. /\ ToSet(r.focus_stack) \subseteq ToSet(s.focus_stack)
       /\ \A k \in ToSet(s.focus_stack) \ ToSet(r.focus_stack) :
             k = last /\ k # w /\ k \in Live(s) /\ ViewsIn(s, k) = {}
  BY <1>4, <1>10, <1>11, <1>13, <1>14, <1>15
     DEF SameStack, SameWorld, Disposable, ViewsIn
<1>27. ViewsIn(s, last) = {} /\ last # w => last \notin Live(r)
  <2> SUFFICES ASSUME ViewsIn(s, last) = {}, last # w
               PROVE  last \notin ToSet(r.focus_stack)
    BY DEF Live
  <2>1. ViewsIn(m, last) = {}
    BY <1>11 DEF ViewsIn, SameWorld
  <2>2. last \in Live(m)
    BY <1>4, <1>10 DEF Live
  <2>3. ~Visible(m, last)
    BY <1>4, <1>12 DEF Visible
  <2>4. FocusInactive(m) = n
    BY <1>1, <1>10 DEF FocusInactive
  <2>5. n # last
    BY <1>2, <1>4, FocusAssumption
  <2>6. Disposable(m, last)
    BY <2>1, <2>2, <2>3, <2>4, <2>5 DEF Disposable
  <2> QED
    BY <2>6, <1>14, <1>15 DEF SameStack
<1>28. ASSUME NEW o, o # OutputOf[w]
       PROVE  ActiveWorkspace(r, o) = ActiveWorkspace(s, o)
  <2> DEFINE S == {y \in Workspaces : OutputOf[y] = o}
  <2>1. n \notin S /\ w \notin S /\ S \ {last} = S
    BY <1>2, <1>4, <1>28, FocusAssumption
  <2> HIDE DEF S
  <2>2. MostRecent(r, S) = MostRecent(s, S)
    BY <2>1, <1>10, <1>14, <1>16
  <2> QED
    BY <2>2 DEF ActiveWorkspace, S
<1> QED
  BY <1>3, <1>16, <1>21, <1>25, <1>26, <1>27, <1>28 DEF w, last

(* What is at the top of the stack is not behind a fullscreen window.      *)
LEMMA FrontUnobstructed ==
    ASSUME NEW s, NEW x, Placed(s, x), FrontClear(s)
    PROVE  ~Obstructed(s, FocusInactive(s))
<1> DEFINE v == FocusInactive(s)
           z == s.fullscreen[s.pending[v]]
<1>1. /\ s \in Seats /\ IsStack(s.focus_stack) /\ v \in ToSet(s.focus_stack)
      /\ ToSet(s.focus_stack) \subseteq FocusNodes
  BY PlacedStack
<1> SUFFICES ASSUME v \in Views, z \notin {v, NULL}
             PROVE  FALSE
  BY DEF Obstructed
<1>2. \A S : v \in S => MostRecent(s, S) = v
  BY <1>1, NullIsNoNode, FirstIsMostRecent
<1>3. MostRecent(s, Workspaces \cup {v}) = v
  BY <1>2
<1>4. MostRecent(s, {v, z}) = z
  BY <1>3 DEF FrontClear
<1>5. MostRecent(s, {v, z}) = v
  BY <1>2
<1> QED
  BY <1>4, <1>5

LEMMA RedirectedFacts ==
    ASSUME NEW s \in Seats
    PROVE  LET r == Redirected(s)
           IN  /\ r \in Seats /\ SameStack(s, r)
               /\ SameWorld(s, r) /\ SameLayer(s, r) /\ SameFocus(s, r)
               /\ r.keyboard = IF s.locked THEN s.focused ELSE s.keyboard
BY ZenonT(40) DEF Redirected, SetFocusSurface, Seats, SameStack, SameWorld, SameLayer, SameFocus

(* seat_set_workspace_focus(seat, NULL)                                    *)
LEMMA FocusUnset ==
    ASSUME NEW s \in Seats, IsStack(s.focus_stack)
    PROVE  LET r == SetWorkspaceFocus(s, NULL)
           IN  /\ r \in Seats /\ SameStack(s, r) /\ SameWorld(s, r) /\ SameLayer(s, r)
               /\ r.workspace = s.workspace /\ ~r.has_focus
               /\ r.keyboard = IF GetFocus(s) = NULL THEN s.keyboard ELSE NULL
<1> DEFINE u == Unfocused(s)
           r == [u EXCEPT !.has_focus = FALSE]
<1>1. SetWorkspaceFocus(s, NULL) = r
  BY DEF SetWorkspaceFocus
<1>2. /\ u \in Seats /\ SameStack(s, u)
      /\ SameWorld(s, u) /\ SameLayer(s, u) /\ SameFocus(s, u)
      /\ u.keyboard = IF GetFocus(s) = NULL THEN s.keyboard ELSE NULL
  BY UnfocusedFacts
<1> HIDE DEF u
<1>3. /\ r \in Seats /\ SameStack(u, r) /\ SameWorld(u, r) /\ SameLayer(u, r)
      /\ r.workspace = u.workspace /\ ~r.has_focus /\ r.keyboard = u.keyboard
  BY ZenonT(40), <1>2 DEF Seats, SameStack, SameWorld, SameLayer
<1> HIDE DEF r
<1>4. SameStack(s, r) /\ SameWorld(s, r) /\ SameLayer(s, r)
  BY <1>2, <1>3 DEF SameStack, SameWorld, SameLayer
<1> QED
  BY <1>1, <1>2, <1>3, <1>4 DEF SameFocus

(* A layer loses the focus: the first node of the stack gets it, unless it *)
(* is behind a fullscreen window.                                          *)
LEMMA LayerLost ==
    ASSUME NEW s, NEW x, Placed(s, x), s.focused_layer # NULL, ~s.has_focus, TopFirst(s)
    PROVE  LET r == LayerLosesFocus(s)
               top == FocusInactive(s)
           IN  /\ Placed(r, x) /\ ToSet(r.focus_stack) = ToSet(s.focus_stack)
               /\ SameWorld(s, r) /\ r.focused_layer = NULL
               /\ r.has_exclusive_layer = s.has_exclusive_layer
               /\ \/ /\ OnTop(r, top) /\ ~Obstructed(s, top)
                     /\ top \in Views /\ ~s.locked => r.keyboard = top
                  \/ Obstructed(s, top) /\ SameStack(s, r) /\ SameFocus(s, r)
               /\ s.locked => r.keyboard = s.focused
<1> DEFINE top == FocusInactive(s)
           a == [s EXCEPT !.focused_layer = NULL]
           b == SetWorkspaceFocus(a, NULL)
           c == Redirected(b)
           d == SetWorkspaceFocus(c, top)
           r == Redirected(d)
<1>1. /\ s \in Seats /\ IsStack(s.focus_stack) /\ top \in ToSet(s.focus_stack)
      /\ top \in FocusNodes /\ top # NULL
  BY PlacedStack, NullIsNoNode
<1>2. LayerLosesFocus(s) = r
  BY <1>1 DEF LayerLosesFocus, SetFocusNoLayer
<1>3. /\ a \in Seats /\ SameStack(s, a) /\ SameWorld(s, a) /\ SameFocus(s, a)
      /\ a.focused_layer = NULL /\ a.has_exclusive_layer = s.has_exclusive_layer
  BY <1>1 DEF Seats, SameStack, SameWorld, SameFocus
<1> HIDE DEF a
<1>4. /\ b \in Seats /\ SameStack(a, b) /\ SameWorld(a, b) /\ SameLayer(a, b)
      /\ b.workspace = a.workspace /\ ~b.has_focus
  BY <1>1, <1>3, FocusUnset DEF SameStack
<1> HIDE DEF b
<1>5. /\ c \in Seats /\ SameStack(b, c) /\ SameWorld(b, c) /\ SameLayer(b, c)
      /\ SameFocus(b, c)
  BY <1>4, RedirectedFacts
<1> HIDE DEF c
<1>6. /\ SameStack(s, c) /\ SameWorld(s, c) /\ c.focused_layer = NULL
      /\ c.has_exclusive_layer = s.has_exclusive_layer /\ SameFocus(s, c) /\ ~c.has_focus
  BY <1>1, <1>3, <1>4, <1>5 DEF SameStack, SameWorld, SameFocus, SameLayer, Seats
<1>7. /\ Placed(c, x) /\ FocusInactive(c) = top /\ Live(c) = Live(s)
      /\ \A o : ActiveWorkspace(c, o) = ActiveWorkspace(s, o)
      /\ GetFocus(c) = NULL /\ WorkspaceOf(c, top) = WorkspaceOf(s, top)
      /\ Obstructed(c, top) <=> Obstructed(s, top)
  <2>1. Placed(c, x)
    BY <1>1, <1>5, <1>6, PlacedSame DEF SameStack, SameWorld, IsStack
  <2>2. FocusInactive(c) = top /\ Live(c) = Live(s)
        /\ \A o : ActiveWorkspace(c, o) = ActiveWorkspace(s, o)
    BY <1>6, SameStackSame
  <2> QED
    BY <2>1, <2>2, <1>6 DEF GetFocus, WorkspaceOf, Obstructed, SameWorld
<1>8. CASE Obstructed(s, top)
  <2>1. d = c
    BY <1>1, <1>7, <1>8 DEF SetWorkspaceFocus
  <2>2. /\ r \in Seats /\ SameStack(c, r) /\ SameWorld(c, r) /\ SameLayer(c, r)
        /\ SameFocus(c, r) /\ r.keyboard = IF c.locked THEN c.focused ELSE c.keyboard
    BY <2>1, <1>5, RedirectedFacts
  <2> HIDE DEF r
  <2>3. SameStack(s, r) /\ SameWorld(s, r) /\ SameFocus(s, r)
    BY <2>2, <1>6 DEF SameStack, SameWorld, SameFocus
  <2>4. Placed(r, x)
    BY <2>2, <2>3, <1>1, PlacedSame DEF SameStack, SameWorld, IsStack
  <2> QED
    BY <2>2, <2>3, <2>4, <1>2, <1>6, <1>8 DEF SameStack, SameWorld, SameLayer, r
<1>9. CASE ~Obstructed(s, top)
  <2> DEFINE last == ActiveWorkspace(c, OutputOf[WorkspaceOf(c, top)])
  <2>1. top \in ToSet(c.focus_stack) /\ GetFocus(c) # top /\ ~Obstructed(c, top)
    BY <1>1, <1>6, <1>7, <1>9 DEF SameStack
  <2>2. /\ Placed(d, x) /\ OnTop(d, top) /\ SameWorld(c, d) /\ SameLayer(c, d)
        /\ d.keyboard = IF top \in Views /\ ~c.locked THEN top
                        ELSE IF GetFocus(c) = NULL THEN c.keyboard ELSE NULL
        /\ ToSet(d.focus_stack) \subseteq ToSet(c.focus_stack)
        /\ \A m \in ToSet(c.focus_stack) \ ToSet(d.focus_stack) :
              m = last /\ m # WorkspaceOf(c, top)
    BY <2>1, <1>7, FocusSet
  <2>3. last = WorkspaceOf(c, top)
    BY <1>1, <1>7, TopShown DEF Visible
  <2> HIDE DEF last, d
  <2>4. ToSet(d.focus_stack) = ToSet(s.focus_stack)
    BY <2>2, <2>3, <1>6 DEF SameStack
  <2>5. d \in Seats /\ IsStack(d.focus_stack)
    BY <2>2, PlacedStack
  <2>6. /\ r \in Seats /\ SameStack(d, r) /\ SameWorld(d, r) /\ SameLayer(d, r)
        /\ SameFocus(d, r) /\ r.keyboard = IF d.locked THEN d.focused ELSE d.keyboard
    BY <2>5, RedirectedFacts
  <2> HIDE DEF r
  <2>7. Placed(r, x) /\ OnTop(r, top)
    BY <2>2, <2>5, <2>6, SamePlaced, SameOnTop DEF SameStack, SameWorld, IsStack
  <2>8. SameWorld(s, r) /\ r.focused_layer = NULL
        /\ r.has_exclusive_layer = s.has_exclusive_layer
        /\ ToSet(r.focus_stack) = ToSet(s.focus_stack)
    BY <2>2, <2>4, <2>6, <1>6 DEF SameWorld, SameLayer, SameStack
  <2>9. /\ top \in Views /\ ~s.locked => r.keyboard = top
        /\ s.locked => r.keyboard = s.focused
    BY <2>2, <2>6, <1>6 DEF SameWorld
  <2> QED
    BY <2>7, <2>8, <2>9, <1>2, <1>9 DEF r
<1> QED
  BY <1>8, <1>9

(* seat_set_focus_layer, of a layer surface.                               *)
LEMMA LayerSet ==
    ASSUME NEW s \in Seats, NEW l \in Layers
    PROVE  LET r == SetFocusLayer(s, l)
           IN  /\ r \in Seats /\ SameStack(s, r) /\ SameWorld(s, r)
               /\ r.workspace = s.workspace
               /\ s.locked => r = s
               /\ ~s.locked =>
                    /\ r.focused_layer = l
                    /\ r.has_exclusive_layer <=>
                         \/ s.has_exclusive_layer
                         \/ l \in TopLayers \cup OverlayLayers /\ s.interactive[l] = "exclusive"
                    /\ r.has_focus <=> s.has_focus /\ s.focused_layer = l
                    /\ r.keyboard = IF s.focused_layer = l THEN s.keyboard ELSE l
<1> DEFINE exclusive == l \in TopLayers \cup OverlayLayers /\ s.interactive[l] = "exclusive"
           a == [s EXCEPT !.has_exclusive_layer = @ \/ exclusive]
           r == SetFocusLayer(s, l)
<1>1. CASE s.locked
  <2>1. r = s
    BY <1>1 DEF SetFocusLayer
  <2> QED
    BY <2>1, <1>1 DEF SameStack, SameWorld
<1>2. CASE ~s.locked
  <2>1. /\ a \in Seats /\ SameStack(s, a) /\ SameWorld(s, a)
        /\ a.workspace = s.workspace /\ a.has_focus = s.has_focus /\ a.keyboard = s.keyboard
        /\ a.focused_layer = s.focused_layer
        /\ a.has_exclusive_layer = (s.has_exclusive_layer \/ exclusive)
    BY DEF Seats, SameStack, SameWorld
  <2>2. r = IF s.focused_layer = l THEN a
            ELSE [SetFocusSurface(a, l, TRUE) EXCEPT !.focused_layer = l]
    BY <1>2 DEF SetFocusLayer
  <2> HIDE DEF a, exclusive, r
  <2>3. CASE s.focused_layer = l
    <3>1. r = a /\ s.has_focus \in BOOLEAN
      BY <2>2, <2>3 DEF Seats
    <3> QED
      BY <3>1, <2>1, <2>3, <1>2 DEF exclusive, r
  <2>4. CASE s.focused_layer # l
    <3>1. r = [SetFocusSurface(a, l, TRUE) EXCEPT !.focused_layer = l]
      BY <2>2, <2>4
    <3>2. /\ r \in Seats /\ SameStack(a, r) /\ SameWorld(a, r)
          /\ r.workspace = a.workspace /\ r.has_focus = FALSE /\ r.keyboard = l
          /\ r.focused_layer = l /\ r.has_exclusive_layer = a.has_exclusive_layer
      BY ZenonT(40), <3>1, <2>1 DEF SetFocusSurface, Seats, SameStack, SameWorld
    <3>3. SameStack(s, r) /\ SameWorld(s, r)
      BY <3>2, <2>1 DEF SameStack, SameWorld
    <3> QED
      BY <3>2, <3>3, <2>1, <2>4, <1>2 DEF exclusive, r
  <2> QED
    BY <2>3, <2>4
<1> QED
  BY <1>1, <1>2

(* The end of seat_set_focus: an exclusive layer gets the focus back.      *)
LEMMA Regained ==
    ASSUME NEW s \in Seats, s.focused_layer = NULL, NEW l \in Layers \cup {NULL}
    PROVE  LET r == Redirected(LayerRegainsFocus(s, l))
           IN  /\ r \in Seats /\ SameStack(s, r) /\ SameWorld(s, r)
               /\ r.workspace = s.workspace
               /\ r.has_exclusive_layer = s.has_exclusive_layer
               /\ r.focused_layer = IF ~s.locked /\ s.has_exclusive_layer THEN l ELSE NULL
               /\ r.has_focus = (s.has_focus /\ r.focused_layer = NULL)
               /\ r.keyboard = IF s.locked THEN s.focused
                               ELSE IF r.focused_layer # NULL THEN l ELSE s.keyboard
<1> DEFINE a == LayerRegainsFocus(s, l)
           r == Redirected(a)
<1>1. /\ a \in Seats /\ SameStack(s, a) /\ SameWorld(s, a)
      /\ a.workspace = s.workspace
      /\ a.has_exclusive_layer = s.has_exclusive_layer
      /\ a.focused_layer = IF ~s.locked /\ s.has_exclusive_layer THEN l ELSE NULL
      /\ a.has_focus = (s.has_focus /\ a.focused_layer = NULL)
      /\ ~s.locked => a.keyboard = IF a.focused_layer # NULL THEN l ELSE s.keyboard
  <2>1. CASE s.has_exclusive_layer /\ l # NULL
    <3> DEFINE d == SetFocusLayer(s, l)
    <3>1. l \in Layers /\ a = d /\ s.focused_layer # l
      BY <2>1 DEF LayerRegainsFocus
    <3> HIDE DEF a
    <3>2. /\ a \in Seats /\ SameStack(s, a) /\ SameWorld(s, a)
          /\ a.workspace = s.workspace
          /\ s.locked => a = s
          /\ ~s.locked => /\ a.focused_layer = l /\ a.keyboard = l
                          /\ a.has_exclusive_layer \in BOOLEAN /\ a.has_exclusive_layer
                          /\ ~a.has_focus /\ a.has_focus \in BOOLEAN
      <4>1. /\ d \in Seats /\ SameStack(s, d) /\ SameWorld(s, d)
            /\ d.workspace = s.workspace
            /\ s.locked => d = s
            /\ ~s.locked =>
                 /\ d.focused_layer = l
                 /\ d.has_exclusive_layer <=>
                      \/ s.has_exclusive_layer
                      \/ l \in TopLayers \cup OverlayLayers /\ s.interactive[l] = "exclusive"
                 /\ d.has_focus <=> s.has_focus /\ s.focused_layer = l
                 /\ d.keyboard = IF s.focused_layer = l THEN s.keyboard ELSE l
        BY <3>1, LayerSet
      <4> HIDE DEF d
      <4>2. d.has_exclusive_layer \in BOOLEAN /\ d.has_focus \in BOOLEAN
        BY <4>1 DEF Seats
      <4>3. ~s.locked => d.has_exclusive_layer /\ ~d.has_focus
        BY <4>1, <3>1, <2>1
      <4> QED
        BY <4>1, <4>2, <4>3, <3>1
    <3>3. s.has_focus \in BOOLEAN /\ s.has_exclusive_layer = TRUE
      BY <2>1 DEF Seats
    <3>4. CASE s.locked
      BY <3>2, <3>3, <3>4
    <3>5. CASE ~s.locked
      <4>1. a.has_exclusive_layer = TRUE /\ a.has_focus = FALSE
        BY <3>2, <3>5
      <4> QED
        BY <4>1, <3>2, <3>3, <3>5, <2>1
    <3> QED
      BY <3>4, <3>5
  <2>2. CASE ~(s.has_exclusive_layer /\ l # NULL)
    <3>1. a = s
      BY <2>2 DEF LayerRegainsFocus
    <3> QED
      BY <3>1, <2>2 DEF SameStack, SameWorld, Seats
  <2> QED
    BY <2>1, <2>2
<1> HIDE DEF a
<1>2. /\ r \in Seats /\ SameStack(a, r)
      /\ SameWorld(a, r) /\ SameLayer(a, r) /\ SameFocus(a, r)
      /\ r.keyboard = IF a.locked THEN a.focused ELSE a.keyboard
  BY <1>1, RedirectedFacts
<1> HIDE DEF r
<1> QED
  BY <1>1, <1>2 DEF SameStack, SameWorld, SameLayer, SameFocus, r, a

(* Who is ready to have the focus moved.                                   *)
Ready(s, x) ==
    /\ Placed(s, x)
    /\ s.focused_layer # NULL => ~s.has_focus /\ TopFirst(s)

(* seat_set_focus, without its last step: the layer has lost the focus.    *)
LEMMA LayerGone ==
    ASSUME NEW s, NEW x, Ready(s, x)
    PROVE  LET r == LayerLosesFocus(s)
               top == FocusInactive(s)
           IN  /\ Placed(r, x) /\ ToSet(r.focus_stack) = ToSet(s.focus_stack)
               /\ SameWorld(s, r) /\ r.focused_layer = NULL
               /\ r.has_exclusive_layer = s.has_exclusive_layer
               /\ r.has_focus => FocusInactive(r) = top
               /\ \/ SameStack(s, r) /\ SameFocus(s, r) /\ GetFocus(r) = GetFocus(s)
                     /\ (s.focused_layer = NULL \/ Obstructed(s, top))
                  \/ OnTop(r, top) /\ s.focused_layer # NULL
               /\ ViewHasKeyboard(s) => ViewHasKeyboard(r)
<1> DEFINE r == LayerLosesFocus(s)
           top == FocusInactive(s)
<1>1. Placed(s, x)
  BY DEF Ready
<1>2. CASE s.focused_layer = NULL
  <2>1. r = s
    BY <1>2 DEF LayerLosesFocus
  <2> QED
    BY <2>1, <1>1, <1>2 DEF SameWorld, SameStack, SameFocus
<1>3. CASE s.focused_layer # NULL
  <2>1. ~s.has_focus /\ TopFirst(s)
    BY <1>3 DEF Ready
  <2>2. /\ Placed(r, x) /\ ToSet(r.focus_stack) = ToSet(s.focus_stack)
        /\ SameWorld(s, r) /\ r.focused_layer = NULL
        /\ r.has_exclusive_layer = s.has_exclusive_layer
        /\ \/ /\ OnTop(r, top) /\ ~Obstructed(s, top)
              /\ top \in Views /\ ~s.locked => r.keyboard = top
           \/ Obstructed(s, top) /\ SameStack(s, r) /\ SameFocus(s, r)
    BY <1>1, <1>3, <2>1, LayerLost
  <2> HIDE DEF r, top
  <2>3. CASE Obstructed(s, top) /\ SameStack(s, r) /\ SameFocus(s, r)
    <3>1. FocusInactive(r) = FocusInactive(s) /\ GetFocus(r) = GetFocus(s) /\ GetFocus(r) = NULL
      BY <2>1, <2>2, <2>3, SameTop DEF SameFocus, GetFocus
    <3>2. NULL \notin Views
      BY FocusAssumption
    <3> QED
      BY <3>1, <3>2, <2>2, <2>3 DEF r, top, ViewHasKeyboard
  <2>4. CASE /\ OnTop(r, top) /\ ~Obstructed(s, top)
             /\ top \in Views /\ ~s.locked => r.keyboard = top
    <3>1. FocusInactive(r) = top /\ GetFocus(r) = top /\ r.locked = s.locked
      BY <2>2, <2>4 DEF OnTop, GetFocus, SameWorld
    <3> QED
      BY <3>1, <2>2, <2>4, <1>3 DEF r, top, ViewHasKeyboard
  <2> QED
    BY <2>2, <2>3, <2>4
<1> QED
  BY <1>2, <1>3

(* Once the exclusive layer has got the focus back, the keyboard is where  *)
(* it belongs if it was with the view focused before.                      *)
LEMMA KeyedAgain ==
    ASSUME NEW s, NEW b \in Seats, NEW r, b.focused_layer = NULL,
           s.focused_layer \in Layers \cup {NULL},
           SameWorld(s, b), b.has_exclusive_layer = s.has_exclusive_layer,
           r = Redirected(LayerRegainsFocus(b, s.focused_layer))
    PROVE  /\ LayerHasKeyboard(r) /\ LockHasKeyboard(r)
           /\ ExclusiveFocused(s) => ExclusiveFocused(r)
           /\ ViewHasKeyboard(b) => ViewHasKeyboard(r)
<1> DEFINE l == s.focused_layer
<1>1. /\ SameStack(b, r) /\ SameWorld(b, r)
      /\ r.has_exclusive_layer = b.has_exclusive_layer
      /\ r.focused_layer = IF ~b.locked /\ b.has_exclusive_layer THEN l ELSE NULL
      /\ r.has_focus = (b.has_focus /\ r.focused_layer = NULL)
      /\ r.keyboard = IF b.locked THEN b.focused
                      ELSE IF r.focused_layer # NULL THEN l ELSE b.keyboard
  BY Regained
<1>2. r.locked = b.locked /\ r.focused = b.focused /\ s.locked = b.locked
  BY <1>1 DEF SameWorld
<1>3. LayerHasKeyboard(r)
  BY <1>1, <1>2 DEF LayerHasKeyboard
<1>4. LockHasKeyboard(r)
  BY <1>1, <1>2 DEF LockHasKeyboard
<1>5. ExclusiveFocused(s) => ExclusiveFocused(r)
  BY <1>1, <1>2 DEF ExclusiveFocused
<1>6. ViewHasKeyboard(b) => ViewHasKeyboard(r)
  <2>1. FocusInactive(r) = FocusInactive(b) /\ NULL \notin Views
    BY <1>1, SameStackSame, FocusAssumption
  <2> QED
    BY <2>1, <1>1, <1>2 DEF ViewHasKeyboard, GetFocus
<1> QED
  BY <1>3, <1>4, <1>5, <1>6

(* seat_set_focus, of a node that no fullscreen window hides.              *)
LEMMA SetFocusTakes ==
    ASSUME NEW s, NEW x, Ready(s, x), NEW n \in ToSet(s.focus_stack), ~Obstructed(s, n),
           GetFocus(s) = n => OnTop(s, n)
    PROVE  LET r == SetFocus(s, n)
           IN  /\ StackInv(r, x) /\ SameWorld(s, r) /\ FocusInactive(r) = n
               /\ r.has_exclusive_layer = s.has_exclusive_layer
               /\ LayerHasKeyboard(r) /\ LockHasKeyboard(r)
               /\ ExclusiveFocused(s) => ExclusiveFocused(r)
               /\ ViewHasKeyboard(s) \/ GetFocus(s) # n => ViewHasKeyboard(r)
<1> DEFINE a == LayerLosesFocus(s)
           b == SetWorkspaceFocus(a, n)
           top == FocusInactive(s)
           r == Redirected(LayerRegainsFocus(b, s.focused_layer))
<1>1. /\ s \in Seats /\ n \in FocusNodes /\ n # NULL /\ s.focused_layer \in Layers \cup {NULL}
  BY PlacedStack, NullIsNoNode DEF Ready, Seats
<1>2. /\ Placed(a, x) /\ ToSet(a.focus_stack) = ToSet(s.focus_stack)
      /\ SameWorld(s, a) /\ a.focused_layer = NULL
      /\ a.has_exclusive_layer = s.has_exclusive_layer
      /\ a.has_focus => FocusInactive(a) = top
      /\ \/ SameStack(s, a) /\ SameFocus(s, a) /\ GetFocus(a) = GetFocus(s)
         \/ OnTop(a, top) /\ s.focused_layer # NULL
      /\ ViewHasKeyboard(s) => ViewHasKeyboard(a)
  BY LayerGone
<1>3. SetFocus(s, n) = r
  BY DEF SetFocus
<1> HIDE DEF a
<1>4. n \in ToSet(a.focus_stack) /\ ~Obstructed(a, n)
  BY <1>2 DEF SameWorld, Obstructed
<1>5. /\ Placed(b, x) /\ OnTop(b, n) /\ SameWorld(s, b) /\ b.focused_layer = NULL
      /\ b.has_exclusive_layer = s.has_exclusive_layer
      /\ ViewHasKeyboard(s) \/ GetFocus(s) # n => ViewHasKeyboard(b)
  <2>1. CASE GetFocus(a) = n
    <3>1. b = a
      BY <2>1, <1>1 DEF SetWorkspaceFocus
    <3>2. a.has_focus /\ top = n
      BY <2>1, <1>1, <1>2 DEF GetFocus
    <3>3. OnTop(a, n)
      BY <2>1, <3>2, <1>2, SameOnTop
    <3>4. GetFocus(s) # n => ViewHasKeyboard(s)
      <4>1. SUFFICES ASSUME GetFocus(s) # n
                     PROVE  ViewHasKeyboard(s)
        OBVIOUS
      <4>2. s.focused_layer # NULL
        BY <4>1, <2>1, <1>2
      <4>3. GetFocus(s) = NULL /\ NULL \notin Views
        BY <4>2, FocusAssumption DEF Ready, GetFocus
      <4> QED
        BY <4>3 DEF ViewHasKeyboard
    <3> QED
      BY <3>1, <3>3, <3>4, <1>2
  <2>2. CASE GetFocus(a) # n
    <3>1. /\ Placed(b, x) /\ OnTop(b, n) /\ SameWorld(a, b) /\ SameLayer(a, b)
          /\ b.keyboard = IF n \in Views /\ ~a.locked THEN n
                          ELSE IF GetFocus(a) = NULL THEN a.keyboard ELSE NULL
      BY <2>2, <1>2, <1>4, FocusSet
    <3> HIDE DEF b
    <3>2. ViewHasKeyboard(b)
      BY <3>1 DEF ViewHasKeyboard, OnTop, GetFocus, SameWorld
    <3> QED
      BY <3>1, <3>2, <1>2 DEF SameWorld, SameLayer
  <2> QED
    BY <2>1, <2>2
<1>6. b \in Seats
  BY <1>5 DEF Placed
<1>7. /\ LayerHasKeyboard(r) /\ LockHasKeyboard(r)
      /\ ExclusiveFocused(s) => ExclusiveFocused(r)
      /\ ViewHasKeyboard(b) => ViewHasKeyboard(r)
  BY <1>1, <1>5, <1>6, KeyedAgain
<1>8. /\ r \in Seats /\ SameStack(b, r) /\ SameWorld(b, r)
      /\ r.workspace = b.workspace
      /\ r.has_exclusive_layer = b.has_exclusive_layer
      /\ r.has_focus = (b.has_focus /\ r.focused_layer = NULL)
  BY <1>1, <1>5, <1>6, Regained
<1> HIDE DEF b, r
<1>9. FocusInactive(r) = n /\ TopFirst(r) /\ FrontClear(r) /\ Placed(r, x)
      /\ WorkspaceOf(r, n) = WorkspaceOf(b, n) /\ Live(r) = Live(b)
  BY <1>5, <1>8, SameTop, SamePlaced, SameStackSame DEF OnTop
<1>10. StackInv(r, x)
  BY <1>5, <1>8, <1>9 DEF StackInv, OnTop, WorkspaceKnown
<1> QED
  BY <1>3, <1>5, <1>7, <1>8, <1>9, <1>10 DEF SameWorld

(* ... and of nothing, or of a window that is behind a fullscreen one.     *)
LEMMA SetFocusStays ==
    ASSUME NEW s, NEW x, Ready(s, x), TopFirst(s), FrontClear(s), NEW n,
           n = NULL \/ (n \in ToSet(s.focus_stack) /\ Obstructed(s, n))
    PROVE  LET r == SetFocus(s, n)
           IN  /\ Placed(r, x) /\ TopFirst(r) /\ FrontClear(r)
               /\ FocusInactive(r) = FocusInactive(s)
               /\ ToSet(r.focus_stack) = ToSet(s.focus_stack)
               /\ SameWorld(s, r) /\ r.has_exclusive_layer = s.has_exclusive_layer
               /\ r.focused_layer # NULL => ~r.has_focus
               /\ n = NULL => ~r.has_focus
               /\ WorkspaceKnown(s) => WorkspaceKnown(r)
               /\ s.workspace \in Live(s) => r.workspace \in Live(r)
               /\ LayerHasKeyboard(r) /\ LockHasKeyboard(r)
               /\ ExclusiveFocused(s) => ExclusiveFocused(r)
               /\ ViewHasKeyboard(s) => ViewHasKeyboard(r)
<1> DEFINE a == LayerLosesFocus(s)
           b == SetWorkspaceFocus(a, n)
           top == FocusInactive(s)
           r == Redirected(LayerRegainsFocus(b, s.focused_layer))
<1>1. /\ s \in Seats /\ s.focused_layer \in Layers \cup {NULL} /\ Placed(s, x)
      /\ NULL \notin Views
  BY PlacedStack, FocusAssumption DEF Ready, Seats
<1>2. /\ Placed(a, x) /\ ToSet(a.focus_stack) = ToSet(s.focus_stack)
      /\ SameWorld(s, a) /\ a.focused_layer = NULL
      /\ a.has_exclusive_layer = s.has_exclusive_layer
      /\ \/ SameStack(s, a) /\ SameFocus(s, a)
         \/ OnTop(a, top)
      /\ ViewHasKeyboard(s) => ViewHasKeyboard(a)
  BY LayerGone
<1>3. SetFocus(s, n) = r
  BY DEF SetFocus
<1> HIDE DEF a
<1>4. /\ TopFirst(a) /\ FrontClear(a) /\ FocusInactive(a) = top
      /\ WorkspaceKnown(s) => WorkspaceKnown(a)
      /\ s.workspace \in Live(s) => a.workspace \in Live(a)
  <2>1. CASE SameStack(s, a) /\ SameFocus(s, a)
    BY <2>1, <1>2, SameTop, SameStackSame DEF SameFocus
  <2>2. CASE OnTop(a, top)
    BY <2>2 DEF OnTop, WorkspaceKnown
  <2> QED
    BY <2>1, <2>2, <1>2
<1>5. /\ b \in Seats /\ SameStack(a, b) /\ SameWorld(a, b) /\ SameLayer(a, b)
      /\ b.workspace = a.workspace /\ (b.has_focus => a.has_focus)
      /\ n = NULL => ~b.has_focus
      /\ ViewHasKeyboard(a) => ViewHasKeyboard(b)
  <2>1. CASE n = NULL
    <3>1. a \in Seats /\ IsStack(a.focus_stack)
      BY <1>2, PlacedStack
    <3>2. /\ b \in Seats /\ SameStack(a, b) /\ SameWorld(a, b) /\ SameLayer(a, b)
          /\ b.workspace = a.workspace /\ ~b.has_focus
      BY <2>1, <3>1, FocusUnset
    <3>3. ViewHasKeyboard(b)
      BY <3>2, <1>1 DEF ViewHasKeyboard, GetFocus
    <3> QED
      BY <3>2, <3>3
  <2>2. CASE n # NULL
    <3>1. Obstructed(a, n)
      BY <2>2, <1>2 DEF SameWorld, Obstructed
    <3>2. b = a
      BY <2>2, <3>1 DEF SetWorkspaceFocus
    <3> QED
      BY <2>2, <3>2, <1>2 DEF Placed, SameStack, SameWorld, SameLayer
  <2> QED
    BY <2>1, <2>2
<1> HIDE DEF b
<1>6. /\ b.focused_layer = NULL /\ b.has_exclusive_layer = s.has_exclusive_layer
      /\ SameWorld(s, b)
  BY <1>2, <1>5 DEF SameLayer, SameWorld
<1>7. /\ LayerHasKeyboard(r) /\ LockHasKeyboard(r)
      /\ ExclusiveFocused(s) => ExclusiveFocused(r)
      /\ ViewHasKeyboard(b) => ViewHasKeyboard(r)
  BY <1>1, <1>5, <1>6, KeyedAgain
<1>8. /\ r \in Seats /\ SameStack(b, r) /\ SameWorld(b, r)
      /\ r.workspace = b.workspace
      /\ r.has_exclusive_layer = b.has_exclusive_layer
      /\ r.has_focus = (b.has_focus /\ r.focused_layer = NULL)
  BY <1>1, <1>5, <1>6, Regained
<1> HIDE DEF r
<1>9. SameStack(a, r) /\ SameWorld(a, r) /\ SameWorld(s, r) /\ r.workspace = a.workspace
  BY <1>2, <1>5, <1>8 DEF SameStack, SameWorld
<1>10. /\ Placed(r, x) /\ TopFirst(r) /\ FrontClear(r) /\ FocusInactive(r) = top
       /\ Live(r) = Live(a) /\ WorkspaceOf(r, top) = WorkspaceOf(a, top)
       /\ ToSet(r.focus_stack) = ToSet(s.focus_stack)
  BY <1>2, <1>4, <1>8, <1>9, SameTop, SamePlaced, SameStackSame DEF SameStack
<1>11. WorkspaceKnown(a) => WorkspaceKnown(r)
  BY <1>4, <1>5, <1>8, <1>9, <1>10 DEF WorkspaceKnown
<1> QED
  BY <1>2, <1>3, <1>4, <1>5, <1>6, <1>7, <1>8, <1>9, <1>10, <1>11

(* seat_set_focus, whatever node it is called with.                        *)
LEMMA SetFocusKeeps ==
    ASSUME NEW s, NEW x, StackInv(s, x), NEW n \in ToSet(s.focus_stack) \cup {NULL}
    PROVE  LET r == SetFocus(s, n)
           IN  /\ StackInv(r, x) /\ SameWorld(s, r)
               /\ Keyed(s) => Keyed(r)
               /\ n = NULL => ~r.has_focus /\ ToSet(r.focus_stack) = ToSet(s.focus_stack)
                              /\ FocusInactive(r) = FocusInactive(s)
               /\ LayerHasKeyboard(r) /\ LockHasKeyboard(r)
               /\ ExclusiveFocused(s) => ExclusiveFocused(r)
               /\ ViewHasKeyboard(s) => ViewHasKeyboard(r)
<1> DEFINE r == SetFocus(s, n)
<1>1. Ready(s, x) /\ TopFirst(s) /\ FrontClear(s)
  BY DEF StackInv, Ready
<1>2. CASE n # NULL /\ ~Obstructed(s, n)
  <2>1. n \in ToSet(s.focus_stack)
    BY <1>2
  <2>2. GetFocus(s) = n => OnTop(s, n)
    BY <1>1, <1>2 DEF StackInv, OnTop, GetFocus, WorkspaceKnown
  <2> QED
    BY <1>1, <1>2, <2>1, <2>2, SetFocusTakes DEF Keyed, LayersKeyed
<1>3. CASE n = NULL \/ Obstructed(s, n)
  <2>1. n = NULL \/ (n \in ToSet(s.focus_stack) /\ Obstructed(s, n))
    BY <1>3
  <2>2. /\ Placed(r, x) /\ TopFirst(r) /\ FrontClear(r)
        /\ FocusInactive(r) = FocusInactive(s)
        /\ ToSet(r.focus_stack) = ToSet(s.focus_stack)
        /\ SameWorld(s, r)
        /\ r.focused_layer # NULL => ~r.has_focus
        /\ n = NULL => ~r.has_focus
        /\ WorkspaceKnown(s) => WorkspaceKnown(r)
        /\ s.workspace \in Live(s) => r.workspace \in Live(r)
        /\ LayerHasKeyboard(r) /\ LockHasKeyboard(r)
        /\ ExclusiveFocused(s) => ExclusiveFocused(r)
        /\ ViewHasKeyboard(s) => ViewHasKeyboard(r)
    BY <1>1, <2>1, SetFocusStays
  <2> QED
    BY <2>2 DEF StackInv, Keyed, LayersKeyed
<1> QED
  BY <1>2, <1>3

(* Unfocusing and focusing again tells the keyboard anew.                  *)
LEMMA FocusAgainKeeps ==
    ASSUME NEW s, NEW x, StackInv(s, x), NEW n \in ToSet(s.focus_stack)
    PROVE  LET r == FocusAgain(s, n)
           IN  /\ StackInv(r, x) /\ SameWorld(s, r)
               /\ ViewHasKeyboard(r) /\ LayerHasKeyboard(r) /\ LockHasKeyboard(r)
               /\ ExclusiveFocused(s) => ExclusiveFocused(r)
<1> DEFINE a == SetFocus(s, NULL)
           r == SetFocus(a, n)
<1>1. n # NULL /\ FocusAgain(s, n) = r
  BY PlacedStack, NullIsNoNode DEF FocusAgain, StackInv
<1>2. /\ StackInv(a, x) /\ SameWorld(s, a) /\ ~a.has_focus
      /\ ToSet(a.focus_stack) = ToSet(s.focus_stack)
      /\ ExclusiveFocused(s) => ExclusiveFocused(a)
  BY SetFocusKeeps
<1> HIDE DEF a
<1>3. ViewHasKeyboard(a)
  BY <1>2, FocusAssumption DEF ViewHasKeyboard, GetFocus
<1>4. /\ StackInv(r, x) /\ SameWorld(a, r)
      /\ LayerHasKeyboard(r) /\ LockHasKeyboard(r)
      /\ ExclusiveFocused(a) => ExclusiveFocused(r)
      /\ ViewHasKeyboard(r)
  BY <1>2, <1>3, SetFocusKeeps
<1> QED
  BY <1>1, <1>2, <1>4 DEF SameWorld

-----------------------------------------------------------------------------
(***************************************************************************)
(* Nodes being destroyed.                                                  *)
(***************************************************************************)

(* The node to be focused next is put right behind what is on top.         *)
LEMMA InactiveMoved ==
    ASSUME NEW s, NEW x, Placed(s, x), FrontClear(s), NEW n \in ToSet(s.focus_stack)
    PROVE  LET top == FocusInactive(s)
               a == SetRawFocus(s, n)
               r == SetRawFocus(IF top \in Views THEN SetRawFocus(a, s.pending[top]) ELSE a, top)
           IN  /\ Placed(r, x) /\ TopFirst(r) /\ FrontClear(r) /\ FocusInactive(r) = top
               /\ ToSet(r.focus_stack) = ToSet(s.focus_stack)
               /\ SameWorld(s, r) /\ SameLayer(s, r) /\ SameFocus(s, r)
               /\ r.keyboard = s.keyboard
<1> DEFINE top == FocusInactive(s)
           w == WorkspaceOf(s, top)
           a == SetRawFocus(s, n)
           b == IF top \in Views THEN SetRawFocus(a, s.pending[top]) ELSE a
           r == SetRawFocus(b, top)
<1>1. /\ s \in Seats /\ IsStack(s.focus_stack) /\ n \in FocusNodes
      /\ top \in ToSet(s.focus_stack) /\ top \in FocusNodes /\ top # NULL
  BY PlacedStack, NullIsNoNode
<1>2. /\ w \in Live(s) /\ w \in ToSet(s.focus_stack) /\ w \in FocusNodes /\ w \in Workspaces
      /\ top \in Views => s.pending[top] = w
      /\ top \notin Views => w = top
      /\ top \in Workspaces => w = top
  BY <1>1, WorkspaceOfNode, FocusAssumption DEF Live, FocusNodes
<1>3. ~Obstructed(s, top)
  BY FrontUnobstructed
<1> HIDE DEF w
<1>4. /\ Placed(a, x) /\ ToSet(a.focus_stack) = ToSet(s.focus_stack)
      /\ SameWorld(s, a) /\ SameLayer(s, a) /\ SameFocus(s, a) /\ a.keyboard = s.keyboard
      /\ a \in Seats /\ IsStack(a.focus_stack)
  BY <1>1, RaisedPlaced, SetRawFocusStack
<1> HIDE DEF a
<1>5. /\ Placed(b, x) /\ ToSet(b.focus_stack) = ToSet(s.focus_stack)
      /\ SameWorld(s, b) /\ SameLayer(s, b) /\ SameFocus(s, b) /\ b.keyboard = s.keyboard
      /\ b \in Seats /\ IsStack(b.focus_stack)
      /\ top \in Views => \A S : w \in S => MostRecent(b, S) = w
  <2>1. CASE top \in Views
    <3>1. b = SetRawFocus(a, w) /\ w \in ToSet(a.focus_stack)
      BY <2>1, <1>2, <1>4
    <3> HIDE DEF b
    <3>2. /\ Placed(b, x) /\ ToSet(b.focus_stack) = ToSet(a.focus_stack)
      BY <3>1, <1>4, RaisedPlaced
    <3>3. /\ SameWorld(a, b) /\ SameLayer(a, b) /\ SameFocus(a, b) /\ b.keyboard = a.keyboard
          /\ b \in Seats /\ IsStack(b.focus_stack)
          /\ \A S : MostRecent(b, S) = IF w \in S THEN w ELSE MostRecent(a, S)
      BY <3>1, <1>2, <1>4, SetRawFocusStack
    <3> QED
      BY <3>2, <3>3, <1>4 DEF SameWorld, SameLayer, SameFocus
  <2>2. CASE top \notin Views
    BY <2>2, <1>4
  <2> QED
    BY <2>1, <2>2
<1> HIDE DEF b
<1>6. /\ Placed(r, x) /\ ToSet(r.focus_stack) = ToSet(b.focus_stack)
  BY <1>1, <1>5, RaisedPlaced
<1>7. /\ SameWorld(b, r) /\ SameLayer(b, r) /\ SameFocus(b, r) /\ r.keyboard = b.keyboard
      /\ \A S : MostRecent(r, S) = IF top \in S THEN top ELSE MostRecent(b, S)
  BY <1>1, <1>5, SetRawFocusStack
<1> HIDE DEF r
<1>8. SameWorld(s, r) /\ SameLayer(s, r) /\ SameFocus(s, r) /\ r.keyboard = s.keyboard
  BY <1>5, <1>7 DEF SameWorld, SameLayer, SameFocus
<1>9. FocusInactive(r) = top
  BY <1>1, <1>7 DEF FocusInactive
<1>10. \A S : w \in S /\ (top \in S => top = w) => MostRecent(r, S) = w
  BY <1>2, <1>5, <1>7
<1>11. TopFirst(r)
  <2>1. WorkspaceOf(r, top) = w
    BY <1>8 DEF WorkspaceOf, SameWorld, w
  <2> QED
    BY <2>1, <1>2, <1>9, <1>10 DEF TopFirst
<1>12. FrontClear(r)
  <2> SUFFICES ASSUME NEW v \in Views, MostRecent(r, Workspaces \cup {v}) = v
               PROVE  r.fullscreen[r.pending[v]] \in {v, NULL}
    BY DEF FrontClear
  <2>1. v = top
    BY <1>2, <1>7, <1>10, FocusAssumption
  <2> QED
    BY <2>1, <1>3, <1>8 DEF Obstructed, SameWorld
<1> QED
  BY <1>5, <1>6, <1>8, <1>9, <1>11, <1>12 DEF r, b, a

(* The node of a window that is not fullscreen is destroyed.               *)
LEMMA ViewGone ==
    ASSUME NEW s, StackInv(s, NULL), NEW v \in Views, v \in ToSet(s.focus_stack),
           \A w \in Workspaces : s.fullscreen[w] # v
    PROVE  LET r == SeatNodeDestroy(s, v)
           IN  /\ Placed(r, v) /\ FrontClear(r) /\ Live(r) = Live(s)
               /\ \A w \in Workspaces : Visible(r, w) <=> Visible(s, w)
               /\ MostRecent(r, Workspaces) = MostRecent(s, Workspaces)
               /\ SameWorld(s, r) /\ SameLayer(s, r) /\ SameFocus(s, r)
               /\ r.keyboard = s.keyboard
               /\ FocusInactive(s) # v => FocusInactive(r) = FocusInactive(s)
<1> DEFINE r == SeatNodeDestroy(s, v)
<1>1. /\ Placed(s, NULL) /\ s \in Seats /\ IsStack(s.focus_stack) /\ s.has_focus \in BOOLEAN
      /\ FocusInactive(s) \in FocusNodes
  BY PlacedStack DEF StackInv, Seats
<1>2. /\ r \in Seats /\ IsStack(r.focus_stack)
      /\ ToSet(r.focus_stack) = ToSet(s.focus_stack) \ {v}
      /\ \A S : MostRecent(r, S) = MostRecent(s, S \ {v})
      /\ r.has_focus = (s.has_focus /\ ToSet(r.focus_stack) # {})
      /\ r.workspace = s.workspace
      /\ SameWorld(s, r) /\ SameLayer(s, r) /\ r.keyboard = s.keyboard
  BY <1>1, SeatNodeDestroyStack
<1> HIDE DEF r
<1>3. v \notin Workspaces /\ v # NULL
  BY FocusAssumption
<1>4. Live(r) = Live(s)
  BY <1>2, <1>3 DEF Live
<1>5. \A S : v \notin S => MostRecent(r, S) = MostRecent(s, S)
  <2> TAKE S
  <2>1. v \notin S => S \ {v} = S
    OBVIOUS
  <2> QED
    BY <2>1, <1>2
<1>6. Placed(r, v)
  <2>1. \A u \in Views : u \in ToSet(r.focus_stack) <=> u # v /\ r.pending[u] # NULL
    BY <1>1, <1>2, NullIsNoNode DEF Placed, SameWorld, FocusNodes
  <2>2. \A u \in Views : r.pending[u] # NULL => r.pending[u] \in ToSet(r.focus_stack)
    <3> TAKE u \in Views
    <3>1. s.pending[u] \in Workspaces \cup {NULL}
      BY <1>1 DEF Seats
    <3> QED
      BY <3>1, <1>1, <1>2, <1>3 DEF Placed, SameWorld
  <2> QED
    BY <2>1, <2>2, <1>1, <1>2, <1>4 DEF Placed, SameWorld, IsStack
<1>7. r.has_focus = s.has_focus
  <2>1. ToSet(r.focus_stack) # {}
    BY <1>6, PlacedStack
  <2> QED
    BY <2>1, <1>1, <1>2
<1>8. \A w \in Workspaces : Visible(r, w) <=> Visible(s, w)
  <2> TAKE w \in Workspaces
  <2>1. ActiveWorkspace(r, OutputOf[w]) = ActiveWorkspace(s, OutputOf[w])
    BY <1>3, <1>5 DEF ActiveWorkspace
  <2> QED
    BY <2>1, <1>4 DEF Visible
<1>9. MostRecent(r, Workspaces) = MostRecent(s, Workspaces)
  BY <1>3, <1>5
<1>10. FrontClear(r)
  <2> SUFFICES ASSUME NEW u \in Views, MostRecent(r, Workspaces \cup {u}) = u
               PROVE  LET z == r.fullscreen[r.pending[u]]
                      IN  z \in {u, NULL} \/ MostRecent(r, {u, z}) = z
    BY DEF FrontClear
  <2> DEFINE z == s.fullscreen[s.pending[u]]
  <2>1. u \in ToSet(r.focus_stack) /\ u # v
    BY <1>2, MostRecentFound, FocusAssumption
  <2>2. MostRecent(s, Workspaces \cup {u}) = u
    BY <2>1, <1>3, <1>5
  <2>3. s.pending[u] \in Workspaces
    BY <2>1, <1>1, <1>2, WorkspaceOfNode
  <2>4. z # v
    BY <2>3
  <2>5. z \in {u, NULL} \/ MostRecent(s, {u, z}) = z
    BY <2>2 DEF StackInv, FrontClear
  <2>6. MostRecent(r, {u, z}) = MostRecent(s, {u, z})
    BY <2>1, <2>4, <1>5
  <2> QED
    BY <2>5, <2>6, <1>2 DEF SameWorld
<1>11. FocusInactive(s) # v => FocusInactive(r) = FocusInactive(s)
  <2> SUFFICES ASSUME FocusInactive(s) # v
               PROVE  MostRecent(r, FocusNodes) = FocusInactive(s)
    BY DEF FocusInactive
  <2>1. FocusInactive(s) \in FocusNodes \ {v}
    BY <1>1
  <2> QED
    BY <2>1, <1>1, <1>2, FirstIsMostRecent
<1> QED
  BY <1>2, <1>4, <1>6, <1>7, <1>8, <1>9, <1>10, <1>11 DEF r, SameFocus

(* handle_seat_node_destroy, of the container of a window.  It may have    *)
(* lost the keyboard already.                                              *)
LEMMA ViewDestroyed ==
    ASSUME NEW s, StackInv(s, NULL), NEW v \in Views, v \in ToSet(s.focus_stack),
           \A w \in Workspaces : s.fullscreen[w] # v,
           NEW siblings, siblings \subseteq ViewsIn(s, s.pending[v])
    PROVE  LET r == ContainerDestroyed(s, v, siblings, s.pending[v])
           IN  /\ StackInv(r, v) /\ SameWorld(s, r)
               /\ LayersKeyed(s) /\ (GetFocus(s) # v => ViewHasKeyboard(s)) => Keyed(r)
<1> DEFINE w == s.pending[v]
           gone == SeatNodeDestroy(s, v)
           sibling == MostRecent(gone, siblings \ {v})
           view == IF sibling # NULL THEN sibling ELSE MostRecent(gone, ViewsIn(s, w) \ {v})
           next == IF view # NULL THEN view ELSE w
           focus == FocusInactive(gone)
           top == FocusInactive(s)
           a == SetRawFocus(gone, next)
           moved == SetRawFocus(IF focus \in Views THEN SetRawFocus(a, s.pending[focus]) ELSE a,
                                focus)
           r == ContainerDestroyed(s, v, siblings, w)
<1>1. /\ Placed(s, NULL) /\ s \in Seats /\ IsStack(s.focus_stack)
      /\ top \in ToSet(s.focus_stack) /\ v # NULL
      /\ w \in Workspaces /\ w = WorkspaceOf(s, v) /\ w \in Live(s)
  BY PlacedStack, WorkspaceOfNode, NullIsNoNode DEF StackInv, FocusNodes
<1>2. /\ Placed(gone, v) /\ FrontClear(gone) /\ Live(gone) = Live(s)
      /\ \A y \in Workspaces : Visible(gone, y) <=> Visible(s, y)
      /\ MostRecent(gone, Workspaces) = MostRecent(s, Workspaces)
      /\ SameWorld(s, gone) /\ SameLayer(s, gone) /\ SameFocus(s, gone)
      /\ gone.keyboard = s.keyboard
      /\ top # v => focus = top
  BY ViewGone
<1>3. r = IF next = w /\ ~Visible(gone, w) THEN gone
          ELSE IF GetFocus(s) = v
          THEN IF GetFocus(gone) = next THEN SendFocus(gone, next) ELSE SetFocus(gone, next)
          ELSE moved
  BY <1>1, <1>2 DEF ContainerDestroyed, SameWorld
<1> HIDE DEF gone
<1>4. /\ gone \in Seats /\ IsStack(gone.focus_stack) /\ focus \in ToSet(gone.focus_stack)
      /\ NULL \notin Views
  BY <1>2, PlacedStack, FocusAssumption
(* The node to be focused next is of the same workspace.                   *)
<1>5. next \in ToSet(gone.focus_stack) /\ WorkspaceOf(gone, next) = w
  <2>1. view # NULL => view \in ToSet(gone.focus_stack) /\ view \in Views /\ s.pending[view] = w
    <3>1. \A S : MostRecent(gone, S) # NULL => MostRecent(gone, S) \in ToSet(gone.focus_stack) \cap S
      BY <1>4, MostRecentFound
    <3> QED
      BY <3>1 DEF ViewsIn
  <2>2. CASE view # NULL
    BY <2>1, <2>2, <1>2 DEF WorkspaceOf, SameWorld
  <2>3. CASE view = NULL
    <3>1. next = w /\ w \notin Views
      BY <2>3, <1>1, FocusAssumption
    <3> QED
      BY <3>1, <1>1, <1>2 DEF WorkspaceOf, Live
  <2> QED
    BY <2>2, <2>3
<1> HIDE DEF next, r, w
(* Unless the window was on top, the stack keeps its first node.           *)
<1>6. top # v => StackInv(gone, v) /\ (Keyed(s) => Keyed(gone)) /\ GetFocus(gone) = GetFocus(s)
  <2> SUFFICES ASSUME top # v
               PROVE  StackInv(gone, v) /\ (Keyed(s) => Keyed(gone)) /\ GetFocus(gone) = GetFocus(s)
    OBVIOUS
  <2>1. focus = top /\ WorkspaceOf(gone, top) = WorkspaceOf(s, top)
    BY <1>2 DEF WorkspaceOf, SameWorld
  <2>2. TopFirst(gone) /\ WorkspaceKnown(gone)
    BY <2>1, <1>2 DEF StackInv, TopFirst, WorkspaceKnown, SameFocus
  <2>3. GetFocus(gone) = GetFocus(s)
    BY <2>1, <1>2 DEF GetFocus, SameFocus
  <2>4. Keyed(s) => Keyed(gone)
    BY <2>3, <1>2 DEF Keyed, LayersKeyed, ViewHasKeyboard, LayerHasKeyboard, ExclusiveFocused,
                      LockHasKeyboard, SameWorld, SameLayer
  <2>5. StackInv(gone, v)
    BY <2>2, <1>2 DEF StackInv, SameFocus, SameLayer
  <2> QED
    BY <2>3, <2>4, <2>5
<1>7. top = v => Visible(gone, w)
  BY <1>1, <1>2, TopShown DEF StackInv, w
<1>8. CASE next = w /\ ~Visible(gone, w)
  <2>1. r = gone /\ top # v /\ GetFocus(s) # v
    BY <1>1, <1>3, <1>7, <1>8 DEF GetFocus
  <2> QED
    BY <2>1, <1>2, <1>6 DEF Keyed, r, w
<1>9. CASE ~(next = w /\ ~Visible(gone, w)) /\ GetFocus(s) = v
  <2>1. /\ s.has_focus /\ top = v /\ gone.has_focus /\ s.focused_layer = NULL
        /\ gone.focused_layer = NULL
    BY <1>1, <1>2, <1>9 DEF GetFocus, StackInv, SameFocus, SameLayer
  <2>2. s.fullscreen[w] = NULL
    BY <2>1, <1>1, FrontUnobstructed DEF StackInv, Obstructed, w
  <2>3. ~Obstructed(gone, next)
    BY <2>2, <1>2, <1>5 DEF Obstructed, WorkspaceOf, SameWorld
  <2>4. CASE GetFocus(gone) = next
    <3>1. r = SendFocus(gone, next) /\ focus = next
      BY <2>1, <2>4, <1>3, <1>9 DEF GetFocus
    <3>2. /\ r \in Seats /\ SameStack(gone, r) /\ SameWorld(gone, r)
          /\ SameLayer(gone, r) /\ SameFocus(gone, r)
          /\ r.keyboard = IF next \in Views /\ ~gone.locked THEN next ELSE gone.keyboard
      BY <3>1, <1>4 DEF SendFocus, Seats, SameStack, SameWorld, SameLayer, SameFocus
    <3>3. gone.workspace = w /\ MostRecent(gone, Workspaces) = w
      BY <2>1, <1>1, <1>2 DEF StackInv, WorkspaceKnown, TopFirst, SameFocus, w
    <3>4. TopFirst(gone) /\ WorkspaceKnown(gone) /\ gone.workspace \in Live(gone)
      BY <3>1, <3>3, <1>1, <1>2, <1>5 DEF TopFirst, WorkspaceKnown, w
    <3>5. StackInv(r, v)
      BY <3>2, <3>4, <2>1, <1>2, SameTop, SamePlaced, SameStackSame
         DEF StackInv, SameFocus, SameLayer
    <3>6. GetFocus(r) = next
      BY <3>1, <3>2, <2>1, SameTop DEF GetFocus, SameFocus
    <3>7. LayersKeyed(s) => Keyed(r)
      BY <3>2, <3>6, <2>1, <1>2
         DEF Keyed, LayersKeyed, ViewHasKeyboard, LayerHasKeyboard, ExclusiveFocused,
             LockHasKeyboard, SameWorld, SameLayer
    <3>8. SameWorld(s, r)
      BY <3>2, <1>2 DEF SameWorld
    <3> QED
      BY <3>5, <3>7, <3>8 DEF r, w
  <2>5. CASE GetFocus(gone) # next
    <3>1. r = SetFocus(gone, next)
      BY <2>5, <1>3, <1>9
    <3>2. Ready(gone, v)
      BY <2>1, <1>2 DEF Ready
    <3>3. /\ StackInv(r, v) /\ SameWorld(gone, r)
          /\ LayerHasKeyboard(r) /\ LockHasKeyboard(r)
          /\ ExclusiveFocused(gone) => ExclusiveFocused(r)
          /\ ViewHasKeyboard(r)
      BY <3>1, <3>2, <2>3, <2>5, <1>5, SetFocusTakes
    <3>4. SameWorld(s, r) /\ (ExclusiveFocused(s) => ExclusiveFocused(gone))
      BY <3>3, <1>2 DEF SameWorld, SameLayer, ExclusiveFocused
    <3> QED
      BY <3>3, <3>4 DEF Keyed, LayersKeyed, r, w
  <2> QED
    BY <2>4, <2>5
<1>10. CASE ~(next = w /\ ~Visible(gone, w)) /\ GetFocus(s) # v
  <2>1. r = moved
    BY <1>3, <1>10
  <2>2. moved = SetRawFocus(IF focus \in Views THEN SetRawFocus(a, gone.pending[focus]) ELSE a,
                            focus)
    BY <1>2 DEF SameWorld
  <2>3. /\ Placed(r, v) /\ TopFirst(r) /\ FrontClear(r) /\ FocusInactive(r) = focus
        /\ ToSet(r.focus_stack) = ToSet(gone.focus_stack)
        /\ SameWorld(gone, r) /\ SameLayer(gone, r) /\ SameFocus(gone, r)
        /\ r.keyboard = gone.keyboard
    BY <2>1, <2>2, <1>2, <1>5, InactiveMoved
  <2> HIDE DEF moved, a
  <2>4. SameWorld(s, r) /\ SameLayer(s, r) /\ SameFocus(s, r) /\ r.keyboard = s.keyboard
    BY <2>3, <1>2 DEF SameWorld, SameLayer, SameFocus
  <2>5. s.has_focus => FocusInactive(r) = top
    BY <2>3, <1>1, <1>2, <1>10 DEF GetFocus
  <2>6. WorkspaceKnown(r)
    BY <2>4, <2>5 DEF WorkspaceKnown, StackInv, SameFocus, WorkspaceOf, SameWorld
  <2>7. r.workspace \in Live(r)
    BY <2>3, <2>4, <1>2 DEF StackInv, SameFocus, Live
  <2>8. StackInv(r, v)
    BY <2>3, <2>4, <2>6, <2>7 DEF StackInv, SameFocus, SameLayer
  <2>9. GetFocus(r) = GetFocus(s)
    BY <2>4, <2>5 DEF GetFocus, SameFocus
  <2>10. LayersKeyed(s) /\ ViewHasKeyboard(s) => Keyed(r)
    BY <2>4, <2>9
       DEF Keyed, LayersKeyed, ViewHasKeyboard, LayerHasKeyboard, ExclusiveFocused,
           LockHasKeyboard, SameWorld, SameLayer
  <2> QED
    BY <2>4, <2>8, <2>10, <1>10 DEF r, w
<1> QED
  BY <1>8, <1>9, <1>10

LEMMA KeyedSame ==
    ASSUME NEW s, NEW r, SameWorld(s, r), SameLayer(s, r), r.keyboard = s.keyboard
    PROVE  /\ LayersKeyed(s) => LayersKeyed(r)
           /\ GetFocus(r) = GetFocus(s) /\ ViewHasKeyboard(s) => ViewHasKeyboard(r)
BY DEF LayersKeyed, ViewHasKeyboard, LayerHasKeyboard, ExclusiveFocused,
       LockHasKeyboard, SameWorld, SameLayer

(* A step that leaves the stack and the keyboard alone.                    *)
LEMMA StackInvSame ==
    ASSUME NEW s, NEW r \in Seats, NEW x, StackInv(s, x),
           SameStack(s, r), SameWindows(s, r), SameFocus(s, r),
           r.focused_layer # NULL => s.focused_layer # NULL
    PROVE  StackInv(r, x)
BY SameWindowsTop, SameWindowsPlaced, SameStackSame DEF StackInv, SameFocus

(* handle_seat_node_destroy, of the container of a column.                 *)
LEMMA NoViewDestroyed ==
    ASSUME NEW s, StackInv(s, NULL), NEW w \in Workspaces
    PROVE  LET r == ContainerDestroyed(s, NULL, {}, w)
           IN  StackInv(r, NULL) /\ SameWorld(s, r) /\ (Keyed(s) => Keyed(r))
<1> DEFINE gone == SeatNodeDestroy(s, NULL)
           sibling == MostRecent(gone, {} \ {NULL})
           view == IF sibling # NULL THEN sibling ELSE MostRecent(gone, ViewsIn(s, w) \ {NULL})
           next == IF view # NULL THEN view ELSE w
           focus == FocusInactive(gone)
           a == SetRawFocus(gone, next)
           moved == SetRawFocus(IF focus \in Views THEN SetRawFocus(a, s.pending[focus]) ELSE a,
                                focus)
           r == ContainerDestroyed(s, NULL, {}, w)
<1>1. /\ Placed(s, NULL) /\ s \in Seats /\ IsStack(s.focus_stack) /\ s.has_focus \in BOOLEAN
      /\ NULL \notin ToSet(s.focus_stack) /\ ToSet(s.focus_stack) # {}
  BY PlacedStack, NullIsNoNode DEF StackInv, Seats
<1>2. /\ gone \in Seats /\ SameStack(s, gone) /\ SameWorld(s, gone) /\ SameLayer(s, gone)
      /\ SameFocus(s, gone) /\ gone.keyboard = s.keyboard
  <2>1. RemoveFirst(s.focus_stack, NULL) = s.focus_stack
    BY <1>1, RemoveFirstShifts DEF IsStack
  <2>2. gone.focus_stack = s.focus_stack
    BY <2>1 DEF SeatNodeDestroy, Seats
  <2>3. /\ gone \in Seats /\ gone.has_focus = (s.has_focus /\ ToSet(gone.focus_stack) # {})
        /\ gone.workspace = s.workspace
        /\ SameWorld(s, gone) /\ SameLayer(s, gone) /\ gone.keyboard = s.keyboard
    BY <1>1, SeatNodeDestroyStack
  <2> QED
    BY <2>2, <2>3, <1>1 DEF SameStack, SameFocus
<1>3. r = IF next = w /\ ~Visible(gone, w) THEN gone ELSE moved
  BY DEF ContainerDestroyed
<1> HIDE DEF gone
<1>4. StackInv(gone, NULL) /\ GetFocus(gone) = GetFocus(s)
  BY <1>2, StackInvSame, SameTop DEF SameFocus, SameLayer, SameWorld, SameWindows
<1>5. Keyed(s) => Keyed(gone)
  BY <1>2, <1>4, KeyedSame DEF Keyed
<1>6. CASE next = w /\ ~Visible(gone, w)
  BY <1>2, <1>3, <1>4, <1>5, <1>6
<1>7. CASE ~(next = w /\ ~Visible(gone, w))
  <2>1. next \in ToSet(gone.focus_stack)
    <3>1. \A S : MostRecent(gone, S) # NULL => MostRecent(gone, S) \in ToSet(gone.focus_stack)
      BY <1>1, <1>2, MostRecentFound DEF SameStack
    <3>2. Visible(gone, w) => w \in ToSet(gone.focus_stack)
      BY DEF Visible, Live
    <3> QED
      BY <3>1, <3>2, <1>7
  <2>2. r = SetRawFocus(IF focus \in Views THEN SetRawFocus(a, gone.pending[focus]) ELSE a, focus)
    BY <1>2, <1>3, <1>7 DEF SameWorld
  <2> HIDE DEF r, next
  <2>3. /\ Placed(r, NULL) /\ TopFirst(r) /\ FrontClear(r) /\ FocusInactive(r) = focus
        /\ ToSet(r.focus_stack) = ToSet(gone.focus_stack)
        /\ SameWorld(gone, r) /\ SameLayer(gone, r) /\ SameFocus(gone, r)
        /\ r.keyboard = gone.keyboard
    BY <2>1, <2>2, <1>4, InactiveMoved DEF StackInv
  <2> HIDE DEF a
  <2>4. WorkspaceKnown(r) /\ r.workspace \in Live(r) /\ GetFocus(r) = GetFocus(gone)
    BY <2>3, <1>4
       DEF StackInv, WorkspaceKnown, SameFocus, WorkspaceOf, SameWorld, Live, GetFocus
  <2>5. StackInv(r, NULL)
    BY <2>3, <2>4, <1>4 DEF StackInv, SameFocus, SameLayer
  <2>6. Keyed(gone) => Keyed(r)
    BY <2>3, <2>4, KeyedSame DEF Keyed
  <2>7. SameWorld(s, r)
    BY <2>3, <1>2 DEF SameWorld
  <2> QED
    BY <2>5, <2>6, <2>7, <1>5 DEF r
<1> QED
  BY <1>6, <1>7

(* handle_seat_node_destroy, of an empty workspace that is not shown.      *)
LEMMA WorkspaceGone ==
    ASSUME NEW s, StackInv(s, NULL), NEW w, Disposable(s, w)
    PROVE  LET r == SeatNodeDestroy(s, w)
           IN  /\ Placed(r, NULL) /\ TopFirst(r) /\ FrontClear(r)
               /\ FocusInactive(r) = FocusInactive(s)
               /\ Live(r) = Live(s) \ {w}
               /\ SameWorld(s, r) /\ SameLayer(s, r) /\ SameFocus(s, r)
               /\ r.keyboard = s.keyboard
<1> DEFINE r == SeatNodeDestroy(s, w)
           top == FocusInactive(s)
           wt == WorkspaceOf(s, top)
<1>1. /\ Placed(s, NULL) /\ s \in Seats /\ IsStack(s.focus_stack)
      /\ top \in ToSet(s.focus_stack) /\ top \in FocusNodes
      /\ wt \in Live(s) /\ wt \in Workspaces
  BY PlacedStack, WorkspaceOfNode DEF StackInv, Live
<1>2. w \in Workspaces /\ w # top /\ w # wt
  <2>1. Visible(s, wt)
    BY <1>1, TopShown DEF StackInv
  <2> QED
    BY <2>1 DEF Disposable, Live
<1>3. /\ Placed(r, NULL) /\ Live(r) = Live(s) \ {w} /\ r.has_focus = s.has_focus
  BY <1>1, ReapedPlaced
<1>4. /\ \A S : MostRecent(r, S) = MostRecent(s, S \ {w})
      /\ r.workspace = s.workspace
      /\ SameWorld(s, r) /\ SameLayer(s, r) /\ r.keyboard = s.keyboard
  BY <1>1, SeatNodeDestroyStack
<1> HIDE DEF r, wt
<1>5. FocusInactive(r) = top
  <2>1. MostRecent(s, FocusNodes \ {w}) = top
    BY <1>1, <1>2, FirstIsMostRecent
  <2> QED
    BY <2>1, <1>4 DEF FocusInactive
<1>6. MostRecent(s, Workspaces) = wt
  BY DEF StackInv, TopFirst, wt
<1>7. TopFirst(r)
  <2>1. MostRecent(s, Workspaces \ {w}) = wt
    BY <1>1, <1>2, <1>6, MostRecentSubset
  <2>2. WorkspaceOf(r, top) = wt
    BY <1>4 DEF WorkspaceOf, SameWorld, wt
  <2> QED
    BY <2>1, <2>2, <1>4, <1>5 DEF TopFirst
<1>8. FrontClear(r)
  <2> SUFFICES ASSUME NEW v \in Views, MostRecent(r, Workspaces \cup {v}) = v
               PROVE  LET z == r.fullscreen[r.pending[v]]
                      IN  z \in {v, NULL} \/ MostRecent(r, {v, z}) = z
    BY DEF FrontClear
  <2> DEFINE z == s.fullscreen[s.pending[v]]
             S == Workspaces \cup {v}
  <2>1. /\ v \notin Workspaces /\ v # NULL /\ v # w
        /\ \A y \in Workspaces : s.fullscreen[y] \in Views \cup {NULL}
        /\ w \notin Views
    BY <1>1, <1>2, FocusAssumption DEF Seats
  <2>2. MostRecent(s, S \ {w}) = v
    BY <1>4
  <2>3. MostRecent(s, S) = v
    <3>1. MostRecent(s, S) \in S
      <4>1. ToSet(s.focus_stack) \cap S # {}
        BY <1>1 DEF Live
      <4> QED
        BY <4>1, <1>1, MostRecentFound
    <3>2. CASE MostRecent(s, S) \in Workspaces
      <4>1. MostRecent(s, S) = wt
        BY <3>2, <1>1, <1>6, MostRecentSubset
      <4>2. MostRecent(s, S \ {w}) = wt
        BY <4>1, <1>1, <1>2, MostRecentSubset
      <4> QED
        BY <4>2, <2>1, <2>2, <1>1
    <3> QED
      BY <3>1, <3>2
  <2>4. z \in {v, NULL} \/ MostRecent(s, {v, z}) = z
    BY <2>3 DEF StackInv, FrontClear
  <2>5. v \in ToSet(s.focus_stack)
    BY <2>1, <2>3, <1>1, MostRecentFound
  <2>6. s.pending[v] \in Workspaces
    BY <2>5, <1>1, WorkspaceOfNode
  <2>7. {v, z} \ {w} = {v, z}
    BY <2>1, <2>6, <1>2, FocusAssumption
  <2> QED
    BY <2>4, <2>7, <1>4 DEF SameWorld
<1> QED
  BY <1>3, <1>4, <1>5, <1>7, <1>8 DEF r, SameFocus

LEMMA WorkspaceConsidered ==
    ASSUME NEW s, StackInv(s, NULL), NEW w
    PROVE  LET r == ConsiderDestroy(s, w)
           IN  StackInv(r, NULL) /\ SameWorld(s, r) /\ (Keyed(s) => Keyed(r))
<1> DEFINE gone == SeatNodeDestroy(s, w)
           top == FocusInactive(s)
           unset == SetFocus(gone, NULL)
           r == WorkspaceDestroyed(s, w)
<1>1. CASE ~Disposable(s, w)
  BY <1>1 DEF ConsiderDestroy, SameWorld
<1>2. CASE Disposable(s, w)
  <2>1. ConsiderDestroy(s, w) = r
    BY <1>2 DEF ConsiderDestroy
  <2>2. /\ Placed(gone, NULL) /\ TopFirst(gone) /\ FrontClear(gone)
        /\ FocusInactive(gone) = top
        /\ Live(gone) = Live(s) \ {w}
        /\ SameWorld(s, gone) /\ SameLayer(s, gone) /\ SameFocus(s, gone)
        /\ gone.keyboard = s.keyboard
    BY <1>2, WorkspaceGone
  <2>3. /\ top \in ToSet(gone.focus_stack) /\ top # NULL
        /\ ~Obstructed(gone, top)
    BY <2>2, PlacedStack, NullIsNoNode, FrontUnobstructed
  <2>4. r = IF s.workspace # w THEN gone ELSE SetFocus(unset, top)
    BY <2>2, <2>3 DEF WorkspaceDestroyed
  <2> HIDE DEF gone
  <2>5. GetFocus(gone) = GetFocus(s)
    BY <2>2 DEF GetFocus, SameFocus
  <2>6. Keyed(s) => Keyed(gone)
    BY <2>2, <2>5, KeyedSame DEF Keyed
  <2>7. WorkspaceKnown(gone)
    BY <2>2 DEF StackInv, WorkspaceKnown, SameFocus, WorkspaceOf, SameWorld
  <2>8. CASE s.workspace # w
    <3>1. StackInv(gone, NULL)
      BY <2>2, <2>7, <2>8 DEF StackInv, SameFocus, SameLayer
    <3> QED
      BY <3>1, <2>1, <2>2, <2>4, <2>6, <2>8
(* A workspace that is not shown is not that of the focus.                 *)
  <2>9. CASE s.workspace = w
    <3>1. ~s.has_focus
      <4>1. Visible(s, WorkspaceOf(s, top))
        BY TopShown DEF StackInv
      <4> QED
        BY <4>1, <2>9, <1>2 DEF StackInv, WorkspaceKnown, Disposable
    <3>2. Ready(gone, NULL)
      BY <3>1, <2>2 DEF Ready, SameFocus
    <3>3. /\ Placed(unset, NULL) /\ TopFirst(unset) /\ FrontClear(unset)
          /\ FocusInactive(unset) = top
          /\ ToSet(unset.focus_stack) = ToSet(gone.focus_stack)
          /\ SameWorld(gone, unset)
          /\ ~unset.has_focus
          /\ LayerHasKeyboard(unset) /\ LockHasKeyboard(unset)
          /\ ExclusiveFocused(gone) => ExclusiveFocused(unset)
          /\ ViewHasKeyboard(gone) => ViewHasKeyboard(unset)
      BY <3>2, <2>2, <2>3, SetFocusStays
    <3> HIDE DEF unset
    <3>4. Ready(unset, NULL) /\ ~Obstructed(unset, top) /\ GetFocus(unset) # top
      BY <3>3, <2>3 DEF Ready, Obstructed, SameWorld, GetFocus
    <3>5. r = SetFocus(unset, top)
      BY <2>4, <2>9
    <3> HIDE DEF r
    <3>6. /\ StackInv(r, NULL) /\ SameWorld(unset, r)
          /\ LayerHasKeyboard(r) /\ LockHasKeyboard(r)
          /\ ExclusiveFocused(unset) => ExclusiveFocused(r)
          /\ ViewHasKeyboard(r)
      BY <3>3, <3>4, <3>5, <2>3, SetFocusTakes
    <3>7. SameWorld(s, r)
      BY <3>3, <3>6, <2>2 DEF SameWorld
    <3> QED
      BY <3>3, <3>6, <3>7, <2>1, <2>6 DEF Keyed, LayersKeyed
  <2> QED
    BY <2>8, <2>9
<1> QED
  BY <1>1, <1>2

LEMMA ColumnConsidered ==
    ASSUME NEW s, StackInv(s, NULL), NEW w \in Workspaces
    PROVE  LET r == ColumnDestroyed(s, w)
           IN  StackInv(r, NULL) /\ SameWorld(s, r) /\ (Keyed(s) => Keyed(r))
<1> DEFINE a == ContainerDestroyed(s, NULL, {}, w)
           r == ConsiderDestroy(a, w)
<1>1. StackInv(a, NULL) /\ SameWorld(s, a) /\ (Keyed(s) => Keyed(a))
  BY NoViewDestroyed
<1> HIDE DEF a
<1>2. StackInv(r, NULL) /\ SameWorld(a, r) /\ (Keyed(a) => Keyed(r))
  BY <1>1, WorkspaceConsidered
<1> QED
  BY <1>1, <1>2 DEF SameWorld, ColumnDestroyed, a

-----------------------------------------------------------------------------
(***************************************************************************)
(* Windows.                                                                *)
(***************************************************************************)
LEMMA FullscreenEnds ==
    ASSUME NEW s, NEW x, StackInv(s, x), NEW w \in Workspaces, NEW t,
           t = [s EXCEPT !.fullscreen[w] = NULL]
    PROVE  /\ StackInv(t, x) /\ GetFocus(t) = GetFocus(s) /\ t.keyboard = s.keyboard
           /\ SameLayer(s, t)
<1>1. Placed(s, x) /\ s \in Seats
  BY DEF StackInv, Placed
<1>2. /\ t \in Seats /\ SameStack(s, t) /\ SameLayer(s, t) /\ SameFocus(s, t)
      /\ t.keyboard = s.keyboard /\ t.pending = s.pending
      /\ \A y \in Workspaces : t.fullscreen[y] = IF y = w THEN NULL ELSE s.fullscreen[y]
  BY <1>1 DEF Seats, SameStack, SameLayer, SameFocus
<1>3. /\ \A S : MostRecent(t, S) = MostRecent(s, S)
      /\ FocusInactive(t) = FocusInactive(s) /\ Live(t) = Live(s)
  BY <1>2, SameStackSame
<1>4. \A n : WorkspaceOf(t, n) = WorkspaceOf(s, n)
  BY <1>2 DEF WorkspaceOf
<1>5. Placed(t, x)
  BY <1>1, <1>2, <1>3 DEF Placed, SameStack
<1>6. FrontClear(t)
  <2> SUFFICES ASSUME NEW v \in Views, MostRecent(t, Workspaces \cup {v}) = v
               PROVE  LET z == t.fullscreen[t.pending[v]]
                      IN  z \in {v, NULL} \/ MostRecent(t, {v, z}) = z
    BY DEF FrontClear
  <2>1. v \in ToSet(s.focus_stack)
    BY <1>1, <1>3, PlacedStack, MostRecentFound, NullIsNoNode DEF FocusNodes
  <2>2. s.pending[v] \in Workspaces
    BY <2>1, <1>1, WorkspaceOfNode
  <2>3. LET z == s.fullscreen[s.pending[v]]
        IN  z \in {v, NULL} \/ MostRecent(s, {v, z}) = z
    BY <1>3 DEF StackInv, FrontClear
  <2> QED
    BY <2>2, <2>3, <1>2, <1>3
<1>7. TopFirst(t) /\ WorkspaceKnown(t) /\ GetFocus(t) = GetFocus(s)
  BY <1>2, <1>3, <1>4 DEF StackInv, TopFirst, WorkspaceKnown, GetFocus, SameFocus
<1> QED
  BY <1>2, <1>3, <1>5, <1>6, <1>7 DEF StackInv, SameLayer, SameFocus

(* The container of a window is destroyed while its window is unmapped.    *)
LEMMA BegunDestroy ==
    ASSUME NEW s, StackInv(s, NULL), LayersKeyed(s),
           NEW v \in Views, s.pending[v] # NULL, GetFocus(s) # v => ViewHasKeyboard(s),
           NEW siblings, siblings \subseteq ViewsIn(s, s.pending[v])
    PROVE  LET r == ContainerBeginDestroy(s, v, siblings)
           IN  /\ StackInv(r, NULL) /\ Keyed(r)
               /\ r.pending = [s.pending EXCEPT ![v] = NULL]
               /\ r.locked = s.locked /\ r.abandoned = s.abandoned
               /\ r.surface = s.surface /\ r.focused = s.focused
<1> DEFINE w == s.pending[v]
           t == [s EXCEPT !.fullscreen[w] = NULL]
           a == [s EXCEPT !.fullscreen[w] = IF @ = v THEN NULL ELSE @]
           b == ContainerDestroyed(a, v, siblings, w)
           r == [b EXCEPT !.pending[v] = NULL]
<1>1. /\ Placed(s, NULL) /\ s \in Seats /\ v \in ToSet(s.focus_stack) /\ v # NULL
      /\ w \in Workspaces
  <2>1. Placed(s, NULL) /\ s \in Seats /\ v # NULL
    BY FocusAssumption DEF StackInv, Placed
  <2>2. v \in ToSet(s.focus_stack)
    BY <2>1 DEF Placed
  <2> QED
    BY <2>1, <2>2, WorkspaceOfNode
<1>2. ContainerBeginDestroy(s, v, siblings) = r
  BY DEF ContainerBeginDestroy
<1>3. /\ a.pending = s.pending /\ a.focus_stack = s.focus_stack
      /\ a.locked = s.locked /\ a.abandoned = s.abandoned
      /\ a.surface = s.surface /\ a.focused = s.focused
      /\ \A y \in Workspaces : a.fullscreen[y] # v
  <2>1. \A y \in Workspaces : s.fullscreen[y] = v => y = w
    BY <1>1 DEF Placed
  <2> QED
    BY <2>1, <1>1 DEF Seats
<1>4. StackInv(a, NULL) /\ GetFocus(a) = GetFocus(s) /\ a.keyboard = s.keyboard /\ SameLayer(s, a)
  <2>1. CASE s.fullscreen[w] = v
    <3>1. a = t
      BY <2>1
    <3> HIDE DEF a
    <3> QED
      BY <3>1, <1>1, FullscreenEnds
  <2>2. CASE s.fullscreen[w] # v
    <3>1. a = s
      BY <2>2, <1>1 DEF Seats
    <3> QED
      BY <3>1 DEF SameLayer
  <2> QED
    BY <2>1, <2>2
<1>5. LayersKeyed(a) /\ (GetFocus(a) # v => ViewHasKeyboard(a))
  BY <1>3, <1>4
     DEF LayersKeyed, ViewHasKeyboard, LayerHasKeyboard, ExclusiveFocused,
         LockHasKeyboard, SameLayer
<1>6. w = a.pending[v] /\ siblings \subseteq ViewsIn(a, w) /\ v \in ToSet(a.focus_stack)
  BY <1>1, <1>3 DEF ViewsIn
<1> HIDE DEF a, w
<1>7. StackInv(b, v) /\ SameWorld(a, b) /\ Keyed(b)
  BY <1>3, <1>4, <1>5, <1>6, ViewDestroyed
<1> HIDE DEF b
<1>8. b \in Seats /\ Placed(b, v) /\ v \notin ToSet(b.focus_stack)
  BY <1>1, <1>7 DEF StackInv, Placed
<1>9. /\ r \in Seats /\ SameStack(b, r) /\ SameLayer(b, r) /\ SameFocus(b, r)
      /\ r.keyboard = b.keyboard /\ r.fullscreen = b.fullscreen
      /\ r.locked = b.locked /\ r.abandoned = b.abandoned
      /\ r.surface = b.surface /\ r.focused = b.focused
      /\ r.pending = [b.pending EXCEPT ![v] = NULL]
      /\ \A u \in Views : r.pending[u] = IF u = v THEN NULL ELSE b.pending[u]
  BY <1>8 DEF Seats, SameStack, SameLayer, SameFocus
<1> HIDE DEF r
<1>10. /\ \A S : MostRecent(r, S) = MostRecent(b, S)
       /\ FocusInactive(r) = FocusInactive(b) /\ Live(r) = Live(b)
  BY <1>9, SameStackSame
<1>11. FocusInactive(b) \in ToSet(b.focus_stack) /\ FocusInactive(b) # v
  BY <1>8, PlacedStack
<1>12. Placed(r, NULL)
  <2>1. \A u \in Views : u \in ToSet(r.focus_stack) <=> u # NULL /\ r.pending[u] # NULL
    BY <1>1, <1>8, <1>9, NullIsNoNode DEF Placed, SameStack, FocusNodes
  <2>2. \A y \in Workspaces : r.fullscreen[y] # NULL => r.pending[r.fullscreen[y]] = y
    <3> SUFFICES ASSUME NEW y \in Workspaces, b.fullscreen[y] # NULL
                 PROVE  r.pending[b.fullscreen[y]] = y
      BY <1>9
    <3>1. b.fullscreen[y] \in Views /\ b.fullscreen[y] # v /\ b.pending[b.fullscreen[y]] = y
      BY <1>3, <1>7, <1>8 DEF Placed, Seats, SameWorld
    <3> QED
      BY <3>1, <1>9
  <2>3. \A u \in Views : r.pending[u] # NULL => r.pending[u] \in ToSet(r.focus_stack)
    BY <1>8, <1>9 DEF Placed, SameStack
  <2>4. IsInjective(r.focus_stack) /\ \A o \in Outputs : \E y \in Live(r) : OutputOf[y] = o
    BY <1>8, <1>9, <1>10 DEF Placed, SameStack
  <2> QED
    BY <2>1, <2>2, <2>3, <2>4, <1>9 DEF Placed
<1>13. WorkspaceOf(r, FocusInactive(b)) = WorkspaceOf(b, FocusInactive(b))
  BY <1>9, <1>11 DEF WorkspaceOf
<1>14. FrontClear(r)
  <2> SUFFICES ASSUME NEW u \in Views, MostRecent(r, Workspaces \cup {u}) = u
               PROVE  LET z == r.fullscreen[r.pending[u]]
                      IN  z \in {u, NULL} \/ MostRecent(r, {u, z}) = z
    BY DEF FrontClear
  <2>1. u \in ToSet(b.focus_stack)
    BY <1>8, <1>10, PlacedStack, MostRecentFound, NullIsNoNode DEF FocusNodes
  <2>2. u # v
    BY <2>1, <1>8
  <2> QED
    BY <2>2, <1>7, <1>9, <1>10 DEF StackInv, FrontClear
<1>15. StackInv(r, NULL)
  BY <1>7, <1>9, <1>10, <1>12, <1>13, <1>14
     DEF StackInv, TopFirst, WorkspaceKnown, SameFocus, SameLayer
<1>16. Keyed(r)
  <2>1. GetFocus(r) = GetFocus(b)
    BY <1>9, <1>10 DEF GetFocus, SameFocus
  <2> QED
    BY <2>1, <1>7, <1>9
       DEF Keyed, LayersKeyed, ViewHasKeyboard, LayerHasKeyboard, ExclusiveFocused,
           LockHasKeyboard, SameLayer
<1> QED
  BY <1>2, <1>3, <1>7, <1>9, <1>15, <1>16 DEF SameWorld

LEMMA LockInvSame ==
    ASSUME NEW s, NEW t, LockInv(s), t.locked = s.locked, t.abandoned = s.abandoned,
           t.surface = s.surface, t.focused = s.focused
    PROVE  LockInv(t)
BY DEF LockInv, MappedSurfaces

LEMMA UnmapKeeps ==
    ASSUME IInv, NEW v \in Views, NEW siblings \in SUBSET Views, NEW next \in Views \cup {NULL},
           Unmap(v, siblings, next)
    PROVE  IInv'
<1> DEFINE w == seat.pending[v]
           a == [seat EXCEPT !.keyboard = IF @ = v THEN NULL ELSE @]
           b == ContainerBeginDestroy(a, v, siblings)
           c == ReapedAfter(b, v, siblings, w)
<1>1. /\ v \in Mapped(seat) /\ siblings \subseteq ViewsIn(seat, w)
      /\ next \in NextFocus(v, siblings)
      /\ seat' = IF next # NULL THEN SetFocus(c, next) ELSE c
  BY DEF Unmap
<1>2. /\ StackInv(seat, NULL) /\ Keyed(seat) /\ LockInv(seat) /\ seat \in Seats
      /\ w # NULL
  BY <1>1 DEF IInv, StackInv, Placed, Mapped
<1>3. w \in Workspaces
  BY <1>2 DEF Seats
<1>4. /\ a \in Seats /\ SameStack(seat, a) /\ SameWorld(seat, a) /\ SameLayer(seat, a)
      /\ SameFocus(seat, a)
      /\ a.keyboard = IF seat.keyboard = v THEN NULL ELSE seat.keyboard
  BY <1>2 DEF Seats, SameStack, SameWorld, SameLayer, SameFocus
<1> HIDE DEF a
<1>5. StackInv(a, NULL) /\ GetFocus(a) = GetFocus(seat)
  BY <1>2, <1>4, StackInvSame, SameTop DEF SameFocus, SameLayer, SameWorld, SameWindows
<1>6. LayersKeyed(a) /\ (GetFocus(a) # v => ViewHasKeyboard(a))
  <2>1. /\ seat.focused_layer # NULL => seat.focused_layer \in Layers
        /\ seat.focused # NULL => seat.focused \in Outputs
        /\ Views \cap (Layers \cup Outputs) = {}
    BY <1>2, FocusAssumption DEF Seats
  <2>2. LayerHasKeyboard(a)
    BY <2>1, <1>2, <1>4 DEF Keyed, LayersKeyed, LayerHasKeyboard, SameWorld, SameLayer
  <2>3. LockHasKeyboard(a)
    BY <2>1, <1>2, <1>4 DEF Keyed, LayersKeyed, LockHasKeyboard, SameWorld
  <2>4. ExclusiveFocused(a)
    BY <1>2, <1>4 DEF Keyed, LayersKeyed, ExclusiveFocused, SameWorld, SameLayer
  <2>5. GetFocus(a) # v => ViewHasKeyboard(a)
    BY <1>2, <1>4, <1>5 DEF Keyed, ViewHasKeyboard, SameWorld
  <2> QED
    BY <2>2, <2>3, <2>4, <2>5 DEF LayersKeyed
<1>7. a.pending[v] = w /\ siblings \subseteq ViewsIn(a, a.pending[v])
  BY <1>1, <1>4 DEF SameWorld, ViewsIn
<1>8. /\ StackInv(b, NULL) /\ Keyed(b)
      /\ b.pending = [seat.pending EXCEPT ![v] = NULL]
      /\ b.locked = seat.locked /\ b.abandoned = seat.abandoned
      /\ b.surface = seat.surface /\ b.focused = seat.focused
  <2>1. /\ StackInv(b, NULL) /\ Keyed(b)
        /\ b.pending = [a.pending EXCEPT ![v] = NULL]
        /\ b.locked = a.locked /\ b.abandoned = a.abandoned
        /\ b.surface = a.surface /\ b.focused = a.focused
    BY <1>2, <1>5, <1>6, <1>7, BegunDestroy
  <2> QED
    BY <2>1, <1>4 DEF SameWorld
<1> HIDE DEF b
<1>9. StackInv(c, NULL) /\ SameWorld(b, c) /\ (Keyed(b) => Keyed(c))
  <2>1. CASE v \in FloatingViews
    BY <2>1, <1>8, WorkspaceConsidered DEF ReapedAfter
  <2>2. CASE v \notin FloatingViews /\ siblings = {}
    <3>1. c = ColumnDestroyed(b, w)
      BY <2>2 DEF ReapedAfter
    <3> QED
      BY <3>1, <1>3, <1>8, ColumnConsidered
  <2>3. CASE v \notin FloatingViews /\ siblings # {}
    <3>1. c = b
      BY <2>3 DEF ReapedAfter
    <3> QED
      BY <3>1, <1>8 DEF SameWorld
  <2> QED
    BY <2>1, <2>2, <2>3
<1> HIDE DEF c
<1>10. LockInv(c)
  BY <1>2, <1>8, <1>9, LockInvSame DEF SameWorld
<1>11. CASE next = NULL
  BY <1>1, <1>8, <1>9, <1>10, <1>11 DEF IInv
<1>12. CASE next # NULL
  <2>1. next \in Views /\ next # v /\ seat.pending[next] = w
    BY <1>1, <1>12 DEF NextFocus, ViewsIn, Unmap
  <2>2. c.pending[next] # NULL
    BY <2>1, <1>2, <1>8, <1>9 DEF SameWorld, Seats
  <2>3. next \in ToSet(c.focus_stack)
    BY <2>1, <2>2, <1>9, <1>12 DEF StackInv, Placed
  <2>4. StackInv(seat', NULL) /\ SameWorld(c, seat') /\ (Keyed(c) => Keyed(seat'))
    <3>1. seat' = SetFocus(c, next)
      BY <1>1, <1>12
    <3> QED
      BY <3>1, <2>3, <1>9, SetFocusKeeps
  <2>5. LockInv(seat')
    BY <2>4, <1>10, LockInvSame DEF SameWorld
  <2> QED
    BY <2>4, <2>5, <1>8, <1>9 DEF IInv
<1> QED
  BY <1>11, <1>12

(* A window becomes fullscreen, wherever it is.                            *)
LEMMA FullscreenKeeps ==
    ASSUME NEW s, StackInv(s, NULL), Keyed(s), NEW v \in Views, s.pending[v] # NULL
    PROVE  LET r == FullscreenWorkspace(s, v)
           IN  /\ StackInv(r, NULL) /\ Keyed(r) /\ r.pending = s.pending
               /\ r.locked = s.locked /\ r.abandoned = s.abandoned
               /\ r.surface = s.surface /\ r.focused = s.focused
<1> DEFINE w == s.pending[v]
           t == [s EXCEPT !.fullscreen[w] = v]
           focus == FocusInactive(s)
           a == SetRawFocus(t, v)
           r == FullscreenWorkspace(s, v)
<1>1. /\ Placed(s, NULL) /\ s \in Seats /\ IsStack(s.focus_stack)
      /\ focus \in ToSet(s.focus_stack) /\ focus \in FocusNodes /\ focus # NULL /\ v # NULL
      /\ w \in Workspaces /\ v \in ToSet(s.focus_stack)
  <2>1. Placed(s, NULL) /\ v # NULL
    BY FocusAssumption DEF StackInv
  <2>2. v \in ToSet(s.focus_stack)
    BY <2>1 DEF Placed
  <2> QED
    BY <2>1, <2>2, PlacedStack, WorkspaceOfNode, NullIsNoNode
<1>2. r = IF WorkspaceOf(s, focus) = w THEN SetFocus(t, v) ELSE SetRawFocus(a, focus)
  BY DEF FullscreenWorkspace
<1>3. /\ t \in Seats /\ SameStack(s, t) /\ SameLayer(s, t) /\ SameFocus(s, t)
      /\ t.keyboard = s.keyboard /\ t.pending = s.pending
      /\ \A y \in Workspaces : t.fullscreen[y] = IF y = w THEN v ELSE s.fullscreen[y]
      /\ t.locked = s.locked /\ t.abandoned = s.abandoned
      /\ t.surface = s.surface /\ t.focused = s.focused
  BY <1>1 DEF Seats, SameStack, SameLayer, SameFocus
<1> HIDE DEF t, r
<1>4. /\ \A S : MostRecent(t, S) = MostRecent(s, S)
      /\ FocusInactive(t) = focus /\ Live(t) = Live(s)
      /\ \A n : WorkspaceOf(t, n) = WorkspaceOf(s, n)
  BY <1>3, SameStackSame DEF WorkspaceOf
<1>5. Placed(t, NULL)
  BY <1>1, <1>3, <1>4 DEF Placed, SameStack
<1>6. TopFirst(t) /\ WorkspaceKnown(t) /\ t.workspace \in Live(t) /\ GetFocus(t) = GetFocus(s)
  BY <1>3, <1>4 DEF StackInv, TopFirst, WorkspaceKnown, GetFocus, SameFocus
<1>7. ViewHasKeyboard(t) /\ LayersKeyed(t)
  BY <1>3, <1>6
     DEF Keyed, LayersKeyed, ViewHasKeyboard, LayerHasKeyboard, ExclusiveFocused,
         LockHasKeyboard, SameLayer
<1>8. CASE WorkspaceOf(s, focus) = w
  <2>1. Ready(t, NULL)
    BY <1>3, <1>5, <1>6 DEF Ready, StackInv, SameLayer, SameFocus
  <2>2. ~Obstructed(t, v) /\ v \in ToSet(t.focus_stack)
    BY <1>1, <1>3 DEF Obstructed, SameStack
(* When the window is on top already, so are all others of its workspace   *)
(* behind it.                                                              *)
  <2>3. GetFocus(t) = v => OnTop(t, v)
    <3> SUFFICES ASSUME GetFocus(t) = v
                 PROVE  FrontClear(t) /\ FocusInactive(t) = v /\ t.has_focus
      BY <1>6 DEF OnTop, WorkspaceKnown
    <3>1. FocusInactive(t) = v /\ t.has_focus
      BY <1>1 DEF GetFocus
    <3>2. ASSUME NEW u \in Views, MostRecent(t, Workspaces \cup {u}) = u
          PROVE  LET z == t.fullscreen[t.pending[u]]
                 IN  z \in {u, NULL} \/ MostRecent(t, {u, z}) = z
      <4>1. u \in ToSet(s.focus_stack)
        BY <3>2, <1>1, <1>4, MostRecentFound, NullIsNoNode DEF FocusNodes
      <4>2. s.pending[u] \in Workspaces
        BY <4>1, <1>1, WorkspaceOfNode
      <4>3. CASE s.pending[u] = w
        <5>1. t.fullscreen[t.pending[u]] = v
          BY <4>3, <1>1, <1>3
        <5>2. MostRecent(t, {u, v}) = v
          BY <3>1, <1>5, PlacedStack, FirstIsMostRecent
        <5> QED
          BY <5>1, <5>2
      <4>4. CASE s.pending[u] # w
        <5>1. t.fullscreen[t.pending[u]] = s.fullscreen[s.pending[u]]
          BY <4>2, <4>4, <1>3
        <5> QED
          BY <5>1, <3>2, <1>4 DEF StackInv, FrontClear
      <4> QED
        BY <4>3, <4>4
    <3> QED
      BY <3>1, <3>2 DEF FrontClear
  <2>4. r = SetFocus(t, v)
    BY <1>2, <1>8
  <2>5. /\ StackInv(r, NULL) /\ SameWorld(t, r)
        /\ LayerHasKeyboard(r) /\ LockHasKeyboard(r)
        /\ ExclusiveFocused(r) /\ ViewHasKeyboard(r)
    BY <2>1, <2>2, <2>3, <2>4, <1>7, SetFocusTakes DEF LayersKeyed
  <2> QED
    BY <2>5, <1>3 DEF Keyed, LayersKeyed, SameWorld, r
<1>9. CASE WorkspaceOf(s, focus) # w
  <2>1. r = SetRawFocus(a, focus)
    BY <1>2, <1>9
  <2>2. v # focus /\ v \notin Workspaces
    BY <1>9, FocusAssumption DEF WorkspaceOf
  <2>3. v \in ToSet(t.focus_stack) /\ IsStack(t.focus_stack) /\ v \in FocusNodes
    BY <1>1, <1>3 DEF SameStack, FocusNodes
  <2>4. /\ Placed(a, NULL) /\ ToSet(a.focus_stack) = ToSet(t.focus_stack)
    BY <2>3, <1>5, RaisedPlaced
  <2>5. /\ a \in Seats /\ IsStack(a.focus_stack)
        /\ \A S : MostRecent(a, S) = IF v \in S THEN v ELSE MostRecent(t, S)
        /\ SameWorld(t, a) /\ SameLayer(t, a) /\ SameFocus(t, a) /\ a.keyboard = t.keyboard
    BY <2>3, <1>3, SetRawFocusStack
  <2> HIDE DEF a
  <2>6. Placed(r, NULL) /\ ToSet(r.focus_stack) = ToSet(a.focus_stack)
    BY <2>1, <2>3, <2>4, <1>1, <1>3, RaisedPlaced DEF SameStack
  <2>7. /\ \A S : MostRecent(r, S) = IF focus \in S THEN focus ELSE MostRecent(a, S)
        /\ SameWorld(a, r) /\ SameLayer(a, r) /\ SameFocus(a, r) /\ r.keyboard = a.keyboard
    BY <2>1, <2>5, <1>1, SetRawFocusStack
  <2>8. /\ SameWorld(t, r) /\ SameLayer(t, r) /\ SameFocus(t, r) /\ r.keyboard = t.keyboard
        /\ ToSet(r.focus_stack) = ToSet(s.focus_stack)
    BY <2>4, <2>5, <2>6, <2>7, <1>3 DEF SameWorld, SameLayer, SameFocus, SameStack
  <2>9. \A S : MostRecent(r, S) = IF focus \in S THEN focus
                                  ELSE IF v \in S THEN v ELSE MostRecent(s, S)
    BY <2>5, <2>7, <1>4
  <2>10. FocusInactive(r) = focus
    BY <2>9, <1>1 DEF FocusInactive
  <2>11. WorkspaceOf(r, focus) = WorkspaceOf(s, focus)
    BY <2>8, <1>3 DEF WorkspaceOf, SameWorld
  <2>12. TopFirst(r)
    <3>1. focus \in Workspaces => WorkspaceOf(s, focus) = focus
      BY FocusAssumption DEF WorkspaceOf
    <3> QED
      BY <3>1, <2>2, <2>9, <2>10, <2>11 DEF TopFirst, StackInv
  <2>13. FrontClear(r)
    <3> SUFFICES ASSUME NEW u \in Views, MostRecent(r, Workspaces \cup {u}) = u
                 PROVE  LET z == r.fullscreen[r.pending[u]]
                        IN  z \in {u, NULL} \/ MostRecent(r, {u, z}) = z
      BY DEF FrontClear
    <3> DEFINE z == s.fullscreen[s.pending[u]]
    <3>1. u \in ToSet(s.focus_stack)
      BY <2>6, <2>8, PlacedStack, MostRecentFound, NullIsNoNode DEF FocusNodes
    <3>2. s.pending[u] \in Workspaces
      BY <3>1, <1>1, WorkspaceOfNode
    <3>3. CASE s.pending[u] = w
      <4>1. r.fullscreen[r.pending[u]] = v
        BY <3>3, <2>8, <1>1, <1>3 DEF SameWorld
      <4>2. u # focus
        BY <3>3, <1>9 DEF WorkspaceOf
      <4>3. MostRecent(r, {u, v}) = v
        BY <4>2, <2>2, <2>9
      <4> QED
        BY <4>1, <4>3
    <3>4. CASE s.pending[u] # w
      <4>1. r.fullscreen[r.pending[u]] = z
        BY <3>2, <3>4, <2>8, <1>3 DEF SameWorld
      <4>2. CASE u = focus
        BY <4>1, <4>2, <1>1, FrontUnobstructed DEF StackInv, Obstructed
      <4>3. CASE u # focus
        <5>1. u # v /\ focus \notin Workspaces
          BY <3>4, <4>3, <2>9
        <5>2. MostRecent(s, Workspaces \cup {u}) = u
          BY <5>1, <4>3, <2>2, <2>9
        <5>3. z \in {u, NULL} \/ MostRecent(s, {u, z}) = z
          BY <5>2 DEF StackInv, FrontClear
        <5>4. z # NULL => s.pending[z] = s.pending[u]
          BY <3>2, <1>1 DEF Placed
        <5>5. z # v
          BY <5>4, <3>4, <1>1
        <5>6. z = NULL \/ z = u \/ MostRecent(r, {u, z}) = z
          BY <5>1, <5>3, <5>5, <4>3, <2>9
        <5> QED
          BY <5>6, <4>1
      <4> QED
        BY <4>2, <4>3
    <3> QED
      BY <3>3, <3>4
  <2>14. /\ WorkspaceKnown(r) /\ r.workspace \in Live(r) /\ GetFocus(r) = GetFocus(t)
    BY <2>8, <2>10, <2>11, <1>3, <1>4
       DEF StackInv, WorkspaceKnown, SameFocus, Live, GetFocus
  <2>15. StackInv(r, NULL)
    BY <2>6, <2>8, <2>12, <2>13, <2>14, <1>3 DEF StackInv, SameFocus, SameLayer
  <2>16. Keyed(r)
    BY <2>8, <2>14, <1>7, KeyedSame DEF Keyed
  <2> QED
    BY <2>8, <2>15, <2>16, <1>3 DEF SameWorld, r
<1> QED
  BY <1>8, <1>9

(* A new node, at the end of the stack.                                    *)
LEMMA AppendKeeps ==
    ASSUME NEW s, StackInv(s, NULL), NEW n \in FocusNodes, n \notin ToSet(s.focus_stack),
           NEW t \in Seats, t.focus_stack = Append(s.focus_stack, n),
           SameLayer(s, t), SameFocus(s, t), t.fullscreen = s.fullscreen,
           \A u \in Views : u # n => t.pending[u] = s.pending[u],
           n \in Views => t.pending[n] \in Live(s)
    PROVE  /\ StackInv(t, NULL) /\ GetFocus(t) = GetFocus(s)
           /\ ToSet(t.focus_stack) = ToSet(s.focus_stack) \cup {n}
<1> DEFINE top == FocusInactive(s)
<1>1. /\ Placed(s, NULL) /\ s \in Seats /\ IsStack(s.focus_stack)
      /\ top \in ToSet(s.focus_stack) /\ top \in FocusNodes /\ top # NULL /\ top # n
  BY PlacedStack, NullIsNoNode DEF StackInv
<1>2. IsStack(t.focus_stack) /\ ToSet(t.focus_stack) = ToSet(s.focus_stack) \cup {n}
  BY <1>1, AppendStack
<1>3. \A S : MostRecent(s, S) # NULL => MostRecent(t, S) = MostRecent(s, S)
  BY <1>1, MostRecentAppend
<1>4. FocusInactive(t) = top /\ GetFocus(t) = GetFocus(s)
  BY <1>1, <1>3 DEF FocusInactive, GetFocus, SameFocus
<1>5. WorkspaceOf(t, top) = WorkspaceOf(s, top)
  BY <1>1 DEF WorkspaceOf
<1>6. Live(s) \subseteq Live(t) /\ Live(t) \subseteq Workspaces
  BY <1>2 DEF Live
<1>7. \A S : S \cap ToSet(s.focus_stack) # {} => MostRecent(t, S) = MostRecent(s, S)
  BY <1>1, <1>3, MostRecentFound
<1>8. TopFirst(t)
  <2>1. Workspaces \cap ToSet(s.focus_stack) # {}
    BY DEF StackInv, Live
  <2> QED
    BY <2>1, <1>4, <1>5, <1>7 DEF TopFirst, StackInv
<1>9. Placed(t, NULL)
  <2>1. \A u \in Views : u \in ToSet(t.focus_stack) <=> u # NULL /\ t.pending[u] # NULL
    <3> TAKE u \in Views
    <3>1. CASE u = n
      BY <3>1, <1>2, NullIsNoNode, FocusAssumption DEF Live
    <3>2. CASE u # n
      BY <3>2, <1>1, <1>2 DEF Placed
    <3> QED
      BY <3>1, <3>2
  <2>2. \A u \in Views : t.pending[u] # NULL => t.pending[u] \in ToSet(t.focus_stack)
    BY <1>1, <1>2 DEF Placed, Live
  <2>3. \A w \in Workspaces : t.fullscreen[w] # NULL => t.pending[t.fullscreen[w]] = w
    <3> SUFFICES ASSUME NEW w \in Workspaces, s.fullscreen[w] # NULL
                 PROVE  t.pending[s.fullscreen[w]] = w
      OBVIOUS
    <3>1. s.fullscreen[w] \in Views /\ s.pending[s.fullscreen[w]] = w /\ w # NULL
      BY <1>1, FocusAssumption DEF Placed, Seats
    <3>2. s.fullscreen[w] \in ToSet(s.focus_stack)
      BY <3>1, <1>1, FocusAssumption DEF Placed
    <3> QED
      BY <3>1, <3>2
  <2>4. IsInjective(t.focus_stack) /\ \A o \in Outputs : \E w \in Live(t) : OutputOf[w] = o
    BY <1>1, <1>2, <1>6 DEF Placed, IsStack
  <2> QED
    BY <2>1, <2>2, <2>3, <2>4 DEF Placed
<1>10. FrontClear(t)
  <2> SUFFICES ASSUME NEW u \in Views, MostRecent(t, Workspaces \cup {u}) = u
               PROVE  LET z == t.fullscreen[t.pending[u]]
                      IN  z \in {u, NULL} \/ MostRecent(t, {u, z}) = z
    BY DEF FrontClear
  <2> DEFINE z == s.fullscreen[s.pending[u]]
  <2>1. MostRecent(s, Workspaces \cup {u}) = u
    <3>1. (Workspaces \cup {u}) \cap ToSet(s.focus_stack) # {}
      BY DEF StackInv, Live
    <3> QED
      BY <3>1, <1>7
  <2>2. u \in ToSet(s.focus_stack) /\ u # n
    BY <2>1, <1>1, MostRecentFound, NullIsNoNode DEF FocusNodes
  <2>3. z \in {u, NULL} \/ MostRecent(s, {u, z}) = z
    BY <2>1 DEF StackInv, FrontClear
  <2>4. MostRecent(t, {u, z}) = MostRecent(s, {u, z})
    BY <2>2, <1>7
  <2> QED
    BY <2>2, <2>3, <2>4
<1>11. WorkspaceKnown(t) /\ t.workspace \in Live(t)
  BY <1>4, <1>5, <1>6 DEF StackInv, WorkspaceKnown, SameFocus
<1> QED
  BY <1>2, <1>4, <1>8, <1>9, <1>10, <1>11 DEF StackInv, SameFocus, SameLayer

LEMMA MapKeeps ==
    ASSUME IInv, NEW v \in Views, NEW w \in Workspaces, NEW allowed \in BOOLEAN,
           NEW fullscreen \in BOOLEAN, Map(v, w, allowed, fullscreen)
    PROVE  IInv'
<1> DEFINE a == [seat EXCEPT !.focus_stack = Append(@, v), !.pending[v] = w]
           b == IF fullscreen THEN FullscreenWorkspace(a, v) ELSE a
<1>1. /\ v \notin Mapped(seat) /\ w \in Live(seat)
      /\ seat' = IF allowed THEN FocusMapped(b, v) ELSE b
  BY DEF Map
<1>2. /\ StackInv(seat, NULL) /\ Keyed(seat) /\ LockInv(seat) /\ Placed(seat, NULL)
      /\ seat \in Seats /\ IsStack(seat.focus_stack) /\ v # NULL /\ w # NULL
      /\ v \in FocusNodes
  BY PlacedStack, FocusAssumption DEF IInv, StackInv, FocusNodes
<1>3. v \notin ToSet(seat.focus_stack)
  BY <1>1, <1>2 DEF Placed, Mapped
<1>4. /\ a \in Seats /\ a.focus_stack = Append(seat.focus_stack, v)
      /\ SameLayer(seat, a) /\ SameFocus(seat, a) /\ a.fullscreen = seat.fullscreen
      /\ a.keyboard = seat.keyboard
      /\ a.pending[v] = w /\ \A u \in Views : u # v => a.pending[u] = seat.pending[u]
      /\ a.locked = seat.locked /\ a.abandoned = seat.abandoned
      /\ a.surface = seat.surface /\ a.focused = seat.focused
  <2>1. Append(seat.focus_stack, v) \in Seq(FocusNodes)
    BY <1>2 DEF IsStack
  <2> QED
    BY <2>1, <1>2 DEF Seats, SameLayer, SameFocus
<1> HIDE DEF a
<1>5. StackInv(a, NULL) /\ GetFocus(a) = GetFocus(seat)
  BY <1>1, <1>2, <1>3, <1>4, AppendKeeps
<1>6. Keyed(a)
  BY <1>2, <1>4, <1>5
     DEF Keyed, LayersKeyed, ViewHasKeyboard, LayerHasKeyboard, ExclusiveFocused,
         LockHasKeyboard, SameLayer
<1>7. /\ StackInv(b, NULL) /\ Keyed(b) /\ b.pending = a.pending
      /\ b.locked = seat.locked /\ b.abandoned = seat.abandoned
      /\ b.surface = seat.surface /\ b.focused = seat.focused
  BY <1>2, <1>4, <1>5, <1>6, FullscreenKeeps
<1> HIDE DEF b
<1>8. v \in ToSet(b.focus_stack)
  BY <1>2, <1>4, <1>7 DEF StackInv, Placed
<1>9. LockInv(b)
  BY <1>2, <1>7, LockInvSame
<1>10. CASE seat' = b
  BY <1>7, <1>9, <1>10 DEF IInv
<1>11. CASE seat' = SetFocus(b, v)
  <2>1. StackInv(seat', NULL) /\ SameWorld(b, seat') /\ Keyed(seat')
    BY <1>7, <1>8, <1>11, SetFocusKeeps
  <2>2. LockInv(seat')
    BY <2>1, <1>9, LockInvSame DEF SameWorld
  <2> QED
    BY <2>1, <2>2 DEF IInv
<1> QED
  BY <1>1, <1>10, <1>11 DEF FocusMapped

(* A step that sets the focus, to a node that exists or to none.           *)
LEMMA FocusSteps ==
    ASSUME IInv, NEW n \in ToSet(seat.focus_stack) \cup {NULL}, seat' = SetFocus(seat, n)
    PROVE  IInv'
<1>1. StackInv(seat, NULL) /\ Keyed(seat) /\ LockInv(seat)
  BY DEF IInv
<1>2. StackInv(seat', NULL) /\ SameWorld(seat, seat') /\ Keyed(seat')
  BY <1>1, SetFocusKeeps
<1>3. LockInv(seat')
  BY <1>1, <1>2, LockInvSame DEF SameWorld
<1> QED
  BY <1>2, <1>3 DEF IInv

LEMMA FocusViewKeeps ==
    ASSUME IInv, NEW v \in Views, FocusView(v)
    PROVE  IInv'
<1>1. v \in ToSet(seat.focus_stack)
  BY FocusAssumption DEF FocusView, Mapped, IInv, StackInv, Placed
<1> QED
  BY <1>1, FocusSteps DEF FocusView

LEMMA FocusWorkspaceKeeps ==
    ASSUME IInv, NEW w \in Workspaces, FocusWorkspace(w)
    PROVE  IInv'
<1>1. w \in ToSet(seat.focus_stack)
  BY DEF FocusWorkspace, Visible, Live
<1> QED
  BY <1>1, FocusSteps DEF FocusWorkspace

LEMMA WorkspaceSwitchKeeps ==
    ASSUME IInv, NEW w \in Workspaces, WorkspaceSwitch(w)
    PROVE  IInv'
<1> DEFINE a == [seat EXCEPT !.focus_stack = Append(@, w)]
           b == IF w \in Live(seat) THEN seat ELSE a
           view == MostRecent(b, ViewsIn(b, w))
<1>1. seat' = SetFocus(b, IF view # NULL THEN view ELSE w)
  BY DEF WorkspaceSwitch, Switched
<1>2. /\ StackInv(seat, NULL) /\ Keyed(seat) /\ LockInv(seat)
      /\ seat \in Seats /\ IsStack(seat.focus_stack)
      /\ w \in FocusNodes /\ w \notin Views
  BY PlacedStack, FocusAssumption DEF IInv, StackInv, FocusNodes
<1>3. StackInv(b, NULL) /\ w \in ToSet(b.focus_stack) /\ Keyed(b) /\ LockInv(b)
  <2>1. CASE w \in Live(seat)
    BY <2>1, <1>2 DEF Live
  <2>2. CASE w \notin Live(seat)
    <3>1. b = a /\ w \notin ToSet(seat.focus_stack)
      BY <2>2 DEF Live
    <3>2. Append(seat.focus_stack, w) \in Seq(FocusNodes)
      BY <1>2 DEF IsStack
    <3>3. /\ a \in Seats /\ a.focus_stack = Append(seat.focus_stack, w)
          /\ SameWorld(seat, a) /\ SameLayer(seat, a) /\ SameFocus(seat, a)
          /\ a.keyboard = seat.keyboard
      BY <3>2, <1>2 DEF Seats, SameLayer, SameFocus, SameWorld
    <3> HIDE DEF a, b
    <3>4. /\ StackInv(a, NULL) /\ GetFocus(a) = GetFocus(seat)
          /\ ToSet(a.focus_stack) = ToSet(seat.focus_stack) \cup {w}
      <4>1. a.fullscreen = seat.fullscreen /\ a.pending = seat.pending
        BY <3>3 DEF SameWorld
      <4> QED
        BY <4>1, <3>1, <3>3, <1>2, AppendKeeps
    <3>5. Keyed(a)
      BY <3>3, <3>4, <1>2, KeyedSame DEF Keyed
    <3>6. LockInv(a)
      BY <3>3, <1>2, LockInvSame DEF SameWorld
    <3> QED
      BY <3>1, <3>4, <3>5, <3>6
  <2> QED
    BY <2>1, <2>2
<1> HIDE DEF b
<1>4. view # NULL => view \in ToSet(b.focus_stack)
  BY <1>3, PlacedStack, MostRecentFound DEF StackInv
<1>5. StackInv(seat', NULL) /\ SameWorld(b, seat') /\ Keyed(seat')
  BY <1>1, <1>3, <1>4, SetFocusKeeps
<1>6. LockInv(seat')
  BY <1>3, <1>5, LockInvSame DEF SameWorld
<1> QED
  BY <1>5, <1>6 DEF IInv

LEMMA FullscreenStepKeeps ==
    ASSUME IInv, NEW v \in Views, Fullscreen(v)
    PROVE  IInv'
<1>1. /\ StackInv(seat, NULL) /\ Keyed(seat) /\ LockInv(seat)
      /\ seat.pending[v] # NULL /\ seat' = FullscreenWorkspace(seat, v)
  BY DEF IInv, Fullscreen, Mapped
<1>2. /\ StackInv(seat', NULL) /\ Keyed(seat')
      /\ seat'.locked = seat.locked /\ seat'.abandoned = seat.abandoned
      /\ seat'.surface = seat.surface /\ seat'.focused = seat.focused
  BY <1>1, FullscreenKeeps
<1> QED
  BY <1>1, <1>2, LockInvSame DEF IInv

LEMMA FullscreenDisableKeeps ==
    ASSUME IInv, NEW w \in Workspaces, FullscreenDisable(w)
    PROVE  IInv'
<1>1. /\ StackInv(seat, NULL) /\ Keyed(seat) /\ LockInv(seat) /\ seat \in Seats
      /\ seat' = [seat EXCEPT !.fullscreen[w] = NULL]
  BY DEF IInv, FullscreenDisable, StackInv, Placed
<1>2. /\ StackInv(seat', NULL) /\ GetFocus(seat') = GetFocus(seat)
      /\ seat'.keyboard = seat.keyboard /\ SameLayer(seat, seat')
  BY <1>1, FullscreenEnds
<1>3. /\ seat'.locked = seat.locked /\ seat'.abandoned = seat.abandoned
      /\ seat'.surface = seat.surface /\ seat'.focused = seat.focused
  BY <1>1 DEF Seats
<1>4. Keyed(seat')
  BY <1>1, <1>2, <1>3
     DEF Keyed, LayersKeyed, ViewHasKeyboard, LayerHasKeyboard, ExclusiveFocused,
         LockHasKeyboard, SameLayer
<1> QED
  BY <1>1, <1>2, <1>3, <1>4, LockInvSame DEF IInv

LEMMA ColumnsMergedKeeps ==
    ASSUME IInv, NEW w \in Workspaces, ColumnsMerged(w)
    PROVE  IInv'
<1>1. /\ StackInv(seat, NULL) /\ Keyed(seat) /\ LockInv(seat)
      /\ seat' = ColumnDestroyed(seat, w)
  BY DEF IInv, ColumnsMerged
<1>2. StackInv(seat', NULL) /\ SameWorld(seat, seat') /\ Keyed(seat')
  BY <1>1, ColumnConsidered
<1>3. LockInv(seat')
  BY <1>1, <1>2, LockInvSame DEF SameWorld
<1> QED
  BY <1>2, <1>3 DEF IInv

-----------------------------------------------------------------------------
(***************************************************************************)
(* Layer surfaces.                                                         *)
(***************************************************************************)

(* A layer loses the focus to what is on top of the stack.                 *)
LEMMA LayerLosesKeeps ==
    ASSUME NEW s, NEW x, StackInv(s, x), s.focused_layer # NULL
    PROVE  LET r == LayerLosesFocus(s)
           IN  /\ StackInv(r, x) /\ SameWorld(s, r) /\ r.focused_layer = NULL
               /\ r.has_exclusive_layer = s.has_exclusive_layer
               /\ ViewHasKeyboard(r) /\ LayerHasKeyboard(r) /\ LockHasKeyboard(r)
<1> DEFINE r == LayerLosesFocus(s)
           top == FocusInactive(s)
<1>1. Placed(s, x) /\ ~s.has_focus /\ TopFirst(s) /\ ~Obstructed(s, top)
  BY FrontUnobstructed DEF StackInv
<1>2. /\ Placed(r, x) /\ SameWorld(s, r) /\ r.focused_layer = NULL
      /\ r.has_exclusive_layer = s.has_exclusive_layer
      /\ OnTop(r, top)
      /\ top \in Views /\ ~s.locked => r.keyboard = top
      /\ s.locked => r.keyboard = s.focused
  BY <1>1, LayerLost
<1> HIDE DEF r, top
<1>3. StackInv(r, x)
  BY <1>2 DEF OnTop, StackInv, WorkspaceKnown
<1>4. ViewHasKeyboard(r)
  BY <1>2 DEF OnTop, GetFocus, ViewHasKeyboard, SameWorld
<1>5. LayerHasKeyboard(r) /\ LockHasKeyboard(r)
  BY <1>2 DEF LayerHasKeyboard, LockHasKeyboard, SameWorld
<1> QED
  BY <1>2, <1>3, <1>4, <1>5 DEF r

(* A layer gets the focus.                                                 *)
LEMMA LayerGetsKeeps ==
    ASSUME NEW s, NEW x, StackInv(s, x), NEW l \in Layers,
           LayerHasKeyboard(s), LockHasKeyboard(s), ViewHasKeyboard(s)
    PROVE  LET r == SetFocusLayer(s, l)
           IN  StackInv(r, x) /\ SameWorld(s, r) /\ Keyed(r)
<1> DEFINE r == SetFocusLayer(s, l)
<1>1. s \in Seats /\ l # NULL /\ NULL \notin Views
  BY FocusAssumption DEF StackInv, Placed
<1>2. CASE s.locked
  <2>1. r = s
    BY <1>1, <1>2, LayerSet
  <2> QED
    BY <2>1, <1>2 DEF Keyed, LayersKeyed, ExclusiveFocused, SameWorld
<1>3. CASE ~s.locked
  <2>1. /\ r \in Seats /\ SameStack(s, r) /\ SameWorld(s, r)
        /\ r.workspace = s.workspace /\ r.focused_layer = l
        /\ r.has_focus <=> s.has_focus /\ s.focused_layer = l
        /\ r.keyboard = IF s.focused_layer = l THEN s.keyboard ELSE l
    BY <1>1, <1>3, LayerSet
  <2> HIDE DEF r
  <2>2. ~r.has_focus
    BY <2>1, <1>1 DEF StackInv
  <2>3. StackInv(r, x)
    BY <2>1, <2>2, SamePlaced, SameTop, SameStackSame DEF StackInv, WorkspaceKnown
  <2>4. ViewHasKeyboard(r)
    BY <2>2, <1>1 DEF ViewHasKeyboard, GetFocus
  <2>5. LayersKeyed(r)
    BY <2>1, <1>1, <1>3
       DEF LayersKeyed, LayerHasKeyboard, ExclusiveFocused, LockHasKeyboard, SameWorld
  <2> QED
    BY <2>1, <2>3, <2>4, <2>5 DEF Keyed, r
<1> QED
  BY <1>2, <1>3

LEMMA TopmostLayer ==
    ASSUME NEW s, NEW o
    PROVE  Topmost(s, o) \in Layers \cup {NULL}
<1> DEFINE P == {l \in TopLayers \cup OverlayLayers :
                    LayerOutput[l] = o /\ s.interactive[l] = "exclusive"}
           i == SelectLastInSeq(LayerStack, LAMBDA l : l \in P)
           k == SelectLastInSeq(LayerStack,
                 LAMBDA l : /\ l \in TopLayers \cup OverlayLayers
                            /\ LayerOutput[l] = o
                            /\ s.interactive[l] = "exclusive")
<1>1. LayerStack \in Seq(Layers)
  BY FocusAssumption
<1> HIDE DEF P
<1>2. \/ i = 0 /\ \A j \in 1..Len(LayerStack) : LayerStack[j] \notin P
      \/ /\ i \in 1..Len(LayerStack) /\ LayerStack[i] \in P
         /\ \A j \in (i+1)..Len(LayerStack) : LayerStack[j] \notin P
  BY <1>1, SelectLast
<1> USE DEF P
<1>3. k = i
  BY DEF SelectLastInSeq
<1>4. Topmost(s, o) = IF k = 0 THEN NULL ELSE LayerStack[k]
  BY DEF Topmost
<1> HIDE DEF i, k
<1> QED
  BY <1>1, <1>2, <1>3, <1>4

(* arrange_layers, of any output.                                          *)
LEMMA ArrangeLayersKeeps ==
    ASSUME NEW s, NEW x, StackInv(s, x), NEW o,
           ViewHasKeyboard(s), LayerHasKeyboard(s), LockHasKeyboard(s)
    PROVE  LET r == ArrangeLayers(s, o)
           IN  StackInv(r, x) /\ SameWorld(s, r) /\ Keyed(r)
<1> DEFINE a == [s EXCEPT !.has_exclusive_layer = FALSE]
           topmost == Topmost(s, o)
           r == ArrangeLayers(s, o)
<1>1. /\ r = IF topmost # NULL THEN SetFocusLayer(a, topmost)
             ELSE IF s.focused_layer # NULL /\ s.interactive[s.focused_layer] = "none"
             THEN LayerLosesFocus(a) ELSE a
      /\ topmost \in Layers \cup {NULL}
  BY TopmostLayer DEF ArrangeLayers
<1>2. s \in Seats
  BY DEF StackInv, Placed
<1>3. /\ a \in Seats /\ SameStack(s, a) /\ SameWorld(s, a) /\ SameFocus(s, a)
      /\ a.focused_layer = s.focused_layer /\ a.has_exclusive_layer = FALSE
      /\ a.keyboard = s.keyboard
  BY <1>2 DEF Seats, SameStack, SameWorld, SameFocus
<1> HIDE DEF a, r, topmost
<1>4. StackInv(a, x) /\ GetFocus(a) = GetFocus(s)
  BY <1>3, StackInvSame, SameTop DEF SameFocus, SameWorld, SameWindows
<1>5. ViewHasKeyboard(a) /\ LayerHasKeyboard(a) /\ LockHasKeyboard(a)
  BY <1>3, <1>4 DEF ViewHasKeyboard, LayerHasKeyboard, LockHasKeyboard, SameWorld
<1>6. CASE r = SetFocusLayer(a, topmost) /\ topmost # NULL
  <2>1. StackInv(r, x) /\ SameWorld(a, r) /\ Keyed(r)
    BY <1>1, <1>4, <1>5, <1>6, LayerGetsKeeps
  <2> QED
    BY <2>1, <1>3 DEF SameWorld, r
<1>7. CASE r = LayerLosesFocus(a) /\ s.focused_layer # NULL
  <2>1. /\ StackInv(r, x) /\ SameWorld(a, r) /\ ~r.has_exclusive_layer
        /\ ViewHasKeyboard(r) /\ LayerHasKeyboard(r) /\ LockHasKeyboard(r)
    BY <1>3, <1>4, <1>7, LayerLosesKeeps
  <2> QED
    BY <2>1, <1>3 DEF SameWorld, Keyed, LayersKeyed, ExclusiveFocused, r
<1>8. CASE r = a
  <2>1. Keyed(a)
    BY <1>3, <1>5 DEF Keyed, LayersKeyed, ExclusiveFocused
  <2> QED
    BY <2>1, <1>3, <1>4, <1>8 DEF r
<1> QED
  BY <1>1, <1>6, <1>7, <1>8

LEMMA LayerUnmapped ==
    ASSUME NEW s, StackInv(s, NULL), Keyed(s), NEW l \in Layers
    PROVE  LET r == HandleLayerUnmap(s, l)
           IN  /\ StackInv(r, NULL)
               /\ ViewHasKeyboard(r) /\ LayerHasKeyboard(r) /\ LockHasKeyboard(r)
               /\ r.locked = s.locked /\ r.abandoned = s.abandoned
               /\ r.surface = s.surface /\ r.focused = s.focused
<1> DEFINE a == [s EXCEPT !.interactive[l] = "unmapped",
                          !.keyboard = IF @ = l THEN NULL ELSE @]
           r == HandleLayerUnmap(s, l)
<1>1. s \in Seats /\ r = IF s.focused_layer = l THEN LayerLosesFocus(a) ELSE a
  BY DEF HandleLayerUnmap, StackInv, Placed
<1>2. /\ a \in Seats /\ SameStack(s, a) /\ SameWindows(s, a) /\ SameLayer(s, a)
      /\ SameFocus(s, a)
      /\ a.keyboard = IF s.keyboard = l THEN NULL ELSE s.keyboard
      /\ a.locked = s.locked /\ a.abandoned = s.abandoned
      /\ a.surface = s.surface /\ a.focused = s.focused
  BY <1>1 DEF Seats, SameStack, SameWindows, SameLayer, SameFocus, Interactivity
<1> HIDE DEF a, r
<1>3. StackInv(a, NULL) /\ GetFocus(a) = GetFocus(s)
  BY <1>2, StackInvSame, SameWindowsTop DEF SameFocus, SameLayer
<1>4. /\ l # NULL /\ l \notin Views /\ l \notin Outputs
      /\ s.focused # NULL => s.focused \in Outputs
  BY <1>1, FocusAssumption DEF Seats
<1>5. ViewHasKeyboard(a) /\ LockHasKeyboard(a)
  BY <1>2, <1>3, <1>4 DEF Keyed, LayersKeyed, ViewHasKeyboard, LockHasKeyboard
<1>6. CASE s.focused_layer # l
  <2>1. LayerHasKeyboard(a)
    BY <1>2, <1>6 DEF Keyed, LayersKeyed, LayerHasKeyboard, SameLayer
  <2> QED
    BY <2>1, <1>1, <1>2, <1>3, <1>5, <1>6 DEF r
<1>7. CASE s.focused_layer = l
  <2>1. r = LayerLosesFocus(a) /\ a.focused_layer # NULL
    BY <1>1, <1>2, <1>4, <1>7 DEF SameLayer
  <2>2. /\ StackInv(r, NULL) /\ SameWorld(a, r)
        /\ ViewHasKeyboard(r) /\ LayerHasKeyboard(r) /\ LockHasKeyboard(r)
    BY <2>1, <1>3, LayerLosesKeeps
  <2> QED
    BY <2>2, <1>2 DEF SameWorld, r
<1> QED
  BY <1>6, <1>7

(* A step that ends by arranging the layers of an output.                  *)
LEMMA ArrangedSteps ==
    ASSUME NEW s, StackInv(s, NULL), NEW o,
           ViewHasKeyboard(s), LayerHasKeyboard(s), LockHasKeyboard(s), LockInv(s),
           seat' = ArrangeLayers(s, o)
    PROVE  IInv'
<1>1. StackInv(seat', NULL) /\ SameWorld(s, seat') /\ Keyed(seat')
  BY ArrangeLayersKeeps
<1>2. LockInv(seat')
  BY <1>1, LockInvSame DEF SameWorld
<1> QED
  BY <1>1, <1>2 DEF IInv

(* What arranging the layers needs, and what leaves the lock screen alone. *)
Arrangeable(s) ==
    /\ StackInv(s, NULL)
    /\ ViewHasKeyboard(s) /\ LayerHasKeyboard(s) /\ LockHasKeyboard(s)
SameLock(s, t) ==
    /\ t.locked = s.locked /\ t.abandoned = s.abandoned
    /\ t.surface = s.surface /\ t.focused = s.focused

LEMMA ArrangedAfter ==
    ASSUME IInv, NEW s, Arrangeable(s), SameLock(seat, s), NEW o, seat' = ArrangeLayers(s, o)
    PROVE  IInv'
<1>1. LockInv(s)
  BY LockInvSame DEF IInv, SameLock
<1> QED
  BY <1>1, ArrangedSteps DEF Arrangeable

LEMMA InteractiveSet ==
    ASSUME NEW s, Arrangeable(s), NEW l \in Layers, NEW i \in Interactivity
    PROVE  LET t == [s EXCEPT !.interactive[l] = i]
           IN  Arrangeable(t) /\ SameLock(s, t)
<1> DEFINE t == [s EXCEPT !.interactive[l] = i]
<1>1. s \in Seats
  BY DEF Arrangeable, StackInv, Placed
<1>2. /\ t \in Seats /\ SameStack(s, t) /\ SameWindows(s, t) /\ SameFocus(s, t)
      /\ SameLayer(s, t) /\ SameLock(s, t) /\ t.keyboard = s.keyboard
  BY <1>1 DEF Seats, SameStack, SameWindows, SameFocus, SameLayer, SameLock
<1> HIDE DEF t
<1>3. StackInv(t, NULL) /\ GetFocus(t) = GetFocus(s)
  BY <1>2, StackInvSame, SameWindowsTop DEF SameFocus, SameLayer, Arrangeable
<1> QED
  BY <1>2, <1>3
     DEF Arrangeable, ViewHasKeyboard, LayerHasKeyboard, LockHasKeyboard, SameLock, SameLayer, t

LEMMA LayerMapped ==
    ASSUME NEW s, Arrangeable(s), NEW l \in Layers
    PROVE  LET r == HandleLayerMap(s, l)
           IN  Arrangeable(r) /\ SameLock(s, r)
<1> DEFINE set == SetFocusLayer(s, l)
           o == LayerOutput[l]
           r == HandleLayerMap(s, l)
<1>1. r = s \/ r = ArrangeLayers(set, o) \/ r = ArrangeLayers(s, o)
  BY DEF HandleLayerMap
<1>2. Arrangeable(set) /\ SameLock(s, set)
  BY LayerGetsKeeps DEF Arrangeable, Keyed, LayersKeyed, SameWorld, SameLock
<1> HIDE DEF set, o, r
<1>3. \A t : Arrangeable(t) => /\ Arrangeable(ArrangeLayers(t, o))
                               /\ SameLock(t, ArrangeLayers(t, o))
  BY ArrangeLayersKeeps DEF Arrangeable, Keyed, LayersKeyed, SameWorld, SameLock
<1>4. Arrangeable(r) /\ SameLock(s, r)
  BY <1>1, <1>2, <1>3 DEF SameLock
<1> QED
  BY <1>4 DEF r

LEMMA LayerCommitKeeps ==
    ASSUME IInv, NEW l \in Layers, NEW i \in Interactivity, LayerCommit(l, i)
    PROVE  IInv'
<1> DEFINE set == [seat EXCEPT !.interactive[l] = i]
           handled == IF i = "unmapped" THEN HandleLayerUnmap(seat, l)
                      ELSE IF l \in MappedLayers(seat) THEN set
                      ELSE HandleLayerMap(set, l)
<1>1. seat' = ArrangeLayers(handled, LayerOutput[l])
  BY DEF LayerCommit
<1>2. Arrangeable(seat)
  BY DEF IInv, Arrangeable, Keyed, LayersKeyed
<1>3. Arrangeable(HandleLayerUnmap(seat, l)) /\ SameLock(seat, HandleLayerUnmap(seat, l))
  BY LayerUnmapped DEF IInv, Arrangeable, SameLock
<1>4. Arrangeable(set) /\ SameLock(seat, set)
  BY <1>2, InteractiveSet
<1> HIDE DEF set
<1>5. Arrangeable(HandleLayerMap(set, l)) /\ SameLock(seat, HandleLayerMap(set, l))
  BY <1>4, LayerMapped DEF SameLock
<1>6. Arrangeable(handled) /\ SameLock(seat, handled)
  BY <1>3, <1>4, <1>5
<1> HIDE DEF handled
<1> QED
  BY <1>1, <1>6, ArrangedAfter

(* A layer that goes passes the focus to another one, or to none.          *)
LEMMA LayerPassedOn ==
    ASSUME IInv, NEW l \in Layers, LayerDestroy(l)
    PROVE  \E p : /\ Arrangeable(p) /\ SameLock(seat, p)
                  /\ seat' = ArrangeLayers(p, LayerOutput[l])
                  /\ \/ p = HandleLayerUnmap(seat, l)
                     \/ \E k \in Layers : p = SetFocusLayer(HandleLayerUnmap(seat, l), k)
<1> DEFINE unmapped == HandleLayerUnmap(seat, l)
           considered == {k \in OverlayLayers \cap MappedLayers(unmapped) :
                             ClientOf[k] = ClientOf[l] /\ LayerOutput[k] # LayerOutput[l]}
           first == SelectInSeq(LayerStack, LAMBDA k : k \in considered)
           passed == IF considered = {} THEN unmapped
                     ELSE SetFocusLayer(unmapped, LayerStack[first])
<1>1. seat' = ArrangeLayers(passed, LayerOutput[l])
  BY DEF LayerDestroy
<1>2. Arrangeable(unmapped) /\ SameLock(seat, unmapped)
  BY LayerUnmapped DEF IInv, Arrangeable, SameLock
<1>3. considered \subseteq Layers
  BY FocusAssumption
<1> HIDE DEF unmapped, considered
<1>4. LayerStack \in Seq(Layers) /\ Layers = {LayerStack[k] : k \in 1..Len(LayerStack)}
  <2>1. LayerStack \in Seq(Layers)
    BY FocusAssumption
  <2>2. DOMAIN LayerStack = 1..Len(LayerStack)
    BY <2>1
  <2> QED
    BY <2>1, <2>2 DEF Layers, ToSet
<1>5. \/ first = 0 /\ \A j \in 1..Len(LayerStack) : LayerStack[j] \notin considered
      \/ /\ first \in 1..Len(LayerStack) /\ LayerStack[first] \in considered
         /\ \A j \in 1..(first-1) : LayerStack[j] \notin considered
  BY <1>4, SelectFirst
<1>6. considered # {} => LayerStack[first] \in Layers
  BY <1>3, <1>4, <1>5
<1> HIDE DEF first
<1>7. Arrangeable(passed) /\ SameLock(seat, passed)
  BY <1>2, <1>6, LayerGetsKeeps DEF Arrangeable, Keyed, LayersKeyed, SameWorld, SameLock
<1>8. passed = unmapped \/ \E k \in Layers : passed = SetFocusLayer(unmapped, k)
  BY <1>6
<1> HIDE DEF passed
<1> QED
  BY <1>1, <1>7, <1>8 DEF unmapped

LEMMA LayerDestroyKeeps ==
    ASSUME IInv, NEW l \in Layers, LayerDestroy(l)
    PROVE  IInv'
BY LayerPassedOn, ArrangedAfter

LEMMA LayerClickKeeps ==
    ASSUME IInv, NEW l \in Layers, LayerClick(l)
    PROVE  IInv'
<1>1. StackInv(seat', NULL) /\ SameWorld(seat, seat') /\ Keyed(seat')
  BY LayerGetsKeeps DEF IInv, LayerClick, Keyed, LayersKeyed
<1>2. LockInv(seat')
  BY <1>1, LockInvSame DEF IInv, SameWorld
<1> QED
  BY <1>1, <1>2 DEF IInv

LEMMA OutputConfiguredKeeps ==
    ASSUME IInv, NEW o \in Outputs, OutputConfigured(o)
    PROVE  IInv'
<1>1. Arrangeable(seat) /\ SameLock(seat, seat)
  BY DEF IInv, Arrangeable, Keyed, LayersKeyed, SameLock
<1> QED
  BY <1>1, ArrangedAfter DEF OutputConfigured

LEMMA KeyboardResetKeeps ==
    ASSUME IInv, KeyboardReset
    PROVE  IInv'
<1> DEFINE layer == seat.focused_layer
           focus == GetFocus(seat)
           lost == LayerLosesFocus(seat)
<1>1. StackInv(seat, NULL) /\ Keyed(seat) /\ LockInv(seat) /\ seat \in Seats
  BY DEF IInv, StackInv, Placed
<1>2. CASE focus # NULL
  <2>1. focus \in ToSet(seat.focus_stack)
    BY <1>1, <1>2, MostRecentFound DEF GetFocus, FocusInactive, StackInv, Placed, IsStack, Seats
  <2>2. seat' = FocusAgain(seat, focus)
    BY <1>2 DEF KeyboardReset
  <2>3. /\ StackInv(seat', NULL) /\ SameWorld(seat, seat')
        /\ Keyed(seat')
    BY <1>1, <2>1, <2>2, FocusAgainKeeps DEF Keyed, LayersKeyed
  <2> QED
    BY <1>1, <2>3, LockInvSame DEF IInv, SameWorld
<1>3. CASE focus = NULL /\ layer # NULL
  <2>1. seat' = SetFocusLayer(lost, layer) /\ layer \in Layers
    BY <1>1, <1>3 DEF KeyboardReset, Seats
  <2>2. /\ StackInv(lost, NULL) /\ SameWorld(seat, lost)
        /\ ViewHasKeyboard(lost) /\ LayerHasKeyboard(lost) /\ LockHasKeyboard(lost)
    BY <1>1, <1>3, LayerLosesKeeps
  <2> HIDE DEF lost
  <2>3. StackInv(seat', NULL) /\ SameWorld(lost, seat') /\ Keyed(seat')
    BY <2>1, <2>2, LayerGetsKeeps
  <2> QED
    BY <1>1, <2>2, <2>3, LockInvSame DEF IInv, SameWorld
<1>4. CASE focus = NULL /\ layer = NULL
  <2>1. seat' = SetFocusSurface(SetFocusSurface(seat, NULL, FALSE), seat.keyboard, FALSE)
    BY <1>4 DEF KeyboardReset
  <2>2. seat' = seat
    BY <1>1, <2>1 DEF SetFocusSurface, Seats
  <2> QED
    BY <2>2 DEF IInv
<1> QED
  BY <1>2, <1>3, <1>4

-----------------------------------------------------------------------------
(***************************************************************************)
(* The session lock.                                                       *)
(***************************************************************************)

(* While the session is locked, only the lock screen's keyboard matters.   *)
LEMMA LockedKeeps ==
    ASSUME NEW s, StackInv(s, NULL), NEW t \in Seats, SameStack(s, t), SameWindows(s, t),
           SameFocus(s, t), t.focused_layer = s.focused_layer, t.locked,
           LockHasKeyboard(t)
    PROVE  StackInv(t, NULL) /\ Keyed(t)
<1>1. StackInv(t, NULL)
  BY StackInvSame
<1> QED
  BY <1>1 DEF Keyed, LayersKeyed, ViewHasKeyboard, LayerHasKeyboard, ExclusiveFocused

LEMMA SessionLockKeeps ==
    ASSUME IInv, NEW c \in Lockers, SessionLock(c)
    PROVE  IInv'
<1> DEFINE replaced == [seat EXCEPT !.locked = FALSE, !.abandoned = FALSE]
           l == replaced.focused_layer
           layerless == IF l # NULL /\ ClientOf[l] # c THEN LayerLosesFocus(replaced)
                        ELSE replaced
           unfocused == UnfocusUnlessClient(replaced, c)
<1>1. /\ StackInv(seat, NULL) /\ LockInv(seat) /\ seat \in Seats
      /\ seat' = [unfocused EXCEPT !.locked = TRUE] /\ (seat.locked => seat.abandoned)
  BY DEF IInv, StackInv, Placed, SessionLock
<1>2. /\ replaced \in Seats /\ SameStack(seat, replaced) /\ SameWindows(seat, replaced)
      /\ SameFocus(seat, replaced) /\ SameLayer(seat, replaced)
      /\ replaced.surface = seat.surface /\ replaced.focused = seat.focused
      /\ ~replaced.abandoned
  BY <1>1 DEF Seats, SameStack, SameWindows, SameFocus, SameLayer
<1>3. unfocused = layerless \/ unfocused = SetFocus(layerless, NULL)
  BY DEF UnfocusUnlessClient
<1> HIDE DEF replaced, unfocused
<1>4. StackInv(replaced, NULL)
  BY <1>1, <1>2, StackInvSame DEF SameLayer
<1>5. StackInv(layerless, NULL) /\ SameWorld(replaced, layerless)
  BY <1>4, LayerLosesKeeps DEF SameWorld
<1> HIDE DEF layerless
<1>6. StackInv(unfocused, NULL) /\ SameWorld(replaced, unfocused)
  BY <1>3, <1>5, SetFocusKeeps DEF SameWorld
<1>7. \A o \in Outputs : seat.surface[o] = "none"
  BY <1>1 DEF LockInv
<1>8. seat.focused = NULL /\ MappedSurfaces(seat) = {}
  BY <1>1, <1>7 DEF LockInv, MappedSurfaces
<1>9. unfocused \in Seats
  BY <1>6 DEF StackInv, Placed
<1>10. /\ seat' \in Seats /\ SameStack(unfocused, seat') /\ SameWindows(unfocused, seat')
       /\ SameFocus(unfocused, seat') /\ SameLayer(unfocused, seat')
       /\ seat'.surface = unfocused.surface /\ seat'.focused = unfocused.focused
       /\ seat'.locked /\ seat'.abandoned = unfocused.abandoned
  BY <1>1, <1>9 DEF Seats, SameStack, SameWindows, SameFocus, SameLayer
<1>11. seat'.focused = NULL /\ seat'.surface = seat.surface /\ ~seat'.abandoned
  BY <1>2, <1>6, <1>8, <1>10 DEF SameWorld
<1>12. StackInv(seat', NULL) /\ Keyed(seat')
  BY <1>6, <1>10, <1>11, LockedKeeps DEF SameLayer, LockHasKeyboard
<1>13. LockInv(seat')
  BY <1>7, <1>8, <1>10, <1>11 DEF LockInv, MappedSurfaces
<1> QED
  BY <1>12, <1>13 DEF IInv

LEMMA LockSurfaceCreateKeeps ==
    ASSUME IInv, NEW o \in Outputs, LockSurfaceCreate(o)
    PROVE  IInv'
<1>1. /\ StackInv(seat, NULL) /\ LockInv(seat) /\ seat \in Seats /\ LockHasKeyboard(seat)
      /\ seat.locked /\ ~seat.abandoned /\ seat.surface[o] = "none"
      /\ seat' = [seat EXCEPT !.surface[o] = "created"]
  BY DEF IInv, StackInv, Placed, LockSurfaceCreate, Keyed, LayersKeyed
<1>2. /\ seat' \in Seats /\ SameStack(seat, seat') /\ SameWindows(seat, seat')
      /\ SameFocus(seat, seat') /\ SameLayer(seat, seat')
      /\ seat'.locked /\ ~seat'.abandoned
      /\ seat'.focused = seat.focused /\ seat'.keyboard = seat.keyboard
      /\ seat'.surface = [seat.surface EXCEPT ![o] = "created"]
      /\ seat.surface \in [Outputs -> {"none", "created", "mapped"}]
  BY <1>1 DEF Seats, SameStack, SameWindows, SameFocus, SameLayer
<1>3. StackInv(seat', NULL) /\ Keyed(seat')
  BY <1>1, <1>2, LockedKeeps DEF SameLayer, LockHasKeyboard
<1>4. MappedSurfaces(seat') = MappedSurfaces(seat)
  BY <1>1, <1>2 DEF MappedSurfaces
<1>5. LockInv(seat')
  BY <1>1, <1>2, <1>4 DEF LockInv
<1> QED
  BY <1>3, <1>5 DEF IInv

LEMMA LockSurfaceMapKeeps ==
    ASSUME IInv, NEW o \in Outputs, LockSurfaceMap(o)
    PROVE  IInv'
<1>1. /\ StackInv(seat, NULL) /\ LockInv(seat) /\ seat \in Seats /\ LockHasKeyboard(seat)
      /\ seat.surface[o] = "created"
  BY DEF IInv, StackInv, Placed, LockSurfaceMap, Keyed, LayersKeyed
<1>2. seat.locked /\ ~seat.abandoned
  BY <1>1 DEF LockInv
<1>3. /\ seat' \in Seats /\ SameStack(seat, seat') /\ SameWindows(seat, seat')
      /\ SameFocus(seat, seat') /\ SameLayer(seat, seat')
      /\ seat'.locked /\ ~seat'.abandoned
      /\ seat'.focused = (IF seat.focused = NULL THEN o ELSE seat.focused)
      /\ seat'.keyboard = (IF seat.focused = NULL THEN o ELSE seat.keyboard)
      /\ seat'.surface = [seat.surface EXCEPT ![o] = "mapped"]
      /\ seat.surface \in [Outputs -> {"none", "created", "mapped"}]
  BY <1>1, <1>2
     DEF LockSurfaceMap, FocusLockSurface, SetFocusSurface, Seats, SameStack, SameWindows,
         SameFocus, SameLayer
<1>4. StackInv(seat', NULL) /\ Keyed(seat')
  BY <1>1, <1>2, <1>3, LockedKeeps DEF SameLayer, LockHasKeyboard
<1>5. MappedSurfaces(seat') = MappedSurfaces(seat) \cup {o}
  BY <1>3 DEF MappedSurfaces
<1>6. o # NULL
  BY FocusAssumption
<1>7. LockInv(seat')
  BY <1>1, <1>3, <1>5, <1>6 DEF LockInv
<1> QED
  BY <1>4, <1>7 DEF IInv

LEMMA LockSurfaceDestroyKeeps ==
    ASSUME IInv, NEW o \in Outputs, NEW next \in Outputs \cup {NULL},
           LockSurfaceDestroy(o, next)
    PROVE  IInv'
<1>1. /\ StackInv(seat, NULL) /\ LockInv(seat) /\ seat \in Seats /\ LockHasKeyboard(seat)
      /\ seat.surface[o] # "none" /\ next \in Candidates(seat, o)
  BY DEF IInv, StackInv, Placed, LockSurfaceDestroy, Keyed, LayersKeyed
<1>2. seat.locked /\ ~seat.abandoned
  BY <1>1 DEF LockInv
<1>3. /\ seat' \in Seats /\ SameStack(seat, seat') /\ SameWindows(seat, seat')
      /\ SameFocus(seat, seat') /\ SameLayer(seat, seat')
      /\ seat'.locked /\ ~seat'.abandoned
      /\ seat'.focused = (IF seat.focused = o THEN next ELSE seat.focused)
      /\ seat'.keyboard = (IF seat.focused = o THEN next ELSE seat.keyboard)
      /\ seat'.surface = [seat.surface EXCEPT ![o] = "none"]
      /\ seat.surface \in [Outputs -> {"none", "created", "mapped"}]
  <2> DEFINE refocused == IF seat.focused = o THEN FocusLockSurface(seat, next) ELSE seat
  <2>1. seat' = [refocused EXCEPT !.surface[o] = "none"]
    BY DEF LockSurfaceDestroy
  <2>2. /\ refocused \in Seats /\ SameStack(seat, refocused) /\ SameWindows(seat, refocused)
        /\ SameFocus(seat, refocused) /\ SameLayer(seat, refocused)
        /\ refocused.locked /\ ~refocused.abandoned /\ refocused.surface = seat.surface
        /\ refocused.focused = (IF seat.focused = o THEN next ELSE seat.focused)
        /\ refocused.keyboard = (IF seat.focused = o THEN next ELSE seat.keyboard)
    BY ZenonT(40), <1>1, <1>2
       DEF FocusLockSurface, SetFocusSurface, Seats, SameStack, SameWindows, SameFocus,
           SameLayer
  <2> HIDE DEF refocused
  <2> QED
    BY <2>1, <2>2 DEF Seats, SameStack, SameWindows, SameFocus, SameLayer
<1>4. StackInv(seat', NULL) /\ Keyed(seat')
  BY <1>1, <1>2, <1>3, LockedKeeps DEF SameLayer, LockHasKeyboard
<1>5. MappedSurfaces(seat') = MappedSurfaces(seat) \ {o}
  BY <1>3 DEF MappedSurfaces
<1>6. o # NULL /\ NULL \notin MappedSurfaces(seat)
  BY FocusAssumption DEF MappedSurfaces
<1>7. /\ next = NULL <=> MappedSurfaces(seat) \ {o} = {}
      /\ next # NULL => next \in MappedSurfaces(seat) \ {o}
  BY <1>1, <1>6 DEF Candidates
<1>8. LockInv(seat')
  BY <1>1, <1>3, <1>5, <1>6, <1>7 DEF LockInv
<1> QED
  BY <1>4, <1>8 DEF IInv

(* The lock surfaces go, with the keyboard one of them had.                *)
LEMMA SurfacesGone ==
    ASSUME NEW s \in Seats
    PROVE  LET r == LockSurfacesGone(s)
           IN  /\ r \in Seats /\ SameStack(s, r) /\ SameWindows(s, r)
               /\ SameFocus(s, r) /\ SameLayer(s, r)
               /\ r.locked = s.locked /\ r.abandoned = s.abandoned
               /\ r.focused = NULL /\ r.surface = [o \in Outputs |-> "none"]
BY DEF LockSurfacesGone, FocusLockSurface, SetFocusSurface, Seats, SameStack,
       SameWindows, SameFocus, SameLayer

LEMMA NoSurfaces ==
    ASSUME NEW s, s.focused = NULL, s.surface = [o \in Outputs |-> "none"]
    PROVE  LockInv(s)
BY DEF LockInv, MappedSurfaces

LEMMA SessionAbandonKeeps ==
    ASSUME IInv, SessionAbandon
    PROVE  IInv'
<1> DEFINE gone == LockSurfacesGone(seat)
<1>1. /\ StackInv(seat, NULL) /\ seat \in Seats /\ seat.locked
      /\ seat' = [gone EXCEPT !.abandoned = TRUE]
  BY DEF IInv, StackInv, Placed, SessionAbandon
<1>2. /\ gone \in Seats /\ SameStack(seat, gone) /\ SameWindows(seat, gone)
      /\ SameFocus(seat, gone) /\ SameLayer(seat, gone) /\ gone.locked
      /\ gone.focused = NULL /\ gone.surface = [o \in Outputs |-> "none"]
  BY <1>1, SurfacesGone
<1> HIDE DEF gone
<1>3. /\ seat' \in Seats /\ SameStack(seat, seat') /\ SameWindows(seat, seat')
      /\ SameFocus(seat, seat') /\ SameLayer(seat, seat') /\ seat'.locked
      /\ seat'.focused = NULL /\ seat'.surface = [o \in Outputs |-> "none"]
  BY ZenonT(40), <1>1, <1>2 DEF Seats, SameStack, SameWindows, SameFocus, SameLayer
<1>4. StackInv(seat', NULL) /\ Keyed(seat')
  BY <1>1, <1>3, LockedKeeps DEF SameLayer, LockHasKeyboard
<1> QED
  BY <1>3, <1>4, NoSurfaces DEF IInv

(* The function Arranged is defined by exists, for any number of outputs.  *)
LEMMA ArrangedExists ==
    ASSUME NEW s, NEW n \in Nat
    PROVE  \E f : f = [i \in 0..n |-> IF i = 0 THEN s
                                      ELSE ArrangeLayers(f[i - 1], OutputList[i])]
<1> DEFINE Defines(f, k) ==
               f = [i \in 0..k |-> IF i = 0 THEN s ELSE ArrangeLayers(f[i - 1], OutputList[i])]
           T == {k \in Nat : ~ \E f : Defines(f, k)}
<1>1. SUFFICES ASSUME T # {} PROVE FALSE
  <2>1. n \notin T
    BY <1>1
  <2> QED
    BY <2>1
<1>2. PICK m \in T : \A k \in T : m <= k
  BY <1>1, LeastNatural
<1>3. CASE m = 0
  <2> DEFINE f == [i \in 0..0 |-> s]
  <2>1. Defines(f, 0)
    OBVIOUS
  <2> QED
    BY <2>1, <1>2, <1>3
<1>4. CASE m # 0
  <2>1. m - 1 \in Nat /\ m - 1 \notin T
    <3>1. T \subseteq Nat /\ m \in T
      BY <1>2
    <3> HIDE DEF T
    <3> QED
      BY <3>1, <1>2, <1>4
  <2>2. PICK f : Defines(f, m - 1)
    BY <2>1
  <2> DEFINE g == [i \in 0..m |-> IF i < m THEN f[i]
                                  ELSE ArrangeLayers(f[m - 1], OutputList[m])]
             h == [i \in 0..m |-> IF i = 0 THEN s ELSE ArrangeLayers(g[i - 1], OutputList[i])]
  <2>3. \A i \in 0..m : g[i] = h[i]
    <3> SUFFICES ASSUME NEW i \in 0..m PROVE g[i] = h[i]
      OBVIOUS
    <3>1. CASE i = 0
      BY <1>2, <1>4, <2>2, <3>1
    <3>2. CASE i # 0 /\ i < m
      <4>1. i \in 0..(m - 1) /\ i - 1 \in 0..m /\ i - 1 < m
        BY <1>2, <3>2
      <4>2. g[i - 1] = f[i - 1] /\ g[i] = f[i]
        BY <4>1, <3>2
      <4>3. f[i] = ArrangeLayers(f[i - 1], OutputList[i])
        BY <2>2, <4>1, <3>2
      <4> QED
        BY <4>2, <4>3, <3>2
    <3>3. CASE i # 0 /\ i = m
      <4>1. m - 1 \in 0..m /\ m - 1 < m
        BY <1>2, <3>3
      <4> QED
        BY <4>1, <3>3
    <3> QED
      BY <1>2, <3>1, <3>2, <3>3
  <2>4. g = h
    BY <2>3
  <2>5. Defines(g, m)
    BY <2>4
  <2> QED
    BY <2>5, <1>2
<1> QED
  BY <1>3, <1>4

(* arrange_layers of every output: all but ExclusiveFocused may be assumed *)
(* of the seat, and the first output gives it.                             *)
LEMMA ArrangedKeeps ==
    ASSUME NEW s, Arrangeable(s)
    PROVE  LET r == Arranged(s) IN StackInv(r, NULL) /\ SameWorld(s, r) /\ Keyed(r)
<1> DEFINE n == Len(OutputList)
           upto == CHOOSE f : f = [i \in 0..n |-> IF i = 0 THEN s
                                       ELSE ArrangeLayers(f[i - 1], OutputList[i])]
           Good(i) == /\ Arrangeable(upto[i]) /\ SameWorld(s, upto[i])
                      /\ i # 0 => Keyed(upto[i])
           T == {i \in 0..n : ~Good(i)}
<1>1. n \in Nat /\ n # 0
  <2>1. /\ OutputList \in Seq(Outputs) /\ Head(InitialStack) \in Workspaces
        /\ OutputOf \in [Workspaces -> Outputs]
    BY FocusAssumption
  <2>2. Outputs # {}
    BY <2>1
  <2> QED
    BY <2>1, <2>2 DEF Outputs, ToSet
<1>2. Arranged(s) = upto[n]
  BY DEF Arranged
<1>3. upto = [i \in 0..n |-> IF i = 0 THEN s ELSE ArrangeLayers(upto[i - 1], OutputList[i])]
  BY <1>1, ArrangedExists
<1> HIDE DEF upto, n
<1>4. /\ upto[0] = s
      /\ \A i \in 0..n : i # 0 => upto[i] = ArrangeLayers(upto[i - 1], OutputList[i])
  BY <1>1, <1>3
<1>5. T = {}
  <2>1. SUFFICES ASSUME T # {} PROVE FALSE
    OBVIOUS
  <2>2. T \subseteq Nat
    BY <1>1
  <2>3. PICK m \in T : \A k \in T : m <= k
    BY <2>1, <2>2, LeastNatural
  <2>4. Good(0)
    BY <1>4 DEF SameWorld
  <2>5. m # 0 /\ m - 1 \in 0..n /\ m - 1 \notin T
    BY <1>1, <2>3, <2>4
  <2>6. Good(m - 1) /\ upto[m] = ArrangeLayers(upto[m - 1], OutputList[m])
    BY <1>4, <2>3, <2>5
  <2> HIDE DEF T
  <2>7. Good(m)
    BY <2>6, ArrangeLayersKeeps DEF Arrangeable, Keyed, LayersKeyed, SameWorld
  <2> QED
    BY <2>3, <2>7 DEF T
<1>6. Good(n)
  BY <1>1, <1>5
<1> QED
  BY <1>1, <1>2, <1>6 DEF Arrangeable

LEMMA SessionUnlockKeeps ==
    ASSUME IInv, SessionUnlock
    PROVE  IInv'
<1> DEFINE gone == LockSurfacesGone(seat)
           unlocked == [gone EXCEPT !.locked = FALSE]
           again == FocusAgain(unlocked, FocusInactive(unlocked))
<1>1. StackInv(seat, NULL) /\ seat \in Seats /\ seat' = Arranged(again)
  BY DEF IInv, StackInv, Placed, SessionUnlock
<1>2. /\ gone \in Seats /\ SameStack(seat, gone) /\ SameWindows(seat, gone)
      /\ SameFocus(seat, gone) /\ SameLayer(seat, gone)
      /\ gone.focused = NULL /\ gone.surface = [o \in Outputs |-> "none"]
  BY <1>1, SurfacesGone
<1> HIDE DEF gone
<1>3. /\ unlocked \in Seats /\ SameStack(seat, unlocked) /\ SameWindows(seat, unlocked)
      /\ SameFocus(seat, unlocked) /\ SameLayer(seat, unlocked)
      /\ unlocked.focused = NULL /\ unlocked.surface = [o \in Outputs |-> "none"]
  BY <1>2 DEF Seats, SameStack, SameWindows, SameFocus, SameLayer
<1> HIDE DEF unlocked
<1>4. StackInv(unlocked, NULL)
  BY <1>1, <1>3, StackInvSame DEF SameLayer
<1>5. FocusInactive(unlocked) \in ToSet(unlocked.focus_stack)
  <2>1. IsStack(unlocked.focus_stack) /\ unlocked.workspace \in Live(unlocked)
    BY <1>4 DEF StackInv, Placed, IsStack, Seats
  <2> QED
    BY <2>1, MostRecentFound DEF FocusInactive, Live, FocusNodes
<1>6. Arrangeable(again) /\ SameWorld(unlocked, again)
  BY <1>4, <1>5, FocusAgainKeeps DEF Arrangeable
<1> HIDE DEF again
<1>7. StackInv(seat', NULL) /\ SameWorld(again, seat') /\ Keyed(seat')
  BY <1>1, <1>6, ArrangedKeeps
<1>8. LockInv(seat')
  BY <1>3, <1>6, <1>7, NoSurfaces DEF SameWorld
<1> QED
  BY <1>7, <1>8 DEF IInv

-----------------------------------------------------------------------------
(***************************************************************************)
(* The theorems.                                                           *)
(***************************************************************************)

(* The invariant holds at first: only the workspaces are in the stack.     *)
LEMMA InitInv == Init => IInv
<1> SUFFICES ASSUME Init PROVE IInv
  OBVIOUS
<1> DEFINE w == Head(InitialStack)
<1>1. /\ InitialStack \in Seq(Workspaces) /\ InitialStack # << >> /\ IsInjective(InitialStack)
      /\ InitialStack \in Seq(FocusNodes) /\ w \in Workspaces
      /\ w \in ToSet(InitialStack) /\ ToSet(InitialStack) \subseteq Workspaces
  <2>1. InitialStack \in Seq(Workspaces) /\ InitialStack # << >> /\ IsInjective(InitialStack)
    BY FocusAssumption
  <2>2. /\ Len(InitialStack) \in Nat \ {0} /\ DOMAIN InitialStack = 1..Len(InitialStack)
        /\ \A i \in 1..Len(InitialStack) : InitialStack[i] \in Workspaces
        /\ w = InitialStack[1]
    BY <2>1
  <2> QED
    BY <2>1, <2>2 DEF FocusNodes, ToSet
<1>2. seat.focus_stack = InitialStack /\ seat.workspace = w /\ seat.has_focus
  BY DEF Init
<1>3. seat \in Seats
  BY <1>1 DEF Init, Seats, Interactivity
<1>4. /\ \A v \in Views : seat.pending[v] = NULL
      /\ \A z \in Workspaces : seat.fullscreen[z] = NULL
      /\ \A o \in Outputs : seat.surface[o] = "none"
      /\ ~seat.locked /\ seat.focused = NULL /\ seat.focused_layer = NULL
      /\ ~seat.has_exclusive_layer
  BY DEF Init
<1>5. Live(seat) = ToSet(InitialStack)
  BY <1>1, <1>2 DEF Live
<1>6. Placed(seat, NULL)
  <2>1. \A v \in Views : v \notin ToSet(InitialStack)
    BY <1>1, FocusAssumption
  <2>2. \A o \in Outputs : \E z \in Live(seat) : OutputOf[z] = o
    BY <1>5, FocusAssumption
  <2> QED
    BY <1>1, <1>2, <1>3, <1>4, <2>1, <2>2 DEF Placed
<1>7. \A S : w \in S => MostRecent(seat, S) = w
  <2> SUFFICES ASSUME NEW S, w \in S PROVE MostRecent(seat, S) = w
    OBVIOUS
  <2>1. /\ IsStack(seat.focus_stack) /\ 1 \in 1..Len(seat.focus_stack)
        /\ seat.focus_stack[1] = w /\ 1..(1 - 1) = {}
    BY <1>1, <1>2 DEF IsStack
  <2> QED
    BY <2>1, MostRecentUnique
<1>8. FocusInactive(seat) = w /\ MostRecent(seat, Workspaces) = w
  BY <1>1, <1>7 DEF FocusInactive, FocusNodes
<1>9. w \notin Views
  BY <1>1, FocusAssumption
<1>10. TopFirst(seat) /\ WorkspaceKnown(seat)
  BY <1>2, <1>8, <1>9 DEF TopFirst, WorkspaceKnown, WorkspaceOf
<1>11. FrontClear(seat)
  BY <1>1, <1>7, <1>9 DEF FrontClear
<1>12. StackInv(seat, NULL)
  BY <1>1, <1>2, <1>4, <1>5, <1>6, <1>10, <1>11 DEF StackInv
<1>13. Keyed(seat)
  BY <1>2, <1>4, <1>8, <1>9 DEF Keyed, LayersKeyed, ViewHasKeyboard, LayerHasKeyboard,
                          ExclusiveFocused, LockHasKeyboard, GetFocus
<1>14. LockInv(seat)
  BY <1>4 DEF LockInv, MappedSurfaces
<1> QED
  BY <1>12, <1>13, <1>14 DEF IInv

(* Every step keeps it: one lemma for each action.                         *)
LEMMA NextInv == IInv /\ [Next]_seat => IInv'
<1> SUFFICES ASSUME IInv, [Next]_seat PROVE IInv'
  OBVIOUS
<1>1. CASE UNCHANGED seat
  BY <1>1 DEF IInv
<1>2. CASE \E v \in Views, w \in Workspaces, allowed, fullscreen \in BOOLEAN :
              Map(v, w, allowed, fullscreen)
  BY <1>2, MapKeeps
<1>3. CASE \E v \in Views, next_focus \in Views \cup {NULL}, siblings \in SUBSET Views :
              Unmap(v, siblings, next_focus)
  BY <1>3, UnmapKeeps
<1>4. CASE \E v \in Views : Fullscreen(v) \/ FocusView(v)
  BY <1>4, FullscreenStepKeeps, FocusViewKeeps
<1>5. CASE \E w \in Workspaces : FullscreenDisable(w) \/ ColumnsMerged(w)
  BY <1>5, FullscreenDisableKeeps, ColumnsMergedKeeps
<1>6. CASE \E w \in Workspaces : FocusWorkspace(w) \/ WorkspaceSwitch(w)
  BY <1>6, FocusWorkspaceKeeps, WorkspaceSwitchKeeps
<1>7. CASE KeyboardReset
  BY <1>7, KeyboardResetKeeps
<1>8. CASE \E l \in Layers, i \in Interactivity : LayerCommit(l, i)
  BY <1>8, LayerCommitKeeps
<1>9. CASE \E l \in Layers : LayerDestroy(l) \/ LayerClick(l)
  BY <1>9, LayerDestroyKeeps, LayerClickKeeps
<1>10. CASE \E o \in Outputs : OutputConfigured(o)
  BY <1>10, OutputConfiguredKeeps
<1>11. CASE \E c \in Lockers : SessionLock(c)
  BY <1>11, SessionLockKeeps
<1>12. CASE \E o \in Outputs : LockSurfaceCreate(o) \/ LockSurfaceMap(o)
  BY <1>12, LockSurfaceCreateKeeps, LockSurfaceMapKeeps
<1>13. CASE \E o \in Outputs, next_focus \in Outputs \cup {NULL} :
               LockSurfaceDestroy(o, next_focus)
  BY <1>13, LockSurfaceDestroyKeeps
<1>14. CASE SessionAbandon
  BY <1>14, SessionAbandonKeeps
<1>15. CASE SessionUnlock
  BY <1>15, SessionUnlockKeeps
<1> QED
  BY <1>1, <1>2, <1>3, <1>4, <1>5, <1>6, <1>7, <1>8, <1>9, <1>10, <1>11, <1>12, <1>13,
     <1>14, <1>15 DEF Next

THEOREM FocusInvariant == Spec => []IInv
BY InitInv, NextInv, PTL DEF Spec

(* What has the focus has the keyboard (seat.c: seat_send_focus), whatever *)
(* removed the nodes in front of it; and the stack holds no node twice.    *)
THEOREM KeyboardFollows == Spec => []KeyboardFollowsFocus
<1>1. IInv => KeyboardFollowsFocus
  BY DEF IInv, StackInv, Placed, TypeOK, Keyed, LayersKeyed, ViewHasKeyboard,
         LayerHasKeyboard, KeyboardFollowsFocus
<1> QED
  BY <1>1, FocusInvariant, PTL

(* The lock screen has a focused surface as long as one is mapped, and     *)
(* that surface the keyboard, whatever is focused behind it (lock.c).      *)
THEOREM LockScreenKeeps == Spec => []LockScreenHasKeyboard
<1>1. IInv => LockScreenHasKeyboard
  <2> SUFFICES ASSUME IInv PROVE LockScreenHasKeyboard
    OBVIOUS
  <2>1. LockInv(seat) /\ LockHasKeyboard(seat)
    BY DEF IInv, Keyed, LayersKeyed
  <2>2. seat.focused # NULL => seat.locked
    <3>1. seat.focused # NULL => seat.focused \in Outputs /\ seat.surface[seat.focused] = "mapped"
      BY <2>1 DEF LockInv, MappedSurfaces
    <3> QED
      BY <2>1, <3>1 DEF LockInv
  <2> QED
    BY <2>1, <2>2 DEF LockInv, LockHasKeyboard, LockScreenHasKeyboard
<1> QED
  BY <1>1, FocusInvariant, PTL

(* While an exclusive layer is set no window has the keyboard (seat.h:102).*)
THEOREM ExclusiveKeeps == Spec => []ExclusiveBlocksViews
<1>1. IInv => ExclusiveBlocksViews
  <2> SUFFICES ASSUME IInv PROVE ExclusiveBlocksViews
    OBVIOUS
  <2>1. seat \in Seats /\ LayerHasKeyboard(seat) /\ ExclusiveFocused(seat)
    BY DEF IInv, StackInv, Placed, Keyed, LayersKeyed
  <2>2. seat.focused_layer \in Layers \cup {NULL}
    BY <2>1 DEF Seats
  <2> QED
    BY <2>1, <2>2, FocusAssumption
       DEF LayerHasKeyboard, ExclusiveFocused, ExclusiveBlocksViews
<1> QED
  BY <1>1, FocusInvariant, PTL

(* What has the focus is not hidden by a fullscreen window and is on the   *)
(* workspace the seat knows, which exists (seat.c:1168, seat.h).           *)
THEOREM FocusSeen == Spec => []FocusInSight
<1>1. IInv => FocusInSight
  <2> SUFFICES ASSUME IInv PROVE FocusInSight
    OBVIOUS
  <2>1. /\ Placed(seat, NULL) /\ FrontClear(seat) /\ TopFirst(seat)
        /\ WorkspaceKnown(seat) /\ seat.workspace \in Live(seat)
    BY DEF IInv, StackInv
  <2>2. ~Obstructed(seat, FocusInactive(seat))
    BY <2>1, FrontUnobstructed
  <2> QED
    BY <2>1, <2>2 DEF WorkspaceKnown, FocusInSight
<1> QED
  BY <1>1, FocusInvariant, PTL

-----------------------------------------------------------------------------
(* No step of the seat leaves an empty workspace behind while a node has   *)
(* the focus (EmptyWorkspacesGo of Focus): which workspaces each function  *)
(* of seat.c takes out of sight, and whether one of them is empty.         *)


(* No output shows another workspace, and none comes or goes.              *)
Shows(s, t) ==
    /\ Live(t) = Live(s)
    /\ \A o : ActiveWorkspace(t, o) = ActiveWorkspace(s, o)

(* Nothing is forgotten but what was.                                      *)
Forgets(s, t) == Forgotten(t) \subseteq Forgotten(s)

LEMMA ShowsSame ==
    ASSUME NEW s, NEW t, Shows(s, t), t.pending = s.pending
    PROVE  Forgotten(t) = Forgotten(s) /\ \A w : Visible(t, w) <=> Visible(s, w)
BY DEF Shows, Forgotten, Visible, ViewsIn

LEMMA SameStackShows ==
    ASSUME NEW s, NEW t, SameStack(s, t)
    PROVE  Shows(s, t)
BY SameStackSame DEF Shows

LEMMA SameStackForgets ==
    ASSUME NEW s, NEW t, SameStack(s, t), t.pending = s.pending
    PROVE  Forgets(s, t)
BY ShowsSame, SameStackShows DEF Forgets

(* Raising a window, or a workspace that is shown.                         *)
LEMMA RaisedShows ==
    ASSUME NEW s \in Seats, IsStack(s.focus_stack), NEW n \in ToSet(s.focus_stack),
           n \in Workspaces => Visible(s, n)
    PROVE  LET r == SetRawFocus(s, n)
           IN  /\ Shows(s, r) /\ r.pending = s.pending
               /\ r \in Seats /\ IsStack(r.focus_stack)
               /\ ToSet(r.focus_stack) = ToSet(s.focus_stack)
<1> DEFINE r == SetRawFocus(s, n)
<1>1. n \in FocusNodes
  BY DEF IsStack, ToSet
<1>2. /\ r \in Seats /\ IsStack(r.focus_stack)
      /\ ToSet(r.focus_stack) = ToSet(s.focus_stack) \cup {n}
      /\ \A S : MostRecent(r, S) = IF n \in S THEN n ELSE MostRecent(s, S)
      /\ SameWorld(s, r)
  BY <1>1, SetRawFocusStack
<1> HIDE DEF r
<1>3. ASSUME NEW o PROVE ActiveWorkspace(r, o) = ActiveWorkspace(s, o)
  <2> DEFINE S == {w \in Workspaces : OutputOf[w] = o}
  <2>1. n \in S => MostRecent(s, S) = n
    BY DEF Visible, ActiveWorkspace
  <2> QED
    BY <2>1, <1>2 DEF ActiveWorkspace
<1>4. Shows(s, r)
  BY <1>2, <1>3 DEF Shows, Live
<1> QED
  BY <1>2, <1>4 DEF r, SameWorld

(* seat_set_workspace_focus: the workspace that was shown goes if it is    *)
(* empty.                                                                  *)
LEMMA WorkspaceFocusForgets ==
    ASSUME NEW s, NEW x, Placed(s, x), NEW n \in ToSet(s.focus_stack) \cup {NULL}
    PROVE  LET r == SetWorkspaceFocus(s, n)
           IN  /\ Forgets(s, r) /\ r.pending = s.pending /\ r \in Seats
               /\ s.has_focus /\ n # NULL => r.has_focus
<1> DEFINE r == SetWorkspaceFocus(s, n)
           new == WorkspaceOf(s, n)
           last == ActiveWorkspace(s, OutputOf[new])
<1>1. s \in Seats /\ IsStack(s.focus_stack) /\ ToSet(s.focus_stack) \subseteq FocusNodes
  BY PlacedStack
<1>2. CASE n = NULL
  <2>1. r \in Seats /\ SameStack(s, r) /\ SameWorld(s, r)
    BY <1>1, <1>2, FocusUnset
  <2> QED
    BY <2>1, <1>2, SameStackForgets DEF SameWorld
<1>3. CASE n # NULL /\ (GetFocus(s) = n \/ Obstructed(s, n))
  <2>1. r = s
    BY <1>3 DEF SetWorkspaceFocus
  <2> QED
    BY <2>1, <1>1 DEF Forgets
<1>4. CASE n # NULL /\ ~(GetFocus(s) = n \/ Obstructed(s, n))
  <2>1. /\ Placed(r, x) /\ OnTop(r, n) /\ SameWorld(s, r)
        /\ ToSet(r.focus_stack) \subseteq ToSet(s.focus_stack)
        /\ ViewsIn(s, last) = {} /\ last # new => last \notin Live(r)
        /\ \A o : o # OutputOf[new] => ActiveWorkspace(r, o) = ActiveWorkspace(s, o)
    BY <1>4, FocusSet
  <2> HIDE DEF r
  <2>2. Visible(r, new)
    <3>1. WorkspaceOf(r, FocusInactive(r)) = new
      BY <2>1 DEF OnTop, WorkspaceOf, SameWorld
    <3> QED
      BY <3>1, <2>1, TopShown DEF OnTop
  <2>3. ASSUME NEW w \in Forgotten(r) PROVE w \in Forgotten(s)
    <3>1. /\ w \in Live(s) /\ w \in Live(r) /\ ~Visible(r, w)
          /\ ViewsIn(s, w) = {} /\ w # new
      BY <2>1, <2>2, <2>3 DEF Forgotten, Live, ViewsIn, SameWorld
    <3>2. ~Visible(s, w)
      <4> SUFFICES ASSUME Visible(s, w) PROVE FALSE
        OBVIOUS
      <4>1. OutputOf[w] = OutputOf[new]
        BY <3>1, <2>1 DEF Visible
      <4>2. w = last
        BY <4>1 DEF Visible
      <4> QED
        BY <4>2, <3>1, <2>1
    <3> QED
      BY <3>1, <3>2 DEF Forgotten
  <2> QED
    BY <2>1, <2>3 DEF Forgets, SameWorld, OnTop, Placed, r
<1> QED
  BY <1>2, <1>3, <1>4

LEMMA NoLayerForgets ==
    ASSUME NEW s, NEW x, Placed(s, x), NEW n \in ToSet(s.focus_stack) \cup {NULL}
    PROVE  LET r == SetFocusNoLayer(s, n) IN Forgets(s, r) /\ r.pending = s.pending
<1> DEFINE a == SetWorkspaceFocus(s, n)
           r == SetFocusNoLayer(s, n)
<1>1. Forgets(s, a) /\ a.pending = s.pending
  BY WorkspaceFocusForgets
<1>2. SameStack(a, r) /\ r.pending = a.pending
  BY DEF SetFocusNoLayer, Redirected, SetFocusSurface, SameStack
<1> HIDE DEF a, r
<1> QED
  BY <1>1, <1>2, SameStackForgets DEF Forgets, r

(* A layer loses the focus, wherever the seat is in doing so.              *)
LEMMA LayerLosesForgets ==
    ASSUME NEW s, NEW x, Placed(s, x)
    PROVE  LET r == LayerLosesFocus(s) IN Forgets(s, r) /\ r.pending = s.pending
<1> DEFINE top == FocusInactive(s)
           unset == [s EXCEPT !.focused_layer = NULL]
           a == SetFocusNoLayer(unset, NULL)
           r == LayerLosesFocus(s)
<1>1. s \in Seats /\ IsStack(s.focus_stack) /\ top \in ToSet(s.focus_stack) /\ top # NULL
  BY PlacedStack, NullIsNoNode
<1>2. r = IF s.focused_layer = NULL THEN s ELSE SetFocusNoLayer(a, top)
  BY <1>1 DEF LayerLosesFocus
<1>3. /\ unset \in Seats /\ SameStack(s, unset) /\ SameWorld(s, unset)
      /\ IsStack(unset.focus_stack)
  BY <1>1 DEF Seats, SameStack, SameWorld
<1>4. Placed(unset, x)
  BY <1>3, SamePlaced
<1> HIDE DEF unset
<1>5. a \in Seats /\ SameStack(unset, a) /\ SameWorld(unset, a)
  <2> DEFINE b == SetWorkspaceFocus(unset, NULL)
  <2>1. b \in Seats /\ SameStack(unset, b) /\ SameWorld(unset, b)
    BY <1>3, FocusUnset
  <2> HIDE DEF b
  <2>2. a = Redirected(b)
    BY DEF SetFocusNoLayer, b
  <2> QED
    BY <2>1, <2>2, RedirectedFacts DEF SameStack, SameWorld
<1> HIDE DEF a
<1>6. /\ Placed(a, x) /\ SameStack(s, a) /\ a.pending = s.pending
      /\ top \in ToSet(a.focus_stack)
  BY <1>1, <1>3, <1>4, <1>5, SamePlaced DEF SameStack, SameWorld
<1>7. Forgets(s, a)
  BY <1>6, SameStackForgets
<1>8. Forgets(a, SetFocusNoLayer(a, top)) /\ SetFocusNoLayer(a, top).pending = a.pending
  BY <1>6, NoLayerForgets
<1> QED
  BY <1>2, <1>6, <1>7, <1>8 DEF Forgets

LEMMA RegainedShows ==
    ASSUME NEW s, NEW l
    PROVE  LET r == Redirected(LayerRegainsFocus(s, l))
           IN  SameStack(s, r) /\ r.pending = s.pending
BY DEF Redirected, LayerRegainsFocus, SetFocusLayer, SetFocusSurface, SameStack

(* seat_set_focus                                                          *)
LEMMA SetFocusForgets ==
    ASSUME NEW s, NEW x, Ready(s, x), NEW n \in ToSet(s.focus_stack) \cup {NULL}
    PROVE  LET r == SetFocus(s, n)
           IN  /\ Forgets(s, r) /\ r.pending = s.pending
               /\ s.focused_layer = NULL /\ s.has_focus /\ n # NULL => r.has_focus
<1> DEFINE a == LayerLosesFocus(s)
           b == SetWorkspaceFocus(a, n)
           r == SetFocus(s, n)
<1>1. Forgets(s, a) /\ a.pending = s.pending
  BY LayerLosesForgets DEF Ready
<1>2. Placed(a, x) /\ ToSet(a.focus_stack) = ToSet(s.focus_stack)
  BY LayerGone
<1>3. s.focused_layer = NULL => a = s
  BY DEF LayerLosesFocus
<1> HIDE DEF a
<1>4. /\ Forgets(a, b) /\ b.pending = a.pending /\ b \in Seats
      /\ a.has_focus /\ n # NULL => b.has_focus
  BY <1>2, WorkspaceFocusForgets
<1>5. r = Redirected(LayerRegainsFocus(b, s.focused_layer))
  BY DEF SetFocus, a
<1> HIDE DEF b, r
<1>6. SameStack(b, r) /\ r.pending = b.pending
  BY <1>5, RegainedShows
<1>7. s.focused_layer = NULL /\ b.has_focus => r.has_focus
  BY <1>4, <1>5, RedirectedFacts DEF LayerRegainsFocus, SameFocus
<1>8. Forgets(b, r)
  BY <1>6, SameStackForgets
<1> QED
  BY <1>1, <1>3, <1>4, <1>6, <1>7, <1>8 DEF Forgets, r

LEMMA FocusForgets ==
    ASSUME NEW s, NEW x, StackInv(s, x), NEW n \in ToSet(s.focus_stack) \cup {NULL}
    PROVE  LET r == SetFocus(s, n)
           IN  /\ Forgets(s, r) /\ r.pending = s.pending
               /\ s.has_focus /\ n # NULL => r.has_focus
<1>1. Ready(s, x) /\ (s.has_focus => s.focused_layer = NULL)
  BY DEF Ready, StackInv
<1> QED
  BY <1>1, SetFocusForgets

LEMMA FocusAgainForgets ==
    ASSUME NEW s, NEW x, StackInv(s, x), NEW n \in ToSet(s.focus_stack)
    PROVE  LET r == FocusAgain(s, n) IN Forgets(s, r) /\ r.pending = s.pending
<1> DEFINE a == SetFocus(s, NULL)
           r == FocusAgain(s, n)
<1>1. n # NULL
  BY PlacedStack, NullIsNoNode DEF StackInv
<1>2. r = SetFocus(a, n)
  BY <1>1 DEF FocusAgain
<1>3. Forgets(s, a) /\ a.pending = s.pending
  BY FocusForgets
<1>4. StackInv(a, x) /\ ToSet(a.focus_stack) = ToSet(s.focus_stack)
  BY SetFocusKeeps
<1> HIDE DEF a
<1>5. Forgets(a, SetFocus(a, n)) /\ SetFocus(a, n).pending = a.pending
  BY <1>4, FocusForgets
<1> QED
  BY <1>2, <1>3, <1>5 DEF Forgets

-----------------------------------------------------------------------------
(***************************************************************************)
(* Nodes being destroyed.                                                  *)
(***************************************************************************)

(* The next node to focus is moved behind the first node of the stack.     *)
LEMMA MovedShows ==
    ASSUME NEW s, NEW x, Placed(s, x), TopFirst(s), NEW n \in ToSet(s.focus_stack),
           n \in Workspaces => Visible(s, n)
    PROVE  LET top == FocusInactive(s)
               a == SetRawFocus(s, n)
               r == SetRawFocus(IF top \in Views THEN SetRawFocus(a, s.pending[top]) ELSE a, top)
           IN  Shows(s, r) /\ r.pending = s.pending
<1> DEFINE top == FocusInactive(s)
           w == WorkspaceOf(s, top)
           a == SetRawFocus(s, n)
           b == IF top \in Views THEN SetRawFocus(a, s.pending[top]) ELSE a
           r == SetRawFocus(b, top)
<1>1. /\ s \in Seats /\ IsStack(s.focus_stack) /\ top \in ToSet(s.focus_stack)
      /\ w \in ToSet(s.focus_stack) /\ (top \in Views => s.pending[top] = w)
      /\ top \notin Views => top = w
  BY PlacedStack, WorkspaceOfNode DEF Live
<1>2. Visible(s, w) /\ (top \in Workspaces => Visible(s, top))
  BY <1>1, TopShown, FocusAssumption
<1> HIDE DEF w
<1>3. /\ Shows(s, a) /\ a.pending = s.pending /\ a \in Seats /\ IsStack(a.focus_stack)
      /\ ToSet(a.focus_stack) = ToSet(s.focus_stack)
  BY <1>1, RaisedShows
<1> HIDE DEF a
<1>4. /\ Shows(s, b) /\ b.pending = s.pending /\ b \in Seats /\ IsStack(b.focus_stack)
      /\ ToSet(b.focus_stack) = ToSet(s.focus_stack)
  <2>1. Visible(a, w)
    BY <1>2, <1>3, ShowsSame
  <2>2. LET c == SetRawFocus(a, w)
        IN  /\ Shows(a, c) /\ c.pending = a.pending /\ c \in Seats /\ IsStack(c.focus_stack)
            /\ ToSet(c.focus_stack) = ToSet(a.focus_stack)
    BY <2>1, <1>1, <1>3, RaisedShows
  <2> QED
    BY <2>2, <1>1, <1>3 DEF Shows
<1> HIDE DEF b
<1>5. top \in Workspaces => Visible(b, top)
  BY <1>2, <1>4, ShowsSame
<1>6. Shows(b, r) /\ r.pending = b.pending
  BY <1>1, <1>4, <1>5, RaisedShows
<1> HIDE DEF r
<1> QED
  BY <1>4, <1>6 DEF Shows, r, b, a

(* handle_seat_node_destroy, of the container of a window.                 *)
LEMMA ViewDestroyedForgets ==
    ASSUME NEW s, StackInv(s, NULL), s.has_focus, NEW v \in Views, v \in ToSet(s.focus_stack),
           \A w \in Workspaces : s.fullscreen[w] # v,
           NEW siblings, siblings \subseteq ViewsIn(s, s.pending[v])
    PROVE  LET r == ContainerDestroyed(s, v, siblings, s.pending[v])
           IN  Forgets(s, r) /\ r.pending = s.pending /\ r.has_focus
<1> DEFINE w == s.pending[v]
           gone == SeatNodeDestroy(s, v)
           sibling == MostRecent(gone, siblings \ {v})
           view == IF sibling # NULL THEN sibling ELSE MostRecent(gone, ViewsIn(s, w) \ {v})
           next == IF view # NULL THEN view ELSE w
           focus == FocusInactive(gone)
           top == FocusInactive(s)
           a == SetRawFocus(gone, next)
           moved == SetRawFocus(IF focus \in Views THEN SetRawFocus(a, s.pending[focus]) ELSE a,
                                focus)
           r == ContainerDestroyed(s, v, siblings, w)
<1>1. /\ Placed(s, NULL) /\ s \in Seats /\ IsStack(s.focus_stack) /\ v # NULL
      /\ w \in Workspaces /\ w \in Live(s)
  BY PlacedStack, WorkspaceOfNode, NullIsNoNode DEF StackInv, FocusNodes
<1>2. /\ Placed(gone, v) /\ Live(gone) = Live(s)
      /\ \A y \in Workspaces : Visible(gone, y) <=> Visible(s, y)
      /\ MostRecent(gone, Workspaces) = MostRecent(s, Workspaces)
      /\ SameWorld(s, gone) /\ SameLayer(s, gone) /\ SameFocus(s, gone)
      /\ top # v => focus = top
  BY ViewGone
<1>3. r = IF next = w /\ ~Visible(gone, w) THEN gone
          ELSE IF GetFocus(s) = v
          THEN IF GetFocus(gone) = next THEN SendFocus(gone, next) ELSE SetFocus(gone, next)
          ELSE moved
  BY <1>1, <1>2 DEF ContainerDestroyed, SameWorld
<1> HIDE DEF gone
<1>4. gone \in Seats /\ IsStack(gone.focus_stack)
  BY <1>2, PlacedStack
<1>5. next \in ToSet(gone.focus_stack) /\ (next \in Workspaces => next = w)
  <2>1. view # NULL => view \in ToSet(gone.focus_stack) /\ view \in Views
    <3>1. \A S : MostRecent(gone, S) # NULL => MostRecent(gone, S) \in ToSet(gone.focus_stack) \cap S
      BY <1>4, MostRecentFound
    <3> QED
      BY <3>1 DEF ViewsIn
  <2>2. w \in ToSet(gone.focus_stack) /\ Views \cap Workspaces = {}
    BY <1>1, <1>2, FocusAssumption DEF Live
  <2> QED
    BY <2>1, <2>2
<1>6. Forgets(s, gone) /\ gone.pending = s.pending /\ gone.has_focus
  BY <1>1, <1>2 DEF Forgets, Forgotten, ViewsIn, SameWorld, SameFocus, Live
<1> HIDE DEF next, r, w
<1>7. CASE r = gone
  BY <1>6, <1>7 DEF r, w
<1>8. CASE r = SendFocus(gone, next)
  <2>1. SameStack(gone, r) /\ r.pending = gone.pending /\ r.has_focus = gone.has_focus
    BY <1>8, <1>4 DEF SendFocus, SameStack
  <2>2. Forgets(gone, r)
    BY <2>1, SameStackForgets
  <2> QED
    BY <2>1, <2>2, <1>6 DEF Forgets, r, w
<1>9. CASE r = SetFocus(gone, next)
  <2>1. gone.focused_layer = NULL /\ Ready(gone, v)
    BY <1>2 DEF StackInv, SameLayer, Ready
  <2>2. next # NULL
    BY <1>4, <1>5, NullIsNoNode DEF IsStack, ToSet
  <2>3. Forgets(gone, r) /\ r.pending = gone.pending /\ r.has_focus
    BY <2>1, <2>2, <1>5, <1>6, <1>9, SetFocusForgets
  <2> QED
    BY <2>3, <1>6 DEF Forgets, r, w
<1>10. CASE r = moved /\ GetFocus(s) # v /\ ~(next = w /\ ~Visible(gone, w))
  <2>1. TopFirst(gone)
    <3>1. focus = top
      BY <1>2, <1>10 DEF GetFocus
    <3> QED
      BY <3>1, <1>2 DEF StackInv, TopFirst, WorkspaceOf, SameWorld
  <2>2. r = SetRawFocus(IF focus \in Views THEN SetRawFocus(a, gone.pending[focus]) ELSE a, focus)
    BY <1>2, <1>10 DEF SameWorld
  <2>3. Shows(gone, r) /\ r.pending = gone.pending
    BY <2>1, <2>2, <1>2, <1>5, <1>10, MovedShows
  <2>4. r.has_focus
    <3>1. /\ Placed(gone, v) /\ FrontClear(gone)
      BY ViewGone DEF gone
    <3>2. SameFocus(gone, r)
      BY <2>2, <3>1, <1>5, InactiveMoved
    <3> QED
      BY <3>2, <1>6 DEF SameFocus
  <2>5. Forgets(gone, r)
    BY <2>3, ShowsSame DEF Forgets
  <2> QED
    BY <2>3, <2>4, <2>5, <1>6 DEF Forgets, r, w
<1> QED
  BY <1>3, <1>7, <1>8, <1>9, <1>10

(* ... and of a column.                                                    *)
LEMMA NoViewDestroyedForgets ==
    ASSUME NEW s, StackInv(s, NULL), s.has_focus, NEW w \in Workspaces
    PROVE  LET r == ContainerDestroyed(s, NULL, {}, w)
           IN  Forgets(s, r) /\ r.pending = s.pending /\ r.has_focus
<1> DEFINE gone == SeatNodeDestroy(s, NULL)
           sibling == MostRecent(gone, {} \ {NULL})
           view == IF sibling # NULL THEN sibling ELSE MostRecent(gone, ViewsIn(s, w) \ {NULL})
           next == IF view # NULL THEN view ELSE w
           focus == FocusInactive(gone)
           a == SetRawFocus(gone, next)
           moved == SetRawFocus(IF focus \in Views THEN SetRawFocus(a, s.pending[focus]) ELSE a,
                                focus)
           r == ContainerDestroyed(s, NULL, {}, w)
<1>1. /\ Placed(s, NULL) /\ s \in Seats /\ IsStack(s.focus_stack) /\ s.has_focus \in BOOLEAN
      /\ NULL \notin ToSet(s.focus_stack) /\ ToSet(s.focus_stack) # {}
  BY PlacedStack, NullIsNoNode DEF StackInv, Seats
<1>2. /\ gone \in Seats /\ SameStack(s, gone) /\ SameWorld(s, gone) /\ SameLayer(s, gone)
      /\ SameFocus(s, gone)
  <2>1. RemoveFirst(s.focus_stack, NULL) = s.focus_stack
    BY <1>1, RemoveFirstShifts DEF IsStack
  <2>2. gone.focus_stack = s.focus_stack
    BY <2>1 DEF SeatNodeDestroy, Seats
  <2>3. /\ gone \in Seats /\ gone.has_focus = (s.has_focus /\ ToSet(gone.focus_stack) # {})
        /\ gone.workspace = s.workspace /\ SameWorld(s, gone) /\ SameLayer(s, gone)
    BY <1>1, SeatNodeDestroyStack
  <2> QED
    BY <2>2, <2>3, <1>1 DEF SameStack, SameFocus
<1>3. r = IF next = w /\ ~Visible(gone, w) THEN gone ELSE moved
  BY DEF ContainerDestroyed
<1> HIDE DEF gone
<1>4. StackInv(gone, NULL)
  BY <1>2, StackInvSame DEF SameFocus, SameLayer, SameWorld, SameWindows
<1>5. Forgets(s, gone) /\ gone.pending = s.pending /\ gone.has_focus
  BY <1>2, SameStackForgets DEF SameWorld, SameFocus
<1>6. CASE next = w /\ ~Visible(gone, w)
  BY <1>3, <1>5, <1>6
<1>7. CASE ~(next = w /\ ~Visible(gone, w))
  <2>1. next \in ToSet(gone.focus_stack) /\ (next \in Workspaces => Visible(gone, next))
    <3>1. \A S : MostRecent(gone, S) # NULL => MostRecent(gone, S) \in ToSet(gone.focus_stack) \cap S
      BY <1>1, <1>2, MostRecentFound DEF SameStack
    <3>2. Visible(gone, w) => w \in ToSet(gone.focus_stack)
      BY DEF Visible, Live
    <3>3. view # NULL => view \in Views
      BY <3>1 DEF ViewsIn
    <3> QED
      BY <3>1, <3>2, <3>3, <1>7, FocusAssumption
  <2>2. r = SetRawFocus(IF focus \in Views THEN SetRawFocus(a, gone.pending[focus]) ELSE a, focus)
    BY <1>2, <1>3, <1>7 DEF SameWorld
  <2> HIDE DEF r, next
  <2>3. Shows(gone, r) /\ r.pending = gone.pending
    BY <2>1, <2>2, <1>4, MovedShows DEF StackInv
  <2>4. SameFocus(gone, r)
    BY <2>1, <2>2, <1>4, InactiveMoved DEF StackInv
  <2>5. Forgets(gone, r)
    BY <2>3, ShowsSame DEF Forgets
  <2> QED
    BY <2>3, <2>4, <2>5, <1>5 DEF Forgets, SameFocus, r
<1> QED
  BY <1>6, <1>7

(* workspace_consider_destroy: afterwards the workspace is not forgotten.  *)
LEMMA ConsideredForgets ==
    ASSUME NEW s, StackInv(s, NULL), s.has_focus, NEW w
    PROVE  LET r == ConsiderDestroy(s, w)
           IN  /\ Forgotten(r) \subseteq Forgotten(s) \ {w}
               /\ r.pending = s.pending
<1> DEFINE top == FocusInactive(s)
           gone == SeatNodeDestroy(s, w)
<1>1. /\ Placed(s, NULL) /\ s \in Seats /\ IsStack(s.focus_stack)
      /\ Visible(s, WorkspaceOf(s, top))
  BY PlacedStack, TopShown DEF StackInv
<1>2. CASE ~Disposable(s, w)
  <2>1. w \in Live(s) /\ top = w => Visible(s, w)
    BY <1>1, FocusAssumption DEF WorkspaceOf, Live
  <2> QED
    BY <2>1, <1>2 DEF ConsiderDestroy, Disposable, Forgotten
<1>3. CASE Disposable(s, w)
  <2>1. s.workspace # w
    BY <1>1, <1>3 DEF StackInv, WorkspaceKnown, Disposable
  <2>2. ConsiderDestroy(s, w) = gone
    BY <2>1, <1>3 DEF ConsiderDestroy, WorkspaceDestroyed
  <2>3. Live(gone) = Live(s) \ {w} /\ SameWorld(s, gone)
    BY <1>3, WorkspaceGone
  <2>4. \A S : MostRecent(gone, S) = MostRecent(s, S \ {w})
    BY <1>1, SeatNodeDestroyStack
  <2> HIDE DEF gone
  <2>5. ASSUME NEW y \in Live(gone), Visible(s, y)
        PROVE  Visible(gone, y)
    <3> DEFINE S == {z \in Workspaces : OutputOf[z] = OutputOf[y]}
    <3>1. MostRecent(s, S) = y /\ y \in S /\ y # w
      BY <2>3, <2>5 DEF Visible, ActiveWorkspace, Live
    <3>2. MostRecent(s, S \ {w}) = y
      BY <3>1, <1>1, MostRecentSubset
    <3> QED
      BY <3>2, <2>4, <2>5 DEF Visible, ActiveWorkspace
  <2>6. Forgotten(gone) \subseteq Forgotten(s) \ {w}
    BY <2>3, <2>5 DEF Forgotten, ViewsIn, SameWorld
  <2> QED
    BY <2>2, <2>3, <2>6 DEF SameWorld
<1> QED
  BY <1>2, <1>3

LEMMA ColumnForgets ==
    ASSUME NEW s, StackInv(s, NULL), s.has_focus, NEW w \in Workspaces
    PROVE  LET r == ColumnDestroyed(s, w)
           IN  /\ Forgotten(r) \subseteq Forgotten(s) \ {w}
               /\ r.pending = s.pending
<1> DEFINE a == ContainerDestroyed(s, NULL, {}, w)
           r == ConsiderDestroy(a, w)
<1>1. /\ StackInv(a, NULL) /\ Forgets(s, a) /\ a.pending = s.pending /\ a.has_focus
  BY NoViewDestroyed, NoViewDestroyedForgets
<1> HIDE DEF a
<1>2. Forgotten(r) \subseteq Forgotten(a) \ {w} /\ r.pending = a.pending
  BY <1>1, ConsideredForgets
<1> QED
  BY <1>1, <1>2 DEF Forgets, ColumnDestroyed, a

-----------------------------------------------------------------------------
(***************************************************************************)
(* Windows.                                                                *)
(***************************************************************************)

(* Only the workspace of a window that is unmapped may become empty.       *)
LEMMA BegunForgets ==
    ASSUME NEW s, StackInv(s, NULL), s.has_focus, NEW v \in Views, s.pending[v] # NULL,
           NEW siblings, siblings \subseteq ViewsIn(s, s.pending[v])
    PROVE  LET r == ContainerBeginDestroy(s, v, siblings)
           IN  /\ Forgotten(r) \subseteq Forgotten(s) \cup {s.pending[v]}
               /\ r.has_focus
               /\ \A u \in Views : r.pending[u] = IF u = v THEN NULL ELSE s.pending[u]
<1> DEFINE w == s.pending[v]
           t == [s EXCEPT !.fullscreen[w] = NULL]
           a == [s EXCEPT !.fullscreen[w] = IF @ = v THEN NULL ELSE @]
           b == ContainerDestroyed(a, v, siblings, w)
           r == [b EXCEPT !.pending[v] = NULL]
<1>1. /\ Placed(s, NULL) /\ s \in Seats /\ v \in ToSet(s.focus_stack)
      /\ w \in Workspaces /\ v # NULL
  <2>1. Placed(s, NULL) /\ s \in Seats /\ v # NULL
    BY FocusAssumption DEF StackInv, Placed
  <2>2. v \in ToSet(s.focus_stack)
    BY <2>1 DEF Placed
  <2> QED
    BY <2>1, <2>2, WorkspaceOfNode
<1>2. ContainerBeginDestroy(s, v, siblings) = r
  BY DEF ContainerBeginDestroy
<1>3. /\ a.pending = s.pending /\ SameStack(s, a) /\ a.has_focus = s.has_focus
      /\ \A y \in Workspaces : a.fullscreen[y] # v
  <2>1. \A y \in Workspaces : s.fullscreen[y] = v => y = w
    BY <1>1 DEF Placed
  <2> QED
    BY <2>1, <1>1 DEF Seats, SameStack
<1>4. StackInv(a, NULL)
  <2>1. CASE s.fullscreen[w] = v
    <3>1. a = t
      BY <2>1
    <3> HIDE DEF a
    <3> QED
      BY <3>1, <1>1, FullscreenEnds
  <2>2. CASE s.fullscreen[w] # v
    <3>1. a = s
      BY <2>2, <1>1 DEF Seats
    <3> QED
      BY <3>1
  <2> QED
    BY <2>1, <2>2
<1>5. Forgets(s, a)
  BY <1>3, SameStackForgets
<1>6. w = a.pending[v] /\ siblings \subseteq ViewsIn(a, w) /\ v \in ToSet(a.focus_stack)
  BY <1>1, <1>3 DEF ViewsIn, SameStack
<1> HIDE DEF a, w
<1>7. Forgets(a, b) /\ b.pending = a.pending /\ b.has_focus /\ b \in Seats
  BY <1>3, <1>4, <1>6, ViewDestroyedForgets, ViewDestroyed DEF StackInv, Placed
<1> HIDE DEF b
<1>8. /\ SameStack(b, r) /\ r.has_focus = b.has_focus
      /\ \A u \in Views : r.pending[u] = IF u = v THEN NULL ELSE b.pending[u]
  BY <1>7 DEF SameStack, Seats
<1> HIDE DEF r
<1>9. Live(r) = Live(b) /\ \A y : Visible(r, y) <=> Visible(b, y)
  BY <1>8, SameStackSame
<1>10. \A y : y # w => ViewsIn(b, y) \subseteq ViewsIn(r, y)
  BY <1>3, <1>6, <1>7, <1>8 DEF ViewsIn
<1>11. Forgotten(r) \subseteq Forgotten(b) \cup {w}
  BY <1>9, <1>10 DEF Forgotten
<1> QED
  BY <1>2, <1>3, <1>5, <1>7, <1>8, <1>11 DEF Forgets, w

LEMMA UnmapForgets ==
    ASSUME IInv, seat.has_focus, NEW v \in Views, NEW siblings \in SUBSET Views,
           NEW next \in Views \cup {NULL}, Unmap(v, siblings, next)
    PROVE  Forgets(seat, seat')
<1> DEFINE w == seat.pending[v]
           a == [seat EXCEPT !.keyboard = IF @ = v THEN NULL ELSE @]
           b == ContainerBeginDestroy(a, v, siblings)
           c == ReapedAfter(b, v, siblings, w)
<1>1. /\ v \in Mapped(seat) /\ siblings \subseteq ViewsIn(seat, w) \ {v}
      /\ next \in NextFocus(v, siblings)
      /\ seat' = IF next # NULL THEN SetFocus(c, next) ELSE c
  BY DEF Unmap
<1>2. /\ StackInv(seat, NULL) /\ Keyed(seat) /\ seat \in Seats /\ w # NULL
  BY <1>1 DEF IInv, StackInv, Placed, Mapped
<1>3. w \in Workspaces
  BY <1>2 DEF Seats
<1>4. /\ a \in Seats /\ SameStack(seat, a) /\ SameWorld(seat, a) /\ SameLayer(seat, a)
      /\ SameFocus(seat, a)
      /\ a.keyboard = IF seat.keyboard = v THEN NULL ELSE seat.keyboard
  BY <1>2 DEF Seats, SameStack, SameWorld, SameLayer, SameFocus
<1> HIDE DEF a
<1>5. /\ StackInv(a, NULL) /\ GetFocus(a) = GetFocus(seat) /\ a.has_focus
      /\ a.pending = seat.pending
  BY <1>2, <1>4, StackInvSame, SameTop DEF SameFocus, SameLayer, SameWorld, SameWindows
<1>6. LayersKeyed(a) /\ (GetFocus(a) # v => ViewHasKeyboard(a))
  <2>1. /\ seat.focused # NULL => seat.focused \in Outputs
        /\ Views \cap (Layers \cup Outputs) = {} /\ seat.focused_layer = NULL
    BY <1>2, FocusAssumption DEF Seats, StackInv
  <2>2. LayerHasKeyboard(a) /\ LockHasKeyboard(a) /\ ExclusiveFocused(a)
    BY <2>1, <1>2, <1>4
       DEF Keyed, LayersKeyed, LayerHasKeyboard, ExclusiveFocused, LockHasKeyboard,
           SameWorld, SameLayer
  <2>3. GetFocus(a) # v => ViewHasKeyboard(a)
    BY <1>2, <1>4, <1>5 DEF Keyed, ViewHasKeyboard, SameWorld
  <2> QED
    BY <2>2, <2>3 DEF LayersKeyed
<1>7. a.pending[v] = w /\ siblings \subseteq ViewsIn(a, a.pending[v])
  BY <1>1, <1>5 DEF ViewsIn
<1>8. StackInv(b, NULL)
  BY <1>2, <1>5, <1>6, <1>7, BegunDestroy
<1>9. /\ Forgotten(b) \subseteq Forgotten(seat) \cup {w} /\ b.has_focus
      /\ \A u \in Views : b.pending[u] = IF u = v THEN NULL ELSE seat.pending[u]
  <2>1. /\ Forgotten(b) \subseteq Forgotten(a) \cup {w} /\ b.has_focus
        /\ \A u \in Views : b.pending[u] = IF u = v THEN NULL ELSE a.pending[u]
    BY <1>2, <1>5, <1>7, BegunForgets
  <2>2. Forgets(seat, a)
    BY <1>4, <1>5, SameStackForgets
  <2> QED
    BY <2>1, <2>2, <1>5 DEF Forgets
<1> HIDE DEF b, w
(* The workspace goes with its last window.                                *)
<1>10. Forgets(seat, c) /\ c.pending = b.pending /\ StackInv(c, NULL)
  <2>1. CASE v \in FloatingViews
    <3>1. c = ConsiderDestroy(b, w)
      BY <2>1 DEF ReapedAfter
    <3> QED
      BY <3>1, <1>8, <1>9, ConsideredForgets, WorkspaceConsidered DEF Forgets
  <2>2. CASE v \notin FloatingViews /\ siblings = {}
    <3>1. c = ColumnDestroyed(b, w)
      BY <2>2 DEF ReapedAfter
    <3> QED
      BY <3>1, <1>3, <1>8, <1>9, ColumnForgets, ColumnConsidered DEF Forgets
  <2>3. CASE v \notin FloatingViews /\ siblings # {}
    <3>1. c = b
      BY <2>3 DEF ReapedAfter
    <3>2. siblings \subseteq ViewsIn(b, w)
      BY <1>1, <1>9 DEF ViewsIn, w
    <3>3. w \notin Forgotten(b)
      BY <3>2, <2>3 DEF Forgotten
    <3> QED
      BY <3>1, <3>3, <1>8, <1>9 DEF Forgets
  <2> QED
    BY <2>1, <2>2, <2>3
<1> HIDE DEF c
<1>11. CASE next = NULL
  BY <1>1, <1>10, <1>11
<1>12. CASE next # NULL
  <2>1. next \in Views /\ next # v /\ seat.pending[next] = w
    BY <1>1, <1>12 DEF NextFocus, ViewsIn, Unmap, w
  <2>2. next \in ToSet(c.focus_stack)
    BY <2>1, <1>2, <1>9, <1>10, <1>12 DEF StackInv, Placed
  <2>3. Forgets(c, seat')
    <3>1. seat' = SetFocus(c, next)
      BY <1>1, <1>12
    <3> QED
      BY <3>1, <2>2, <1>10, FocusForgets
  <2> QED
    BY <2>3, <1>10 DEF Forgets
<1> QED
  BY <1>11, <1>12

LEMMA FullscreenForgets ==
    ASSUME NEW s, StackInv(s, NULL), NEW v \in Views, s.pending[v] # NULL
    PROVE  LET r == FullscreenWorkspace(s, v) IN Forgets(s, r)
<1> DEFINE w == s.pending[v]
           t == [s EXCEPT !.fullscreen[w] = v]
           focus == FocusInactive(s)
           a == SetRawFocus(t, v)
           r == FullscreenWorkspace(s, v)
<1>1. /\ Placed(s, NULL) /\ s \in Seats /\ IsStack(s.focus_stack)
      /\ focus \in ToSet(s.focus_stack) /\ w \in Workspaces /\ v \in ToSet(s.focus_stack)
  <2>1. Placed(s, NULL) /\ v # NULL
    BY FocusAssumption DEF StackInv
  <2>2. v \in ToSet(s.focus_stack)
    BY <2>1 DEF Placed
  <2> QED
    BY <2>1, <2>2, PlacedStack, WorkspaceOfNode
<1>2. r = IF WorkspaceOf(s, focus) = w THEN SetFocus(t, v) ELSE SetRawFocus(a, focus)
  BY DEF FullscreenWorkspace
<1>3. /\ t \in Seats /\ SameStack(s, t) /\ SameLayer(s, t) /\ SameFocus(s, t)
      /\ t.pending = s.pending
      /\ \A y \in Workspaces : t.fullscreen[y] = IF y = w THEN v ELSE s.fullscreen[y]
  BY <1>1 DEF Seats, SameStack, SameLayer, SameFocus
<1> HIDE DEF t, r
<1>4. FocusInactive(t) = focus /\ Live(t) = Live(s) /\ \A y : Visible(t, y) <=> Visible(s, y)
  BY <1>3, SameStackSame
<1>5. Placed(t, NULL) /\ TopFirst(t)
  <2>1. \A S : MostRecent(t, S) = MostRecent(s, S)
    BY <1>3, SameStackSame
  <2> QED
    BY <2>1, <1>1, <1>3, <1>4 DEF Placed, SameStack, StackInv, TopFirst, WorkspaceOf
<1>6. Forgets(s, t)
  BY <1>3, SameStackForgets
<1>7. CASE WorkspaceOf(s, focus) = w
  <2>1. Ready(t, NULL) /\ v \in ToSet(t.focus_stack)
    BY <1>1, <1>3, <1>5 DEF Ready, StackInv, SameLayer, SameFocus, SameStack
  <2>2. Forgets(t, SetFocus(t, v))
    BY <2>1, SetFocusForgets
  <2> QED
    BY <2>2, <1>2, <1>6, <1>7 DEF Forgets, r
<1>8. CASE WorkspaceOf(s, focus) # w
  <2>1. v \notin Workspaces /\ (focus \in Workspaces => Visible(t, focus))
    <3>1. focus \in Workspaces => WorkspaceOf(s, focus) = focus
      BY FocusAssumption DEF WorkspaceOf
    <3>2. Visible(s, WorkspaceOf(s, focus))
      BY <1>1, TopShown DEF StackInv
    <3> QED
      BY <3>1, <3>2, <1>4, FocusAssumption
  <2>2. v \in ToSet(t.focus_stack) /\ focus \in ToSet(t.focus_stack) /\ IsStack(t.focus_stack)
    BY <1>1, <1>3 DEF SameStack
  <2>3. /\ Shows(t, a) /\ a.pending = t.pending /\ a \in Seats /\ IsStack(a.focus_stack)
        /\ ToSet(a.focus_stack) = ToSet(t.focus_stack)
    BY <2>1, <2>2, <1>3, RaisedShows
  <2> HIDE DEF a
  <2>4. focus \in Workspaces => Visible(a, focus)
    BY <2>1, <2>3, ShowsSame
  <2>5. LET z == SetRawFocus(a, focus) IN Shows(a, z) /\ z.pending = a.pending
    BY <2>2, <2>3, <2>4, RaisedShows
  <2>6. Forgets(t, SetRawFocus(a, focus))
    BY <2>3, <2>5, ShowsSame DEF Forgets
  <2> QED
    BY <2>6, <1>2, <1>6, <1>8 DEF Forgets, r
<1> QED
  BY <1>7, <1>8

LEMMA MapForgets ==
    ASSUME IInv, NEW v \in Views, NEW w \in Workspaces, NEW allowed \in BOOLEAN,
           NEW fullscreen \in BOOLEAN, Map(v, w, allowed, fullscreen)
    PROVE  Forgets(seat, seat')
<1> DEFINE a == [seat EXCEPT !.focus_stack = Append(@, v), !.pending[v] = w]
           b == IF fullscreen THEN FullscreenWorkspace(a, v) ELSE a
<1>1. /\ v \notin Mapped(seat) /\ w \in Live(seat)
      /\ seat' = b \/ seat' = SetFocus(b, v)
  BY DEF Map, FocusMapped
<1>2. /\ StackInv(seat, NULL) /\ Keyed(seat) /\ Placed(seat, NULL)
      /\ seat \in Seats /\ IsStack(seat.focus_stack) /\ v # NULL /\ w # NULL
      /\ v \in FocusNodes /\ v \notin Workspaces
  BY PlacedStack, FocusAssumption DEF IInv, StackInv, FocusNodes
<1>3. v \notin ToSet(seat.focus_stack) /\ seat.pending[v] = NULL
  BY <1>1, <1>2 DEF Placed, Mapped
<1>4. /\ a \in Seats /\ a.focus_stack = Append(seat.focus_stack, v)
      /\ SameLayer(seat, a) /\ SameFocus(seat, a) /\ a.fullscreen = seat.fullscreen
      /\ a.keyboard = seat.keyboard
      /\ a.pending[v] = w /\ \A u \in Views : u # v => a.pending[u] = seat.pending[u]
      /\ a.locked = seat.locked /\ a.focused = seat.focused
  <2>1. Append(seat.focus_stack, v) \in Seq(FocusNodes)
    BY <1>2 DEF IsStack
  <2> QED
    BY <2>1, <1>2 DEF Seats, SameLayer, SameFocus
<1> HIDE DEF a
<1>5. /\ StackInv(a, NULL) /\ GetFocus(a) = GetFocus(seat)
      /\ ToSet(a.focus_stack) = ToSet(seat.focus_stack) \cup {v}
  BY <1>1, <1>2, <1>3, <1>4, AppendKeeps
<1>6. Keyed(a)
  BY <1>2, <1>4, <1>5
     DEF Keyed, LayersKeyed, ViewHasKeyboard, LayerHasKeyboard, ExclusiveFocused,
         LockHasKeyboard, SameLayer
<1>7. Live(a) = Live(seat)
  BY <1>2, <1>5 DEF Live
<1>8. ASSUME NEW y \in Live(seat), Visible(seat, y)
      PROVE  Visible(a, y)
  <2> DEFINE S == {z \in Workspaces : OutputOf[z] = OutputOf[y]}
  <2>1. MostRecent(seat, S) = y /\ y # NULL
    BY <1>8, FocusAssumption DEF Visible, ActiveWorkspace, Live
  <2>2. MostRecent(a, S) = y
    BY <2>1, <1>2, <1>3, <1>4, MostRecentAppend
  <2> QED
    BY <2>2, <1>7, <1>8 DEF Visible, ActiveWorkspace
<1>9. \A y \in Workspaces : ViewsIn(seat, y) \subseteq ViewsIn(a, y)
  BY <1>3, <1>4, FocusAssumption DEF ViewsIn
<1>10. Forgets(seat, a)
  BY <1>7, <1>8, <1>9 DEF Forgets, Forgotten, Live
<1>11. StackInv(b, NULL) /\ Forgets(a, b) /\ b.pending = a.pending
  BY <1>2, <1>4, <1>5, <1>6, FullscreenKeeps, FullscreenForgets DEF Forgets
<1> HIDE DEF b
<1>12. v \in ToSet(b.focus_stack)
  BY <1>2, <1>4, <1>11 DEF StackInv, Placed
<1>13. Forgets(b, SetFocus(b, v))
  BY <1>11, <1>12, FocusForgets
<1> QED
  BY <1>1, <1>10, <1>11, <1>13 DEF Forgets

(* Switching to a workspace that had to be created shows it.               *)
LEMMA SwitchForgets ==
    ASSUME IInv, NEW w \in Workspaces, WorkspaceSwitch(w)
    PROVE  Forgets(seat, seat')
<1> DEFINE a == [seat EXCEPT !.focus_stack = Append(@, w)]
           view(b) == MostRecent(b, ViewsIn(b, w))
           to(b) == IF view(b) # NULL THEN view(b) ELSE w
<1>1. seat' = SetFocus(IF w \in Live(seat) THEN seat ELSE a,
                       to(IF w \in Live(seat) THEN seat ELSE a))
  BY DEF WorkspaceSwitch, Switched
<1>2. /\ StackInv(seat, NULL) /\ Placed(seat, NULL) /\ seat \in Seats
      /\ IsStack(seat.focus_stack) /\ w \in FocusNodes /\ w \notin Views /\ w # NULL
  BY PlacedStack, FocusAssumption DEF IInv, StackInv, FocusNodes
<1>3. CASE w \in Live(seat)
  <2>1. view(seat) # NULL => view(seat) \in ToSet(seat.focus_stack)
    BY <1>2, MostRecentFound
  <2>2. to(seat) \in ToSet(seat.focus_stack) /\ seat' = SetFocus(seat, to(seat))
    BY <2>1, <1>1, <1>3 DEF Live
  <2> HIDE DEF to
  <2> QED
    BY <2>2, <1>2, FocusForgets
<1>4. CASE w \notin Live(seat)
  <2>1. Append(seat.focus_stack, w) \in Seq(FocusNodes)
    BY <1>2 DEF IsStack
  <2>2. /\ a \in Seats /\ a.focus_stack = Append(seat.focus_stack, w)
        /\ SameLayer(seat, a) /\ SameFocus(seat, a)
        /\ a.pending = seat.pending /\ a.fullscreen = seat.fullscreen
    BY <2>1, <1>2 DEF Seats, SameLayer, SameFocus
  <2>3. seat' = SetFocus(a, to(a))
    BY <1>1, <1>4
  <2>4. w \notin ToSet(seat.focus_stack)
    BY <1>4 DEF Live
  <2> HIDE DEF a
  <2>5. StackInv(a, NULL) /\ ToSet(a.focus_stack) = ToSet(seat.focus_stack) \cup {w}
    BY <2>2, <2>4, <1>2, AppendKeeps
  <2>6. ViewsIn(a, w) = {}
    BY <2>2, <2>4, <1>2 DEF Placed, ViewsIn
  <2>7. to(a) = w
    <3>1. IsStack(a.focus_stack)
      BY <2>5, PlacedStack DEF StackInv
    <3> QED
      BY <3>1, <2>6, MostRecentFound
  <2>8. Live(a) = Live(seat) \cup {w}
    BY <2>5 DEF Live
  <2>9. ASSUME NEW y \in Live(seat), Visible(seat, y)
        PROVE  Visible(a, y)
    <3> DEFINE S == {z \in Workspaces : OutputOf[z] = OutputOf[y]}
    <3>1. MostRecent(seat, S) = y /\ y # NULL
      BY <2>9, FocusAssumption DEF Visible, ActiveWorkspace, Live
    <3>2. MostRecent(a, S) = y
      BY <3>1, <2>2, <2>4, <1>2, MostRecentAppend
    <3> QED
      BY <3>2, <2>8, <2>9 DEF Visible, ActiveWorkspace
  <2>10. Forgotten(a) \subseteq Forgotten(seat) \cup {w}
    BY <2>2, <2>8, <2>9 DEF Forgotten, ViewsIn
  <2>11. Forgets(a, seat') /\ seat'.pending = a.pending
    BY <2>3, <2>5, <2>7, FocusForgets
  <2>12. Visible(seat', w)
    <3>1. ~Obstructed(a, w) /\ Ready(a, NULL)
      BY <1>2, <2>5 DEF Obstructed, Ready, StackInv
    <3>2. GetFocus(a) = w => OnTop(a, w)
      BY <2>5, <1>2 DEF GetFocus, OnTop, StackInv, WorkspaceKnown
    <3>3. StackInv(seat', NULL) /\ FocusInactive(seat') = w
      BY <3>1, <3>2, <2>3, <2>5, <2>7, SetFocusTakes
    <3> QED
      BY <3>3, <1>2, TopShown DEF StackInv, WorkspaceOf
  <2> QED
    BY <2>10, <2>11, <2>12 DEF Forgets, Forgotten
<1> QED
  BY <1>3, <1>4

-----------------------------------------------------------------------------
(***************************************************************************)
(* Layers and the session lock.                                            *)
(***************************************************************************)
LEMMA LayerSetShows ==
    ASSUME NEW s, NEW l
    PROVE  LET r == SetFocusLayer(s, l) IN SameStack(s, r) /\ r.pending = s.pending
BY DEF SetFocusLayer, SetFocusSurface, SameStack

LEMMA ArrangeForgets ==
    ASSUME NEW s, NEW x, Placed(s, x), NEW o
    PROVE  LET r == ArrangeLayers(s, o) IN Forgets(s, r) /\ r.pending = s.pending
<1> DEFINE a == [s EXCEPT !.has_exclusive_layer = FALSE]
           r == ArrangeLayers(s, o)
<1>1. r = a \/ r = LayerLosesFocus(a) \/ r = SetFocusLayer(a, Topmost(s, o))
  BY DEF ArrangeLayers
<1>2. /\ a \in Seats /\ SameStack(s, a) /\ SameWorld(s, a) /\ a.pending = s.pending
  BY DEF Placed, Seats, SameStack, SameWorld
<1> HIDE DEF a, r
<1>3. Placed(a, x) /\ Forgets(s, a)
  BY <1>2, SamePlaced, SameStackForgets
<1>4. Forgets(a, LayerLosesFocus(a)) /\ LayerLosesFocus(a).pending = a.pending
  BY <1>3, LayerLosesForgets
<1>5. /\ Forgets(a, SetFocusLayer(a, Topmost(s, o)))
      /\ SetFocusLayer(a, Topmost(s, o)).pending = a.pending
  BY LayerSetShows, SameStackForgets
<1>6. Forgets(s, r) /\ r.pending = s.pending
  BY <1>1, <1>2, <1>3, <1>4, <1>5 DEF Forgets
<1> QED
  BY <1>6 DEF r

LEMMA LayerUnmapForgets ==
    ASSUME NEW s, NEW x, Placed(s, x), NEW l \in Layers
    PROVE  LET r == HandleLayerUnmap(s, l) IN Forgets(s, r) /\ r.pending = s.pending
<1> DEFINE a == [s EXCEPT !.interactive[l] = "unmapped",
                          !.keyboard = IF @ = l THEN NULL ELSE @]
           r == HandleLayerUnmap(s, l)
<1>1. r = a \/ r = LayerLosesFocus(a)
  BY DEF HandleLayerUnmap
<1>2. a \in Seats /\ SameStack(s, a) /\ SameWindows(s, a)
  BY DEF Placed, Seats, SameStack, SameWindows, Interactivity
<1> HIDE DEF a, r
<1>3. Placed(a, x) /\ a.pending = s.pending /\ Forgets(s, a)
  BY <1>2, SameWindowsPlaced, SameStackForgets DEF SameWindows
<1>4. Forgets(a, LayerLosesFocus(a)) /\ LayerLosesFocus(a).pending = a.pending
  BY <1>3, LayerLosesForgets
<1>5. Forgets(s, r) /\ r.pending = s.pending
  BY <1>1, <1>3, <1>4 DEF Forgets
<1> QED
  BY <1>5 DEF r

LEMMA LayerMapForgets ==
    ASSUME NEW s, Arrangeable(s), NEW l \in Layers
    PROVE  LET r == HandleLayerMap(s, l) IN Forgets(s, r) /\ r.pending = s.pending
<1> DEFINE set == SetFocusLayer(s, l)
           o == LayerOutput[l]
           r == HandleLayerMap(s, l)
<1>1. r = s \/ r = ArrangeLayers(set, o) \/ r = ArrangeLayers(s, o)
  BY DEF HandleLayerMap
<1>2. Placed(set, NULL) /\ Placed(s, NULL)
  BY LayerGetsKeeps DEF Arrangeable, StackInv
<1>3. Forgets(s, set) /\ set.pending = s.pending
  BY LayerSetShows, SameStackForgets
<1> HIDE DEF set, o, r
<1>4. /\ Forgets(set, ArrangeLayers(set, o)) /\ ArrangeLayers(set, o).pending = set.pending
      /\ Forgets(s, ArrangeLayers(s, o)) /\ ArrangeLayers(s, o).pending = s.pending
  BY <1>2, ArrangeForgets
<1>5. Forgets(s, r) /\ r.pending = s.pending
  BY <1>1, <1>3, <1>4 DEF Forgets
<1> QED
  BY <1>5 DEF r

LEMMA LayerCommitForgets ==
    ASSUME IInv, NEW l \in Layers, NEW i \in Interactivity, LayerCommit(l, i)
    PROVE  Forgets(seat, seat')
<1> DEFINE set == [seat EXCEPT !.interactive[l] = i]
           unmapped == HandleLayerUnmap(seat, l)
           mapped == HandleLayerMap(set, l)
           handled == IF i = "unmapped" THEN unmapped
                      ELSE IF l \in MappedLayers(seat) THEN set ELSE mapped
<1>1. seat' = ArrangeLayers(handled, LayerOutput[l])
  BY DEF LayerCommit
<1>2. Arrangeable(seat) /\ Placed(seat, NULL)
  BY DEF IInv, Arrangeable, Keyed, LayersKeyed, StackInv
<1>3. Arrangeable(unmapped) /\ Forgets(seat, unmapped)
  BY <1>2, LayerUnmapped, LayerUnmapForgets DEF IInv, Arrangeable
<1>4. Arrangeable(set) /\ Forgets(seat, set)
  <2>1. SameStack(seat, set) /\ set.pending = seat.pending
    BY DEF SameStack
  <2> QED
    BY <2>1, <1>2, InteractiveSet, SameStackForgets
<1> HIDE DEF set, unmapped
<1>5. Arrangeable(mapped) /\ Forgets(set, mapped)
  BY <1>4, LayerMapped, LayerMapForgets
<1> HIDE DEF mapped
<1>6. Placed(handled, NULL) /\ Forgets(seat, handled)
  BY <1>3, <1>4, <1>5 DEF Forgets, Arrangeable, StackInv
<1> HIDE DEF handled
<1>7. Forgets(handled, seat')
  BY <1>1, <1>6, ArrangeForgets
<1> QED
  BY <1>6, <1>7 DEF Forgets

LEMMA LayerDestroyForgets ==
    ASSUME IInv, NEW l \in Layers, LayerDestroy(l)
    PROVE  Forgets(seat, seat')
<1> DEFINE unmapped == HandleLayerUnmap(seat, l)
<1>1. PICK p : /\ Arrangeable(p) /\ seat' = ArrangeLayers(p, LayerOutput[l])
               /\ p = unmapped \/ \E k \in Layers : p = SetFocusLayer(unmapped, k)
  BY LayerPassedOn
<1>2. Forgets(seat, unmapped)
  BY LayerUnmapForgets DEF IInv, StackInv
<1> HIDE DEF unmapped
<1>3. Forgets(unmapped, p)
  BY <1>1, LayerSetShows, SameStackForgets DEF Forgets
<1>4. Forgets(p, seat')
  BY <1>1, ArrangeForgets DEF Arrangeable, StackInv
<1> QED
  BY <1>2, <1>3, <1>4 DEF Forgets

LEMMA KeyboardResetForgets ==
    ASSUME IInv, KeyboardReset
    PROVE  Forgets(seat, seat')
<1> DEFINE layer == seat.focused_layer
           focus == GetFocus(seat)
           lost == LayerLosesFocus(seat)
<1>1. StackInv(seat, NULL) /\ Placed(seat, NULL) /\ seat \in Seats
  BY DEF IInv, StackInv, Placed
<1>2. CASE focus # NULL
  <2>1. focus \in ToSet(seat.focus_stack)
    BY <1>1, <1>2, PlacedStack DEF GetFocus
  <2> QED
    BY <1>1, <1>2, <2>1, FocusAgainForgets DEF KeyboardReset
<1>3. CASE focus = NULL /\ layer # NULL
  <2>1. seat' = SetFocusLayer(lost, layer)
    BY <1>3 DEF KeyboardReset
  <2>2. Forgets(seat, lost)
    BY <1>1, LayerLosesForgets
  <2> HIDE DEF lost
  <2>3. Forgets(lost, seat')
    BY <2>1, LayerSetShows, SameStackForgets
  <2> QED
    BY <2>2, <2>3 DEF Forgets
<1>4. CASE focus = NULL /\ layer = NULL
  <2>1. SameStack(seat, seat') /\ seat'.pending = seat.pending
    BY <1>4 DEF KeyboardReset, SetFocusSurface, SameStack
  <2> QED
    BY <2>1, SameStackForgets
<1> QED
  BY <1>2, <1>3, <1>4

LEMMA SessionLockForgets ==
    ASSUME IInv, NEW c \in Lockers, SessionLock(c)
    PROVE  Forgets(seat, seat')
<1> DEFINE replaced == [seat EXCEPT !.locked = FALSE, !.abandoned = FALSE]
           l == replaced.focused_layer
           layerless == IF l # NULL /\ ClientOf[l] # c THEN LayerLosesFocus(replaced)
                        ELSE replaced
           unfocused == UnfocusUnlessClient(replaced, c)
<1>1. /\ StackInv(seat, NULL) /\ seat \in Seats
      /\ seat' = [unfocused EXCEPT !.locked = TRUE]
  BY DEF IInv, StackInv, Placed, SessionLock
<1>2. /\ replaced \in Seats /\ SameStack(seat, replaced) /\ SameWindows(seat, replaced)
      /\ SameFocus(seat, replaced) /\ SameLayer(seat, replaced)
      /\ replaced.pending = seat.pending
  BY <1>1 DEF Seats, SameStack, SameWindows, SameFocus, SameLayer
<1>3. unfocused = layerless \/ unfocused = SetFocus(layerless, NULL)
  BY DEF UnfocusUnlessClient
<1> HIDE DEF replaced, unfocused
<1>4. StackInv(replaced, NULL) /\ Forgets(seat, replaced)
  BY <1>1, <1>2, StackInvSame, SameStackForgets DEF SameLayer
<1>5. StackInv(layerless, NULL) /\ Forgets(replaced, layerless)
  BY <1>4, LayerLosesKeeps, LayerLosesForgets DEF Forgets, StackInv
<1> HIDE DEF layerless
<1>6. Forgets(layerless, unfocused)
  BY <1>3, <1>5, FocusForgets DEF Forgets
<1>7. SameStack(unfocused, seat') /\ seat'.pending = unfocused.pending
  BY <1>1 DEF SameStack
<1>8. Forgets(unfocused, seat')
  BY <1>7, SameStackForgets
<1> QED
  BY <1>4, <1>5, <1>6, <1>8 DEF Forgets

LEMMA ArrangedForgets ==
    ASSUME NEW s, Arrangeable(s)
    PROVE  Forgets(s, Arranged(s))
<1> DEFINE n == Len(OutputList)
           upto == CHOOSE f : f = [i \in 0..n |-> IF i = 0 THEN s
                                       ELSE ArrangeLayers(f[i - 1], OutputList[i])]
           Good(i) == Arrangeable(upto[i]) /\ Forgets(s, upto[i])
           T == {i \in 0..n : ~Good(i)}
<1>1. n \in Nat
  BY FocusAssumption
<1>2. Arranged(s) = upto[n]
  BY DEF Arranged
<1>3. upto = [i \in 0..n |-> IF i = 0 THEN s ELSE ArrangeLayers(upto[i - 1], OutputList[i])]
  BY <1>1, ArrangedExists
<1> HIDE DEF upto, n
<1>4. /\ upto[0] = s
      /\ \A i \in 0..n : i # 0 => upto[i] = ArrangeLayers(upto[i - 1], OutputList[i])
  BY <1>1, <1>3
<1>5. T = {}
  <2>1. SUFFICES ASSUME T # {} PROVE FALSE
    OBVIOUS
  <2>2. T \subseteq Nat
    BY <1>1
  <2>3. PICK m \in T : \A k \in T : m <= k
    BY <2>1, <2>2, LeastNatural
  <2>4. Good(0)
    BY <1>4 DEF Forgets
  <2>5. m # 0 /\ m - 1 \in 0..n /\ m - 1 \notin T
    BY <1>1, <2>3, <2>4
  <2>6. Good(m - 1) /\ upto[m] = ArrangeLayers(upto[m - 1], OutputList[m])
    BY <1>4, <2>3, <2>5
  <2> HIDE DEF T
  <2>7. Arrangeable(upto[m])
    BY <2>6, ArrangeLayersKeeps DEF Arrangeable, Keyed, LayersKeyed
  <2>8. Forgets(s, upto[m])
    BY <2>6, ArrangeForgets DEF Arrangeable, StackInv, Forgets
  <2> QED
    BY <2>3, <2>7, <2>8 DEF T
<1>6. Good(n)
  BY <1>1, <1>5
<1> QED
  BY <1>2, <1>6

LEMMA SessionUnlockForgets ==
    ASSUME IInv, SessionUnlock
    PROVE  Forgets(seat, seat')
<1> DEFINE gone == LockSurfacesGone(seat)
           unlocked == [gone EXCEPT !.locked = FALSE]
           again == FocusAgain(unlocked, FocusInactive(unlocked))
<1>1. StackInv(seat, NULL) /\ seat \in Seats /\ seat' = Arranged(again)
  BY DEF IInv, StackInv, Placed, SessionUnlock
<1>2. /\ gone \in Seats /\ SameStack(seat, gone) /\ SameWindows(seat, gone)
      /\ SameFocus(seat, gone) /\ SameLayer(seat, gone)
  BY <1>1, SurfacesGone
<1> HIDE DEF gone
<1>3. /\ unlocked \in Seats /\ SameStack(seat, unlocked) /\ SameWindows(seat, unlocked)
      /\ SameFocus(seat, unlocked) /\ SameLayer(seat, unlocked)
      /\ unlocked.pending = seat.pending
  BY <1>2 DEF Seats, SameStack, SameWindows, SameFocus, SameLayer
<1> HIDE DEF unlocked
<1>4. StackInv(unlocked, NULL) /\ Forgets(seat, unlocked)
  BY <1>1, <1>3, StackInvSame, SameStackForgets DEF SameLayer
<1>5. FocusInactive(unlocked) \in ToSet(unlocked.focus_stack)
  BY <1>4, PlacedStack DEF StackInv
<1>6. Arrangeable(again) /\ Forgets(unlocked, again)
  BY <1>4, <1>5, FocusAgainKeeps, FocusAgainForgets DEF Arrangeable
<1> HIDE DEF again
<1>7. Forgets(again, seat')
  BY <1>1, <1>6, ArrangedForgets
<1> QED
  BY <1>4, <1>6, <1>7 DEF Forgets

(* Only while a layer has the focus may unmapping a window, or merging     *)
(* columns, forget a workspace.                                            *)
LEMMA StepForgets ==
    ASSUME IInv, seat.has_focus, [Next]_seat
    PROVE  Forgets(seat, seat')
<1>1. /\ StackInv(seat, NULL) /\ Placed(seat, NULL) /\ seat \in Seats
      /\ \A v \in Mapped(seat) : v \in ToSet(seat.focus_stack)
  BY FocusAssumption DEF IInv, StackInv, Placed, Mapped
<1>2. CASE UNCHANGED seat
  BY <1>2 DEF Forgets
<1>3. ASSUME SameStack(seat, seat') /\ seat'.pending = seat.pending
      PROVE  Forgets(seat, seat')
  BY <1>3, SameStackForgets
<1>4. CASE \E v \in Views, w \in Workspaces, allowed, fullscreen \in BOOLEAN :
              Map(v, w, allowed, fullscreen)
  BY <1>4, MapForgets
<1>5. CASE \E v \in Views, next_focus \in Views \cup {NULL}, siblings \in SUBSET Views :
              Unmap(v, siblings, next_focus)
  BY <1>5, UnmapForgets
<1>6. CASE \E v \in Views : Fullscreen(v)
  BY <1>6, <1>1, FullscreenForgets DEF Fullscreen, Mapped
<1>7. CASE \E v \in Views : FocusView(v)
  BY <1>7, <1>1, FocusForgets DEF FocusView
<1>8. CASE \E w \in Workspaces : FullscreenDisable(w)
  BY <1>8, <1>3 DEF FullscreenDisable, SameStack
<1>9. CASE \E w \in Workspaces : ColumnsMerged(w)
  BY <1>9, <1>1, ColumnForgets DEF ColumnsMerged, Forgets
<1>10. CASE \E w \in Workspaces : FocusWorkspace(w)
  BY <1>10, <1>1, FocusForgets DEF FocusWorkspace, Visible, Live
<1>11. CASE \E w \in Workspaces : WorkspaceSwitch(w)
  BY <1>11, SwitchForgets
<1>12. CASE KeyboardReset
  BY <1>12, KeyboardResetForgets
<1>13. CASE \E l \in Layers, i \in Interactivity : LayerCommit(l, i)
  BY <1>13, LayerCommitForgets
<1>14. CASE \E l \in Layers : LayerDestroy(l)
  BY <1>14, LayerDestroyForgets
<1>15. CASE \E l \in Layers : LayerClick(l)
  BY <1>15, <1>3, LayerSetShows DEF LayerClick
<1>16. CASE \E o \in Outputs : OutputConfigured(o)
  BY <1>16, <1>1, ArrangeForgets DEF OutputConfigured
<1>17. CASE \E c \in Lockers : SessionLock(c)
  BY <1>17, SessionLockForgets
<1>18. CASE \E o \in Outputs : LockSurfaceCreate(o)
  BY <1>18, <1>3 DEF LockSurfaceCreate, SameStack
<1>19. CASE \E o \in Outputs : LockSurfaceMap(o)
  BY <1>19, <1>3 DEF LockSurfaceMap, FocusLockSurface, SetFocusSurface, SameStack
<1>20. CASE \E o \in Outputs, next_focus \in Outputs \cup {NULL} :
               LockSurfaceDestroy(o, next_focus)
  BY <1>20, <1>3 DEF LockSurfaceDestroy, FocusLockSurface, SetFocusSurface, SameStack
<1>21. CASE SessionAbandon
  BY <1>21, <1>3
     DEF SessionAbandon, LockSurfacesGone, FocusLockSurface, SetFocusSurface, SameStack
<1>22. CASE SessionUnlock
  BY <1>22, SessionUnlockForgets
<1> QED
  BY <1>2, <1>4, <1>5, <1>6, <1>7, <1>8, <1>9, <1>10, <1>11, <1>12, <1>13, <1>14, <1>15,
     <1>16, <1>17, <1>18, <1>19, <1>20, <1>21, <1>22 DEF Next

(* Windows stay on workspaces that exist, and no step forgets an empty     *)
(* workspace while a node has the focus (seat.c:1264, view.c:1157).        *)
THEOREM NoneForgotten == Spec => EmptyWorkspacesGo
<1>1. IInv /\ IInv' /\ [Next]_seat =>
        [/\ \A v \in Mapped(seat') : seat'.pending[v] \in Live(seat')
         /\ seat.has_focus => Forgotten(seat') \subseteq Forgotten(seat)]_seat
  <2> SUFFICES ASSUME IInv, IInv', [Next]_seat
               PROVE  /\ \A v \in Mapped(seat') : seat'.pending[v] \in Live(seat')
                      /\ seat.has_focus => Forgotten(seat') \subseteq Forgotten(seat)
    OBVIOUS
  <2>1. Placed(seat', NULL)
    BY DEF IInv, StackInv
  <2>2. \A v \in Mapped(seat') : seat'.pending[v] \in Live(seat')
    BY <2>1 DEF Placed, Mapped, Live, Seats
  <2>3. seat.has_focus => Forgotten(seat') \subseteq Forgotten(seat)
    BY StepForgets DEF Forgets
  <2> QED
    BY <2>2, <2>3
<1> QED
  BY <1>1, FocusInvariant, PTL DEF Spec, EmptyWorkspacesGo
=============================================================================
