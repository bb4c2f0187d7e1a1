------------------------- MODULE IpcServer_proofs -------------------------
(***************************************************************************)
(* The server implements what IpcService promises, for any clients and any *)
(* sizes of buffers: commands are answered once and in order, messages     *)
(* arrive whole, and an event reaches every listener.                      *)
(***************************************************************************)
EXTENDS IpcServer, SequenceLemmas, FiniteSetTheorems

(* What a client has sent and not had handled, or is about to send.        *)
Stream(t, c) == Heard(t, c) \o t.todo[c]

(* A header is followed by its body if its type has one, and a command by  *)
(* another header, or what stands for one.                                 *)
Starts == {"magic", "garbage"}
Ends == Queries \cup Unknown \cup {"body"}
Grammatical(q) == \A i \in 1..Len(q) :
    /\ q[i] \in Starts => i < Len(q)
    /\ q[i] = "magic" => q[i + 1] \in Types
    /\ q[i] \in WithBody => i < Len(q) /\ q[i + 1] = "body"
    /\ q[i] \in Ends /\ i < Len(q) => q[i + 1] \in Starts

WellFormed(t, c) ==
    /\ Grammatical(Stream(t, c))
    /\ IF t.pending[c] # NIL THEN t.pending[c] \in WithBody
       ELSE Stream(t, c) = <<>> \/ Stream(t, c)[1] \in Starts

(* One command to exit at most is under way.                               *)
ExitAt(t, c, i) == i \in 1..Len(Stream(t, c)) /\ Stream(t, c)[i] = "exit"
OneExit(t) ==
    /\ t.exiting # NIL => t.phase = "exit"
    /\ t.exiting # NIL => \A c \in Clients : \A i \in Nat : ~ ExitAt(t, c, i)
    /\ \A c, d \in Clients : \A i, j \in Nat :
          ExitAt(t, c, i) /\ ExitAt(t, d, j) => c = d /\ i = j

Unused(t, c) ==
    /\ c \notin t.quit /\ t.pending[c] = NIL
    /\ t.todo[c] = <<>> /\ t.inbox[c] = <<>> /\ t.wire[c] = <<>> /\ t.out[c] = <<>>

(* Nothing that a removed client has sent is kept.                         *)
Silent(t, c) == t.pending[c] = NIL /\ t.todo[c] = <<>> /\ t.inbox[c] = <<>>

Dormant(t, c) == /\ t.conn[c] = "new" => Unused(t, c)
                 /\ t.conn[c] = "gone" => Silent(t, c)

Listed(t) == /\ ToSet(t.list) = {c \in Clients : t.conn[c] = "open"}
             /\ IsInjective(t.list)

Roomy(t) == \A c \in Clients :
    /\ t.conn[c] = "open" => Len(t.out[c]) < t.size[c] /\ t.size[c] <= MaxSize
    /\ Len(t.wire[c]) <= Capacity

Inv(t) ==
    /\ t \in States
    /\ Listed(t)
    /\ Roomy(t)
    /\ \A c \in Clients : Dormant(t, c)
    /\ \A b \in t.batch : t.conn[b[1]] = "open"
    /\ \A c \in Clients : c \notin t.quit => WellFormed(t, c)
    /\ OneExit(t)

-----------------------------------------------------------------------------
(* Repetition.  The function that Repeated chooses exists, and is the      *)
(* same one as far as it goes for fewer repetitions.                       *)

LEMMA RepeatedExists ==
    ASSUME NEW f, NEW x, NEW n \in Nat
    PROVE  \E g : g = [i \in 0..n |-> IF i = 0 THEN x ELSE f[g[i - 1]]]
<1> DEFINE Defines(g, k) == g = [i \in 0..k |-> IF i = 0 THEN x ELSE f[g[i - 1]]]
           T == {k \in Nat : ~ \E g : Defines(g, k)}
<1>1. SUFFICES ASSUME T # {} PROVE FALSE
  <2>1. n \notin T
    BY <1>1
  <2> QED
    BY <2>1
<1>2. PICK m \in T : \A k \in T : m <= k
  BY <1>1, LeastNatural
<1>3. CASE m = 0
  <2> DEFINE g == [i \in 0..0 |-> x]
  <2>1. Defines(g, 0)
    OBVIOUS
  <2> QED
    BY <2>1, <1>2, <1>3
<1>4. CASE m # 0
  <2>1. m - 1 \in Nat /\ m - 1 \notin T
    <3>1. T \subseteq Nat /\ m \in T
      BY <1>2
    <3> HIDE DEF T
    <3> QED
      BY <3>1, <1>2, <1>4
  <2>2. PICK g : Defines(g, m - 1)
    BY <2>1
  <2> DEFINE h == [i \in 0..m |-> IF i < m THEN g[i] ELSE f[g[m - 1]]]
             e == [i \in 0..m |-> IF i = 0 THEN x ELSE f[h[i - 1]]]
  <2>3. \A i \in 0..m : h[i] = e[i]
    <3> SUFFICES ASSUME NEW i \in 0..m PROVE h[i] = e[i]
      OBVIOUS
    <3>1. CASE i = 0
      BY <1>2, <1>4, <2>2, <3>1
    <3>2. CASE i # 0 /\ i < m
      <4>1. i \in 0..(m - 1) /\ i - 1 \in 0..m /\ i - 1 < m
        BY <1>2, <3>2
      <4>2. h[i - 1] = g[i - 1] /\ h[i] = g[i]
        BY <4>1, <3>2
      <4>3. g[i] = f[g[i - 1]]
        BY <2>2, <4>1, <3>2
      <4> QED
        BY <4>2, <4>3, <3>2
    <3>3. CASE i # 0 /\ i = m
      <4>1. m - 1 \in 0..m /\ m - 1 < m
        BY <1>2, <3>3
      <4> QED
        BY <4>1, <3>3
    <3> QED
      BY <1>2, <3>1, <3>2, <3>3
  <2>4. h = e
    BY <2>3
  <2>5. Defines(h, m)
    BY <2>4
  <2> QED
    BY <2>5, <1>2
<1> QED
  BY <1>3, <1>4

Iterates(g, f, x, n) == \A i \in 0..n : g[i] = IF i = 0 THEN x ELSE f[g[i - 1]]

LEMMA RepeatedUnique ==
    ASSUME NEW f, NEW x, NEW n \in Nat, NEW m \in Nat, n <= m,
           NEW g, NEW h, Iterates(g, f, x, n), Iterates(h, f, x, m)
    PROVE  \A i \in 0..n : g[i] = h[i]
<1> DEFINE T == {i \in 0..n : g[i] # h[i]}
<1>1. SUFFICES ASSUME T # {} PROVE FALSE
  BY <1>1
<1>2. T \subseteq Nat
  OBVIOUS
<1>3. PICK k \in T : \A j \in T : k <= j
  <2> HIDE DEF T
  <2> QED
    BY <1>1, <1>2, LeastNatural
<1>4. k \in 0..n /\ k \in 0..m /\ g[k] # h[k]
  BY <1>3
<1>5. CASE k = 0
  BY <1>4, <1>5 DEF Iterates
<1>6. CASE k # 0
  <2>1. k - 1 \in 0..n /\ k - 1 \in 0..m
    BY <1>4, <1>6
  <2>2. g[k - 1] = h[k - 1]
    <3>1. ~(k <= k - 1)
      BY <1>4
    <3>2. k - 1 \notin T
      BY <1>3, <3>1
    <3> QED
      BY <2>1, <3>2
  <2>3. g[k] = f[g[k - 1]] /\ h[k] = f[h[k - 1]]
    BY <1>4, <1>6 DEF Iterates
  <2> QED
    BY <1>4, <2>2, <2>3
<1> QED
  BY <1>5, <1>6

LEMMA RepeatedSteps ==
    ASSUME NEW f, NEW x, NEW n \in Nat
    PROVE  /\ Repeated(f, x, 0) = x
           /\ Repeated(f, x, n + 1) = f[Repeated(f, x, n)]
<1> DEFINE C(k) == CHOOSE g : g = [i \in 0..k |-> IF i = 0 THEN x ELSE f[g[i - 1]]]
<1>1. \A k \in Nat : C(k) = [i \in 0..k |-> IF i = 0 THEN x ELSE f[C(k)[i - 1]]]
  BY RepeatedExists
<1>2. \A k \in Nat : Repeated(f, x, k) = C(k)[k]
  BY DEF Repeated
<1> HIDE DEF C
<1>3. C(0)[0] = x
  BY <1>1
<1>4. C(n + 1)[n + 1] = f[C(n + 1)[n]]
  BY <1>1
<1>5. C(n + 1)[n] = C(n)[n]
  <2>1. n + 1 \in Nat /\ n <= n + 1
    OBVIOUS
  <2>2. Iterates(C(n), f, x, n) /\ Iterates(C(n + 1), f, x, n + 1)
    BY <1>1 DEF Iterates
  <2>3. \A i \in 0..n : C(n)[i] = C(n + 1)[i]
    BY <2>1, <2>2, RepeatedUnique
  <2> QED
    BY <2>3
<1> QED
  BY <1>2, <1>3, <1>4, <1>5

LEMMA RepeatedKeeps ==
    ASSUME NEW f, NEW S, NEW x \in S, \A y \in S : f[y] \in S, NEW n \in Nat
    PROVE  Repeated(f, x, n) \in S
<1> DEFINE T == {k \in Nat : Repeated(f, x, k) \notin S}
<1>1. SUFFICES ASSUME T # {} PROVE FALSE
  BY <1>1
<1>2. T \subseteq Nat
  OBVIOUS
<1>3. PICK k \in T : \A j \in T : k <= j
  <2> HIDE DEF T
  <2> QED
    BY <1>1, <1>2, LeastNatural
<1>4. k \in Nat /\ k # 0
  BY <1>3, RepeatedSteps
<1>5. Repeated(f, x, k - 1) \in S
  BY <1>3, <1>4
<1>6. Repeated(f, x, (k - 1) + 1) = f[Repeated(f, x, k - 1)]
  BY <1>4, RepeatedSteps
<1> QED
  BY <1>3, <1>4, <1>5, <1>6

-----------------------------------------------------------------------------
(* Choosing from a sequence. *)

Chooses(g, q, S, n) ==
    \A i \in 0..n : g[i] = IF i = 0 THEN <<>>
                           ELSE IF q[i] \in S THEN Append(g[i - 1], q[i]) ELSE g[i - 1]

IsAmong(g, q, S, n) ==
    g = [i \in 0..n |-> IF i = 0 THEN <<>>
                        ELSE IF q[i] \in S THEN Append(g[i - 1], q[i]) ELSE g[i - 1]]

LEMMA ChosenExists ==
    ASSUME NEW q, NEW S, NEW n \in Nat
    PROVE  \E g : IsAmong(g, q, S, n)
<1> DEFINE Defines(g, k) == IsAmong(g, q, S, k)
           T == {k \in Nat : ~ \E g : Defines(g, k)}
<1>1. SUFFICES ASSUME T # {} PROVE FALSE
  <2>1. n \notin T
    BY <1>1
  <2> QED
    BY <2>1
<1>2. PICK m \in T : \A k \in T : m <= k
  BY <1>1, LeastNatural
<1>3. CASE m = 0
  <2> DEFINE g == [i \in 0..0 |-> <<>>]
  <2>1. Defines(g, 0)
    BY DEF IsAmong
  <2> QED
    BY <2>1, <1>2, <1>3
<1>4. CASE m # 0
  <2>1. m - 1 \in Nat /\ m - 1 \notin T
    <3>1. T \subseteq Nat /\ m \in T
      BY <1>2
    <3> HIDE DEF T
    <3> QED
      BY <3>1, <1>2, <1>4
  <2>2. PICK g : Defines(g, m - 1)
    BY <2>1
  <2> DEFINE last == IF q[m] \in S THEN Append(g[m - 1], q[m]) ELSE g[m - 1]
             h == [i \in 0..m |-> IF i < m THEN g[i] ELSE last]
             e == [i \in 0..m |-> IF i = 0 THEN <<>>
                                  ELSE IF q[i] \in S THEN Append(h[i - 1], q[i]) ELSE h[i - 1]]
  <2>3. \A i \in 0..m : h[i] = e[i]
    <3> SUFFICES ASSUME NEW i \in 0..m PROVE h[i] = e[i]
      OBVIOUS
    <3>1. CASE i = 0
      BY <1>2, <1>4, <2>2, <3>1 DEF IsAmong
    <3>2. CASE i # 0 /\ i < m
      <4>1. i \in 0..(m - 1) /\ i - 1 \in 0..m /\ i - 1 < m
        BY <1>2, <3>2
      <4>2. h[i - 1] = g[i - 1] /\ h[i] = g[i]
        BY <4>1, <3>2
      <4>3. g[i] = IF q[i] \in S THEN Append(g[i - 1], q[i]) ELSE g[i - 1]
        BY <2>2, <4>1, <3>2 DEF IsAmong
      <4> QED
        BY <4>2, <4>3, <3>2
    <3>3. CASE i # 0 /\ i = m
      <4>1. m - 1 \in 0..m /\ m - 1 < m
        BY <1>2, <3>3
      <4> QED
        BY <4>1, <3>3
    <3> QED
      BY <1>2, <3>1, <3>2, <3>3
  <2>4. h = e
    BY <2>3
  <2>5. Defines(h, m)
    BY <2>4 DEF IsAmong
  <2> QED
    BY <2>5, <1>2
<1> QED
  BY <1>3, <1>4

LEMMA ChoosesUnique ==
    ASSUME NEW q, NEW p, NEW S, NEW n \in Nat, NEW m \in Nat, n <= m,
           NEW g, NEW h, Chooses(g, q, S, n), Chooses(h, p, S, m),
           \A i \in 1..n : p[i] = q[i]
    PROVE  \A i \in 0..n : g[i] = h[i]
<1> DEFINE T == {i \in 0..n : g[i] # h[i]}
<1>1. SUFFICES ASSUME T # {} PROVE FALSE
  BY <1>1
<1>2. T \subseteq Nat
  OBVIOUS
<1>3. PICK k \in T : \A j \in T : k <= j
  <2> HIDE DEF T
  <2> QED
    BY <1>1, <1>2, LeastNatural
<1>4. k \in 0..n /\ k \in 0..m /\ g[k] # h[k]
  BY <1>3
<1>5. CASE k = 0
  BY <1>4, <1>5 DEF Chooses
<1>6. CASE k # 0
  <2>1. k - 1 \in 0..n /\ k - 1 \in 0..m /\ p[k] = q[k]
    BY <1>4, <1>6
  <2>2. g[k - 1] = h[k - 1]
    <3>1. ~(k <= k - 1)
      BY <1>4
    <3>2. k - 1 \notin T
      BY <1>3, <3>1
    <3> QED
      BY <2>1, <3>2
  <2>3. g[k] = IF q[k] \in S THEN Append(g[k - 1], q[k]) ELSE g[k - 1]
    BY <1>4, <1>6 DEF Chooses
  <2>4. h[k] = IF p[k] \in S THEN Append(h[k - 1], p[k]) ELSE h[k - 1]
    BY <1>4, <1>6 DEF Chooses
  <2> QED
    BY <1>4, <2>1, <2>2, <2>3, <2>4
<1> QED
  BY <1>5, <1>6

LEMMA ChosenChooses ==
    ASSUME NEW U, NEW q \in Seq(U), NEW S
    PROVE  \E g : Chooses(g, q, S, Len(q)) /\ Chosen(q, S) = g[Len(q)]
<1> DEFINE chosen == CHOOSE g : IsAmong(g, q, S, Len(q))
<1>1. Len(q) \in Nat
  OBVIOUS
<1>2. Chosen(q, S) = chosen[Len(q)]
  BY DEF Chosen, IsAmong
<1>3. IsAmong(chosen, q, S, Len(q))
  BY <1>1, ChosenExists
<1> HIDE DEF chosen
<1>4. Chooses(chosen, q, S, Len(q))
  BY <1>1, <1>3 DEF Chooses, IsAmong
<1> QED
  BY <1>2, <1>4

LEMMA ChosenEmpty == \A S : Chosen(<<>>, S) = <<>>
<1> TAKE S
<1>1. <<>> \in Seq({}) /\ Len(<<>>) = 0
  OBVIOUS
<1>2. PICK g : Chooses(g, <<>>, S, Len(<<>>)) /\ Chosen(<<>>, S) = g[Len(<<>>)]
  BY <1>1, ChosenChooses
<1> QED
  BY <1>1, <1>2 DEF Chooses

LEMMA ChosenAppend ==
    ASSUME NEW U, NEW q \in Seq(U), NEW x \in U, NEW S
    PROVE  Chosen(Append(q, x), S) = IF x \in S THEN Append(Chosen(q, S), x) ELSE Chosen(q, S)
<1> DEFINE p == Append(q, x)
<1>1. p \in Seq(U) /\ Len(p) = Len(q) + 1 /\ Len(q) \in Nat
  OBVIOUS
<1>2. p[Len(q) + 1] = x /\ \A i \in 1..Len(q) : p[i] = q[i]
  OBVIOUS
<1> HIDE DEF p
<1>3. PICK g : Chooses(g, q, S, Len(q)) /\ Chosen(q, S) = g[Len(q)]
  BY ChosenChooses
<1>4. PICK h : Chooses(h, p, S, Len(p)) /\ Chosen(p, S) = h[Len(p)]
  BY <1>1, ChosenChooses
<1>5. g[Len(q)] = h[Len(q)]
  <2>1. Len(p) \in Nat /\ Len(q) <= Len(p)
    BY <1>1
  <2>2. \A i \in 0..Len(q) : g[i] = h[i]
    BY <1>1, <1>2, <1>3, <1>4, <2>1, ChoosesUnique
  <2> QED
    BY <1>1, <2>2
<1>6. h[Len(p)] = IF x \in S THEN Append(h[Len(q)], x) ELSE h[Len(q)]
  <2>1. Len(p) \in 0..Len(p) /\ Len(p) # 0 /\ Len(p) - 1 = Len(q) /\ p[Len(p)] = x
    BY <1>1, <1>2
  <2> QED
    BY <1>4, <2>1 DEF Chooses
<1> QED
  BY <1>3, <1>4, <1>5, <1>6 DEF p

LEMMA ChosenType ==
    ASSUME NEW U, NEW q \in Seq(U), NEW S
    PROVE  Chosen(q, S) \in Seq(U)
<1> DEFINE T == {n \in Nat : \E r \in Seq(U) : Len(r) = n /\ Chosen(r, S) \notin Seq(U)}
<1>1. SUFFICES ASSUME T # {} PROVE FALSE
  <2>1. Len(q) \in Nat /\ Len(q) \notin T
    BY <1>1
  <2> QED
    BY <2>1
<1>2. T \subseteq Nat
  OBVIOUS
<1>3. PICK n \in T : \A m \in T : n <= m
  <2> HIDE DEF T
  <2> QED
    BY <1>1, <1>2, LeastNatural
<1>4. PICK r \in Seq(U) : Len(r) = n /\ Chosen(r, S) \notin Seq(U)
  BY <1>3
<1>5. r # <<>>
  BY <1>4, ChosenEmpty
<1>6. PICK p \in Seq(U), x \in U : r = Append(p, x)
  BY <1>5, SequenceEmptyOrAppend
<1>7. Len(p) \in Nat /\ ~(n <= Len(p))
  BY <1>4, <1>6
<1>8. Chosen(p, S) \in Seq(U)
  BY <1>3, <1>7
<1>9. Chosen(r, S) = IF x \in S THEN Append(Chosen(p, S), x) ELSE Chosen(p, S)
  BY <1>6, ChosenAppend
<1> QED
  BY <1>4, <1>8, <1>9

LEMMA ConcatElements ==
    ASSUME NEW U, NEW q \in Seq(U), NEW r \in Seq(U)
    PROVE  /\ q \o r \in Seq(U) /\ Len(q \o r) = Len(q) + Len(r)
           /\ \A j \in 1..Len(q) : (q \o r)[j] = q[j]
           /\ \A j \in 1..Len(r) : (q \o r)[Len(q) + j] = r[j]
OBVIOUS

LEMMA ConcatAppend ==
    ASSUME NEW U, NEW q \in Seq(U), NEW r \in Seq(U), NEW x \in U
    PROVE  q \o Append(r, x) = Append(q \o r, x)
<1>1. Append(r, x) = r \o <<x>> /\ <<x>> \in Seq(U)
  BY AppendIsConcat
<1>2. q \o r \in Seq(U)
  OBVIOUS
<1>3. Append(q \o r, x) = (q \o r) \o <<x>>
  BY <1>2, AppendIsConcat
<1>4. (q \o r) \o <<x>> = q \o (r \o <<x>>)
  BY <1>1, ConcatAssociative
<1> QED
  BY <1>1, <1>3, <1>4

LEMMA ChosenConcat ==
    ASSUME NEW U, NEW q \in Seq(U), NEW r \in Seq(U), NEW S
    PROVE  Chosen(q \o r, S) = Chosen(q, S) \o Chosen(r, S)
<1> DEFINE Splits(p) == Chosen(q \o p, S) = Chosen(q, S) \o Chosen(p, S)
           T == {n \in Nat : \E p \in Seq(U) : Len(p) = n /\ ~ Splits(p)}
<1>0. Chosen(q, S) \in Seq(U)
  BY ChosenType
<1>1. SUFFICES ASSUME T # {} PROVE FALSE
  <2>1. Len(r) \in Nat /\ Len(r) \notin T
    BY <1>1
  <2> QED
    BY <2>1
<1>2. T \subseteq Nat
  OBVIOUS
<1>3. PICK n \in T : \A m \in T : n <= m
  <2> HIDE DEF T
  <2> QED
    BY <1>1, <1>2, LeastNatural
<1>4. PICK p \in Seq(U) : Len(p) = n /\ ~ Splits(p)
  BY <1>3
<1>5. p # <<>>
  <2>1. q \o <<>> = q /\ Chosen(q, S) \o <<>> = Chosen(q, S)
    BY <1>0, ConcatEmptySeq
  <2>2. Splits(<<>>)
    BY <2>1, ChosenEmpty
  <2> QED
    BY <1>4, <2>2
<1>6. PICK o \in Seq(U), x \in U : p = Append(o, x)
  BY <1>5, SequenceEmptyOrAppend
<1>7. Len(o) \in Nat /\ ~(n <= Len(o))
  BY <1>4, <1>6
<1>8. Splits(o)
  BY <1>3, <1>7
<1>9. Chosen(p, S) = IF x \in S THEN Append(Chosen(o, S), x) ELSE Chosen(o, S)
  BY <1>6, ChosenAppend
<1>10. q \o p = Append(q \o o, x) /\ q \o o \in Seq(U)
  BY <1>6, ConcatAppend
<1>11. Chosen(q \o p, S) =
          IF x \in S THEN Append(Chosen(q \o o, S), x) ELSE Chosen(q \o o, S)
  <2>1. PICK z \in Seq(U) : z = q \o o
    BY <1>10
  <2>2. Chosen(Append(z, x), S) = IF x \in S THEN Append(Chosen(z, S), x) ELSE Chosen(z, S)
    BY ChosenAppend
  <2> QED
    BY <1>10, <2>1, <2>2
<1>12. Chosen(o, S) \in Seq(U)
  BY ChosenType
<1>13. Chosen(q, S) \o Append(Chosen(o, S), x) = Append(Chosen(q, S) \o Chosen(o, S), x)
  BY SMTT(20), <1>0, <1>12, ConcatAppend
<1>14. Splits(p)
  BY <1>8, <1>9, <1>11, <1>13
<1> QED
  BY <1>4, <1>14

LEMMA ChosenOne ==
    ASSUME NEW x, NEW S
    PROVE  Chosen(<<x>>, S) = IF x \in S THEN <<x>> ELSE <<>>
<1>1. <<>> \in Seq({x}) /\ x \in {x} /\ <<x>> = Append(<<>>, x)
  OBVIOUS
<1>2. Chosen(<<x>>, S) = IF x \in S THEN Append(Chosen(<<>>, S), x) ELSE Chosen(<<>>, S)
  <2>1. PICK e \in Seq({x}), y \in {x} : e = <<>> /\ y = x
    BY <1>1
  <2>2. Chosen(Append(e, y), S) = IF y \in S THEN Append(Chosen(e, S), y) ELSE Chosen(e, S)
    BY ChosenAppend
  <2> QED
    BY <1>1, <2>1, <2>2
<1> QED
  BY <1>1, <1>2, ChosenEmpty

LEMMA ChosenTwo ==
    ASSUME NEW x, NEW y, NEW S
    PROVE  Chosen(<<x, y>>, S) = (IF x \in S THEN <<x>> ELSE <<>>) \o
                                 (IF y \in S THEN <<y>> ELSE <<>>)
<1>1. PICK U : x \in U /\ y \in U
  <2> WITNESS {x, y}
  <2> QED
    OBVIOUS
<1>2. <<x>> \in Seq(U) /\ <<y>> \in Seq(U)
  BY <1>1
<1>3. <<x, y>> \in Seq(U) /\ Append(<<x>>, y) = <<x>> \o <<y>>
  BY <1>1, <1>2, AppendIsConcat
<1>4. <<x, y>> = Append(<<x>>, y)
  <2>1. Append(<<x>>, y) \in Seq(U) /\ Len(<<x, y>>) = 2 /\ Len(Append(<<x>>, y)) = 2
    BY <1>1, <1>2
  <2>2. \A i \in 1..2 : <<x, y>>[i] = Append(<<x>>, y)[i]
    BY <1>1, <1>2
  <2> QED
    BY <1>3, <2>1, <2>2, SeqEqual
<1>5. PICK q \in Seq(U) : q = <<x>>
  BY <1>2
<1>6. PICK r \in Seq(U) : r = <<y>>
  BY <1>2
<1>7. Chosen(q \o r, S) = Chosen(q, S) \o Chosen(r, S)
  BY ChosenConcat
<1>8. q \o r = <<x, y>>
  BY <1>3, <1>4, <1>5, <1>6
<1> QED
  BY <1>5, <1>6, <1>7, <1>8, ChosenOne

-----------------------------------------------------------------------------
(* The write buffer. *)

(* Doubling ends with room to spare.                                       *)
LEMMA DoubledFits ==
    ASSUME NEW size \in Nat \ {0}, NEW need \in Nat
    PROVE  Doubled(size, need) \in Nat /\ need < Doubled(size, need)
<1>1. CASE need < size
  BY <1>1 DEF Doubled
<1>2. CASE ~(need < size)
  <2> DEFINE f == [n \in Nat |-> IF need >= n THEN 2 * n ELSE n]
             v(k) == Repeated(f, size, k)
             T == {k \in Nat : ~(v(k) \in Nat /\ (need < v(k) \/ size + k <= v(k)))}
  <2>1. v(0) = size /\ \A k \in Nat : v(k + 1) = f[v(k)]
    BY RepeatedSteps
  <2> HIDE DEF v
  <2>2. T = {}
    <3>1. SUFFICES ASSUME T # {} PROVE FALSE
      OBVIOUS
    <3>2. PICK k \in T : \A m \in T : k <= m
      <4>1. T \subseteq Nat
        OBVIOUS
      <4> HIDE DEF T
      <4> QED
        BY <3>1, <4>1, LeastNatural
    <3>3. k \in Nat /\ k # 0
      BY <2>1, <3>2
    <3>4. k - 1 \in Nat /\ ~(k <= k - 1)
      BY <3>3
    <3>5. v(k - 1) \in Nat /\ (need < v(k - 1) \/ size + (k - 1) <= v(k - 1))
      BY <3>2, <3>4
    <3>6. v((k - 1) + 1) = f[v(k - 1)] /\ (k - 1) + 1 = k
      BY <2>1, <3>3, <3>4
    <3>7. v(k) = IF need >= v(k - 1) THEN 2 * v(k - 1) ELSE v(k - 1)
      BY <3>5, <3>6
    <3>8. v(k) \in Nat /\ (need < v(k) \/ size + k <= v(k))
      BY <3>3, <3>5, <3>7
    <3> QED
      BY <3>2, <3>8
  <2>3. need - size + 1 \in Nat /\ size + (need - size + 1) = need + 1
    BY <1>2
  <2>4. /\ v(need - size + 1) \in Nat
        /\ need < v(need - size + 1) \/ size + (need - size + 1) <= v(need - size + 1)
    BY <2>2, <2>3
  <2>5. Doubled(size, need) = v(need - size + 1)
    BY <1>2 DEF Doubled, v
  <2> QED
    BY <2>3, <2>4, <2>5
<1> QED
  BY <1>1, <1>2

-----------------------------------------------------------------------------
(* A client is removed. *)

(* What a callback for one client, or an event, leaves of the others.      *)
SameClient(t, u, c) ==
    /\ u.conn[c] = t.conn[c] /\ u.pending[c] = t.pending[c]
    /\ u.todo[c] = t.todo[c] /\ u.inbox[c] = t.inbox[c]
    /\ u.wire[c] = t.wire[c] /\ u.out[c] = t.out[c]
    /\ u.subs[c] = t.subs[c] /\ u.size[c] = t.size[c]

SameServer(t, u) ==
    /\ u.quit = t.quit /\ u.exiting = t.exiting /\ u.phase = t.phase
    /\ u.sent = t.sent /\ u.news = t.news

(* u lacks an element of t, and the others keep their order.               *)
Without(t, u, c) ==
    \E i \in 1..Len(t) : /\ t[i] = c /\ Len(u) = Len(t) - 1
                         /\ \A j \in 1..Len(u) : u[j] = IF j < i THEN t[j] ELSE t[j + 1]

LEMMA WithoutSet ==
    ASSUME NEW S, NEW q \in Seq(S), NEW r \in Seq(S), NEW c,
           IsInjective(q), Without(q, r, c)
    PROVE  ToSet(r) = ToSet(q) \ {c} /\ IsInjective(r)
<1>1. PICK i \in 1..Len(q) :
          /\ q[i] = c /\ Len(r) = Len(q) - 1
          /\ \A j \in 1..Len(r) : r[j] = IF j < i THEN q[j] ELSE q[j + 1]
  BY DEF Without
<1>2. /\ DOMAIN q = 1..Len(q) /\ DOMAIN r = 1..Len(r)
      /\ Len(q) \in Nat /\ Len(r) \in Nat /\ i \in Nat
  OBVIOUS
<1>3. \A j, k \in 1..Len(q) : q[j] = q[k] => j = k
  BY <1>2 DEF IsInjective
<1>4. ASSUME NEW j \in 1..Len(r) PROVE r[j] \in ToSet(q) /\ r[j] # c
  <2>1. j \in 1..Len(q) /\ j + 1 \in 1..Len(q)
    BY <1>1, <1>2
  <2>2. CASE j < i
    <3>1. r[j] = q[j] /\ j # i
      BY <1>1, <1>2, <2>2
    <3> QED
      BY <1>1, <1>2, <1>3, <2>1, <3>1 DEF ToSet
  <2>3. CASE ~(j < i)
    <3>1. r[j] = q[j + 1] /\ j + 1 # i
      BY <1>1, <1>2, <2>3
    <3> QED
      BY <1>1, <1>2, <1>3, <2>1, <3>1 DEF ToSet
  <2> QED
    BY <2>2, <2>3
<1>5. ASSUME NEW k \in 1..Len(q), q[k] # c PROVE \E j \in 1..Len(r) : r[j] = q[k]
  <2>1. CASE k < i
    <3>1. k \in 1..Len(r) /\ r[k] = q[k]
      BY <1>1, <1>2, <2>1
    <3> QED
      BY <3>1
  <2>2. CASE ~(k < i)
    <3>1. k # i
      BY <1>1, <1>5
    <3>2. k - 1 \in 1..Len(r) /\ ~(k - 1 < i) /\ (k - 1) + 1 = k
      BY <1>1, <1>2, <2>2, <3>1
    <3>3. r[k - 1] = q[k]
      BY <1>1, <3>2
    <3> QED
      BY <3>2, <3>3
  <2> QED
    BY <2>1, <2>2
<1>6. ToSet(r) = ToSet(q) \ {c}
  <2>1. ToSet(r) \subseteq ToSet(q) \ {c}
    BY <1>2, <1>4 DEF ToSet
  <2>2. ToSet(q) \ {c} \subseteq ToSet(r)
    BY <1>2, <1>5 DEF ToSet
  <2> QED
    BY <2>1, <2>2
<1>7. \A j, k \in 1..Len(r) : r[j] = r[k] => j = k
  <2> SUFFICES ASSUME NEW j \in 1..Len(r), NEW k \in 1..Len(r), r[j] = r[k] PROVE j = k
    OBVIOUS
  <2> DEFINE J == IF j < i THEN j ELSE j + 1
             K == IF k < i THEN k ELSE k + 1
  <2>1. J \in 1..Len(q) /\ K \in 1..Len(q)
    BY <1>1, <1>2
  <2>2. r[j] = q[J] /\ r[k] = q[K]
    BY <1>1
  <2>3. J = K
    <3> HIDE DEF J, K
    <3> QED
      BY <1>3, <2>1, <2>2
  <2> QED
    BY <1>2, <2>3
<1> QED
  BY <1>2, <1>6, <1>7 DEF IsInjective

LEMMA UnitsType ==
    /\ Types \subseteq Units /\ NIL \notin Types
    /\ WithBody \subseteq Types /\ "exit" \in WithBody
BY IpcAssumption DEF Types, Known, Unknown, Queries, WithBody, Units

LEMMA HeardType ==
    ASSUME NEW t \in States, NEW c \in Clients
    PROVE  /\ Heard(t, c) \in Seq(Units) /\ t.inbox[c] \in Seq(Units)
           /\ t.todo[c] \in Seq(Units) /\ Stream(t, c) \in Seq(Units)
           /\ t.wire[c] \in Seq(Buffered) /\ t.out[c] \in Seq(Buffered)
<1>1. /\ t.inbox[c] \in Seq(Units) /\ t.todo[c] \in Seq(Units)
      /\ t.wire[c] \in Seq(Buffered) /\ t.out[c] \in Seq(Buffered)
      /\ t.pending[c] \in Types \cup {NIL}
  BY DEF States
<1>2. (IF t.pending[c] # NIL THEN <<t.pending[c]>> ELSE <<>>) \in Seq(Units)
  BY <1>1, UnitsType
<1>3. Heard(t, c) \in Seq(Units)
  BY <1>1, <1>2, ConcatProperties DEF Heard
<1> QED
  BY <1>1, <1>3, ConcatProperties DEF Stream

LEMMA FewerExits ==
    ASSUME NEW t, NEW u, OneExit(t), u.exiting = t.exiting, u.phase = t.phase,
           \A c \in Clients : Stream(u, c) \in {Stream(t, c), <<>>}
    PROVE  OneExit(u)
<1>1. \A c \in Clients : \A i \in Nat : ExitAt(u, c, i) => ExitAt(t, c, i)
  BY DEF ExitAt
<1> QED
  BY <1>1 DEF OneExit

LEMMA SameWellFormed ==
    ASSUME NEW t, NEW u, NEW c, WellFormed(t, c),
           u.pending[c] = t.pending[c], Stream(u, c) = Stream(t, c)
    PROVE  WellFormed(u, c)
BY DEF WellFormed

LEMMA NothingWellFormed ==
    ASSUME NEW u, NEW c, u.pending[c] = NIL, Stream(u, c) = <<>>
    PROVE  WellFormed(u, c)
BY DEF WellFormed, Grammatical

LEMMA NoStream ==
    ASSUME NEW t \in States, NEW c \in Clients,
           t.pending[c] = NIL, t.inbox[c] = <<>>, t.todo[c] = <<>>
    PROVE  Stream(t, c) = <<>> /\ Heard(t, c) = <<>>
BY DEF Stream, Heard

LEMMA DisconnectInv ==
    ASSUME NEW t, Inv(t), NEW c \in Clients, t.conn[c] = "open"
    PROVE  LET r == Disconnect(t, c)
           IN  /\ Inv(r) /\ SameServer(t, r) /\ r.crash = t.crash
               /\ r.conn[c] = "gone" /\ Without(t.list, r.list, c)
               /\ \A d \in Clients \ {c} : SameClient(t, r, d)
<1> DEFINE i == CHOOSE i \in DOMAIN t.list : t.list[i] = c
           r == Disconnect(t, c)
<1>1. t \in States /\ t.list \in Seq(Clients)
  BY DEF Inv, States
<1>2. i \in 1..Len(t.list) /\ t.list[i] = c
  <2>1. c \in ToSet(t.list) /\ DOMAIN t.list = 1..Len(t.list)
    BY <1>1 DEF Inv, Listed
  <2>2. \E j \in DOMAIN t.list : t.list[j] = c
    BY <2>1 DEF ToSet
  <2> QED
    BY <2>1, <2>2
<1>3. r = [t EXCEPT !.conn[c] = "gone", !.list = RemoveAt(t.list, i),
                    !.out[c] = <<>>, !.size[c] = 0, !.pending[c] = NIL, !.subs[c] = {},
                    !.todo[c] = <<>>, !.inbox[c] = <<>>,
                    !.batch = {b \in t.batch : b[1] # c}]
  BY <1>1 DEF Disconnect, States
<1>4. /\ r.list = RemoveAt(t.list, i) /\ r.batch = {b \in t.batch : b[1] # c}
      /\ r.conn = [t.conn EXCEPT ![c] = "gone"] /\ r.out = [t.out EXCEPT ![c] = <<>>]
      /\ r.size = [t.size EXCEPT ![c] = 0] /\ r.pending = [t.pending EXCEPT ![c] = NIL]
      /\ r.subs = [t.subs EXCEPT ![c] = {}] /\ r.todo = [t.todo EXCEPT ![c] = <<>>]
      /\ r.inbox = [t.inbox EXCEPT ![c] = <<>>] /\ r.wire = t.wire
      /\ SameServer(t, r) /\ r.crash = t.crash
  BY <1>1, <1>3 DEF States, SameServer
<1> HIDE DEF i
<1>5. /\ r.list \in Seq(Clients) /\ Len(r.list) = Len(t.list) - 1
      /\ \A j \in 1..Len(r.list) : r.list[j] = IF j < i THEN t.list[j] ELSE t.list[j + 1]
  <2> DEFINE l == RemoveAt(t.list, i)
  <2>1. /\ l \in Seq(Clients) /\ Len(l) = Len(t.list) - 1
        /\ \A j \in 1..Len(l) : l[j] = IF j < i THEN t.list[j] ELSE t.list[j + 1]
    BY <1>1, <1>2, RemoveAtShifts
  <2> QED
    BY <1>4, <2>1
<1>6. r \in States
  <2> DEFINE l == RemoveAt(t.list, i)
             batch == {b \in t.batch : b[1] # c}
  <2>1. l \in Seq(Clients)
    BY <1>4, <1>5
  <2>2. batch \in SUBSET (Clients \X {"in", "out"})
    BY <1>1 DEF States
  <2> HIDE DEF l, batch
  <2>3. r = [t EXCEPT !.conn[c] = "gone", !.list = l,
                      !.out[c] = <<>>, !.size[c] = 0, !.pending[c] = NIL, !.subs[c] = {},
                      !.todo[c] = <<>>, !.inbox[c] = <<>>, !.batch = batch]
    BY <1>3 DEF l, batch
  <2>4. <<>> \in Seq(Buffered) /\ <<>> \in Seq(Units)
    OBVIOUS
  <2> HIDE DEF r
  <2>5. /\ [t.conn EXCEPT ![c] = "gone"] \in [Clients -> {"new", "open", "gone"}]
        /\ [t.size EXCEPT ![c] = 0] \in [Clients -> Nat]
        /\ [t.pending EXCEPT ![c] = NIL] \in [Clients -> Types \cup {NIL}]
        /\ [t.subs EXCEPT ![c] = {}] \in [Clients -> SUBSET Events]
    BY <1>1 DEF States
  <2>6. /\ [t.out EXCEPT ![c] = <<>>] \in [Clients -> Seq(Buffered)]
        /\ [t.todo EXCEPT ![c] = <<>>] \in [Clients -> Seq(Units)]
        /\ [t.inbox EXCEPT ![c] = <<>>] \in [Clients -> Seq(Units)]
    BY <1>1, <2>4 DEF States
  <2>7. r = [ conn |-> [t.conn EXCEPT ![c] = "gone"], quit |-> t.quit,
              todo |-> [t.todo EXCEPT ![c] = <<>>], inbox |-> [t.inbox EXCEPT ![c] = <<>>],
              wire |-> t.wire, list |-> l, pending |-> [t.pending EXCEPT ![c] = NIL],
              subs |-> [t.subs EXCEPT ![c] = {}], out |-> [t.out EXCEPT ![c] = <<>>],
              size |-> [t.size EXCEPT ![c] = 0], phase |-> t.phase, exiting |-> t.exiting,
              batch |-> batch, sent |-> t.sent, news |-> t.news, crash |-> t.crash ]
    BY <1>1, <2>3 DEF States
  <2> QED
    BY <1>1, <2>1, <2>2, <2>5, <2>6, <2>7 DEF States
<1> HIDE DEF r
<1>7. Without(t.list, r.list, c)
  BY <1>2, <1>5 DEF Without
<1>8. \A d \in Clients \ {c} : SameClient(t, r, d)
  BY <1>1, <1>4 DEF SameClient, States
<1>9. r.conn[c] = "gone" /\ r.pending[c] = NIL /\ r.todo[c] = <<>> /\ r.inbox[c] = <<>>
  BY <1>1, <1>4 DEF States
<1>10. Listed(r)
  <2>1. ToSet(r.list) = {d \in Clients : r.conn[d] = "open"} /\ IsInjective(r.list)
    <3>1. ToSet(r.list) = ToSet(t.list) \ {c} /\ IsInjective(r.list)
      BY <1>1, <1>5, <1>7, WithoutSet DEF Inv, Listed
    <3>2. \A d \in Clients : r.conn[d] = "open" <=> d # c /\ t.conn[d] = "open"
      BY <1>8, <1>9 DEF SameClient
    <3> QED
      BY <3>1, <3>2 DEF Inv, Listed
  <2> QED
    BY <2>1 DEF Listed
<1>11. Roomy(r)
  BY <1>1, <1>4, <1>8, <1>9 DEF Inv, Roomy, SameClient, States
<1>12. \A d \in Clients : Dormant(r, d)
  BY <1>4, <1>8, <1>9 DEF Inv, Dormant, Unused, Silent, SameClient, SameServer
<1>13. \A b \in r.batch : r.conn[b[1]] = "open"
  BY <1>1, <1>4 DEF Inv, States
<1>14. Stream(r, c) = <<>>
  BY <1>6, <1>9, NoStream
<1>15. \A d \in Clients \ {c} : Stream(r, d) = Stream(t, d)
  BY <1>8 DEF Stream, Heard, SameClient
<1>16. \A d \in Clients : d \notin r.quit => WellFormed(r, d)
  <2> SUFFICES ASSUME NEW d \in Clients, d \notin r.quit PROVE WellFormed(r, d)
    OBVIOUS
  <2>1. CASE d = c
    BY <2>1, <1>9, <1>14, NothingWellFormed
  <2>2. CASE d # c
    <3>1. WellFormed(t, d) /\ r.pending[d] = t.pending[d]
      BY <2>2, <1>4, <1>8 DEF Inv, SameServer, SameClient
    <3> QED
      BY <2>2, <3>1, <1>15, SameWellFormed
  <2> QED
    BY <2>1, <2>2
<1>17. OneExit(r)
  <2>1. r.exiting = t.exiting /\ r.phase = t.phase
    BY <1>4 DEF SameServer
  <2>2. \A d \in Clients : Stream(r, d) \in {Stream(t, d), <<>>}
    BY <1>14, <1>15
  <2> QED
    BY <2>1, <2>2, FewerExits DEF Inv
<1>18. Inv(r)
  BY <1>6, <1>10, <1>11, <1>12, <1>13, <1>16, <1>17 DEF Inv
<1> QED
  BY <1>4, <1>7, <1>8, <1>9, <1>18 DEF r

-----------------------------------------------------------------------------
(* A message is put in the write buffer of a client. *)

SameInput(t, u, c) ==
    /\ u.conn[c] = t.conn[c] /\ u.pending[c] = t.pending[c]
    /\ u.todo[c] = t.todo[c] /\ u.inbox[c] = t.inbox[c]

(* What was sent to c, and has not been read, is followed by m.            *)
Sent(t, u, c, m) ==
    /\ SameInput(t, u, c) /\ u.wire[c] = t.wire[c] /\ u.subs[c] = t.subs[c]
    /\ u.out[c] = t.out[c] \o Pieces(m)

LEMMA SameInputInv ==
    ASSUME NEW t, Inv(t), NEW u \in States,
           u.quit = t.quit, u.exiting = t.exiting, u.phase = t.phase,
           u.list = t.list, u.batch \subseteq t.batch, Roomy(u),
           \A c \in Clients : SameInput(t, u, c),
           \A c \in Clients : t.conn[c] = "new" => u.wire[c] = t.wire[c] /\ u.out[c] = t.out[c]
    PROVE  Inv(u)
<1>1. Listed(u)
  <2>1. \A c \in Clients : u.conn[c] = t.conn[c]
    BY DEF SameInput
  <2> QED
    BY <2>1 DEF Inv, Listed
<1>2. \A c \in Clients : Dormant(u, c)
  BY DEF Inv, Dormant, Unused, Silent, SameInput
<1>3. \A b \in u.batch : u.conn[b[1]] = "open"
  <2> SUFFICES ASSUME NEW b \in u.batch PROVE u.conn[b[1]] = "open"
    OBVIOUS
  <2>1. b[1] \in Clients
    BY DEF States
  <2> QED
    BY <2>1 DEF Inv, SameInput
<1>4. \A c \in Clients : Stream(u, c) = Stream(t, c)
  BY DEF Stream, Heard, SameInput
<1>5. \A c \in Clients : c \notin u.quit => WellFormed(u, c)
  <2> SUFFICES ASSUME NEW c \in Clients, c \notin u.quit PROVE WellFormed(u, c)
    OBVIOUS
  <2>1. WellFormed(t, c) /\ u.pending[c] = t.pending[c]
    BY DEF Inv, SameInput
  <2> QED
    BY <2>1, <1>4, SameWellFormed
<1>6. OneExit(u)
  BY <1>4, FewerExits DEF Inv
<1> QED
  BY <1>1, <1>2, <1>3, <1>5, <1>6 DEF Inv

LEMMA CrashInv ==
    ASSUME NEW t, Inv(t)
    PROVE  Inv([t EXCEPT !.crash = TRUE])
<1> DEFINE u == [t EXCEPT !.crash = TRUE]
<1>1. /\ u \in States /\ u.quit = t.quit /\ u.exiting = t.exiting /\ u.phase = t.phase
      /\ u.list = t.list /\ u.batch = t.batch /\ u.conn = t.conn /\ u.pending = t.pending
      /\ u.todo = t.todo /\ u.inbox = t.inbox /\ u.wire = t.wire /\ u.out = t.out
      /\ u.size = t.size
  BY DEF Inv, States
<1> HIDE DEF u
<1>2. Roomy(u) /\ \A c \in Clients : SameInput(t, u, c)
  BY <1>1 DEF Inv, Roomy, SameInput
<1>3. Inv(u)
  BY <1>1, <1>2, SameInputInv
<1> QED
  BY <1>3 DEF u

LEMMA PiecesType ==
    ASSUME NEW m \in Messages
    PROVE  /\ Pieces(m) \in Seq(Buffered) /\ Len(Pieces(m)) = 2
           /\ Chosen(Pieces(m), Messages) = <<m>>
<1>1. m[2] \in Known \cup Events /\ m \in Buffered
  BY DEF Messages, Buffered
<1>2. <<"header", m[2]>> \in Buffered /\ <<"header", m[2]>> \notin Messages
  BY <1>1 DEF Buffered, Messages
<1>3. Pieces(m) \in Seq(Buffered) /\ Len(Pieces(m)) = 2
  BY <1>1, <1>2 DEF Pieces
<1>4. <<>> \o <<m>> = <<m>>
  OBVIOUS
<1>5. Chosen(Pieces(m), Messages) = <<>> \o <<m>>
  BY <1>2, ChosenTwo DEF Pieces
<1> QED
  BY <1>3, <1>4, <1>5

LEMMA SendReplyInv ==
    ASSUME NEW t, Inv(t), NEW c \in Clients, NEW m \in Messages
    PROVE  LET r == SendReply(t, c, m)
           IN  /\ Inv(r) /\ SameServer(t, r)
               /\ \A d \in Clients \ {c} : SameClient(t, r, d)
               /\ t.conn[c] # "open" => SameClient(t, r, c)
               /\ t.conn[c] = "open" =>
                    /\ r.crash = t.crash
                    /\ \/ r.conn[c] = "gone" /\ Without(t.list, r.list, c)
                       \/ Sent(t, r, c, m) /\ r.list = t.list
<1> DEFINE r == SendReply(t, c, m)
           size == Doubled(t.size[c], Len(t.out[c]) + Size)
<1>1. t \in States
  BY DEF Inv
<1>2. CASE t.conn[c] # "open"
  <2>1. r = [t EXCEPT !.crash = TRUE]
    BY <1>2 DEF SendReply
  <2>2. Inv(r)
    BY <2>1, CrashInv
  <2>3. SameServer(t, r) /\ \A d \in Clients : SameClient(t, r, d)
    BY <1>1, <2>1 DEF States, SameServer, SameClient
  <2> QED
    BY <1>2, <2>2, <2>3
<1>3. CASE t.conn[c] = "open" /\ size > MaxSize
  <2>1. r = Disconnect(t, c)
    BY <1>3 DEF SendReply
  <2> HIDE DEF r
  <2>2. /\ Inv(r) /\ SameServer(t, r) /\ r.crash = t.crash
        /\ r.conn[c] = "gone" /\ Without(t.list, r.list, c)
        /\ \A d \in Clients \ {c} : SameClient(t, r, d)
    BY <1>3, <2>1, DisconnectInv
  <2> QED
    BY <1>3, <2>2 DEF r
<1>4. CASE t.conn[c] = "open" /\ ~(size > MaxSize)
  <2>1. r = [t EXCEPT !.size[c] = size, !.out[c] = t.out[c] \o Pieces(m)]
    BY <1>1, <1>4 DEF SendReply, States
  <2>2. t.out[c] \in Seq(Buffered) /\ Len(t.out[c]) \in Nat /\ t.size[c] \in Nat \ {0}
    <3>1. Len(t.out[c]) < t.size[c] /\ t.size[c] \in Nat /\ t.out[c] \in Seq(Buffered)
      BY <1>1, <1>4 DEF Inv, Roomy, States
    <3> QED
      BY <3>1
  <2>3. size \in Nat /\ Len(t.out[c]) + 2 < size /\ size <= MaxSize
    <3>1. Len(t.out[c]) + Size \in Nat /\ Len(t.out[c]) + Size = Len(t.out[c]) + 2
      BY <2>2 DEF Size
    <3>2. size \in Nat /\ Len(t.out[c]) + Size < size
      BY <2>2, <3>1, DoubledFits
    <3> QED
      BY <3>1, <3>2, <1>4, IpcAssumption
  <2> DEFINE out == t.out[c] \o Pieces(m)
  <2>4. out \in Seq(Buffered) /\ Len(out) = Len(t.out[c]) + 2
    <3>1. PICK p \in Seq(Buffered) : p = Pieces(m) /\ Len(p) = 2
      BY PiecesType
    <3>2. PICK q \in Seq(Buffered) : q = t.out[c]
      BY <2>2
    <3>3. q \o p \in Seq(Buffered) /\ Len(q \o p) = Len(q) + Len(p)
      BY ConcatProperties
    <3> QED
      BY <3>1, <3>2, <3>3
  <2> HIDE DEF size, out, r
  <2>5. r = [t EXCEPT !.size[c] = size, !.out[c] = out]
    BY <2>1 DEF out
  <2>6. r \in States
    BY <1>1, <2>3, <2>4, <2>5 DEF States
  <2>7. /\ r.conn = t.conn /\ r.pending = t.pending /\ r.todo = t.todo /\ r.inbox = t.inbox
        /\ r.wire = t.wire /\ r.subs = t.subs /\ r.list = t.list /\ r.batch = t.batch
        /\ r.crash = t.crash /\ SameServer(t, r)
        /\ r.size = [t.size EXCEPT ![c] = size] /\ r.out = [t.out EXCEPT ![c] = out]
    BY <1>1, <2>5 DEF States, SameServer
  <2>8. r.size[c] = size /\ r.out[c] = out
    BY <1>1, <2>7 DEF States
  <2>9. \A d \in Clients \ {c} : r.size[d] = t.size[d] /\ r.out[d] = t.out[d]
    BY <1>1, <2>7 DEF States
  <2>10. Roomy(r)
    <3> SUFFICES ASSUME NEW d \in Clients
                 PROVE  /\ r.conn[d] = "open" => Len(r.out[d]) < r.size[d] /\ r.size[d] <= MaxSize
                        /\ Len(r.wire[d]) <= Capacity
      BY DEF Roomy
    <3>1. CASE d = c
      BY <3>1, <2>3, <2>4, <2>7, <2>8 DEF Inv, Roomy
    <3>2. CASE d # c
      BY <3>2, <2>7, <2>9 DEF Inv, Roomy
    <3> QED
      BY <3>1, <3>2
  <2>11. \A d \in Clients : SameInput(t, r, d)
    BY <2>7 DEF SameInput
  <2>12. \A d \in Clients : t.conn[d] = "new" => r.wire[d] = t.wire[d] /\ r.out[d] = t.out[d]
    BY <1>4, <2>7, <2>9
  <2>13. Inv(r)
    BY <2>6, <2>7, <2>10, <2>11, <2>12, SameInputInv DEF SameServer
  <2>14. \A d \in Clients \ {c} : SameClient(t, r, d)
    BY <2>7, <2>9 DEF SameClient
  <2>15. Sent(t, r, c, m)
    BY <2>7, <2>8, <2>11 DEF Sent, out
  <2> QED
    BY <1>4, <2>7, <2>13, <2>14, <2>15 DEF r
<1> QED
  BY <1>2, <1>3, <1>4

-----------------------------------------------------------------------------
(* An event is sent to the listeners. *)

(* What the event does to a client that is not removed.                    *)
Notified(t, u, c, e) ==
    IF e \in t.subs[c] THEN Sent(t, u, c, <<"event", e>>) ELSE SameClient(t, u, c)

(* The walk w, which began with t, has n clients to visit.                 *)
Walking(t, w, e, n) ==
    /\ w \in Walks /\ Inv(w.server)
    /\ SameServer(t, w.server) /\ w.server.crash = t.crash
    /\ Len(w.server.list) - w.at + 1 = n
    /\ \A j \in 1..Len(w.server.list) :
          IF j < w.at THEN Notified(t, w.server, w.server.list[j], e)
          ELSE SameClient(t, w.server, w.server.list[j])
    /\ \A c \in Clients \ ToSet(w.server.list) :
          IF t.conn[c] = "open" THEN w.server.conn[c] = "gone"
          ELSE SameClient(t, w.server, c)

LEMMA SameThen ==
    ASSUME NEW t, NEW u, NEW v, NEW c, NEW e
    PROVE  /\ SameClient(t, u, c) /\ SameClient(u, v, c) => SameClient(t, v, c)
           /\ Notified(t, u, c, e) /\ SameClient(u, v, c) => Notified(t, v, c, e)
           /\ SameClient(t, u, c) /\ Notified(u, v, c, e) => Notified(t, v, c, e)
BY DEF SameClient, Notified, Sent, SameInput

LEMMA VisitedWalks ==
    ASSUME NEW t, NEW e \in Events, NEW w, NEW n \in Nat \ {0}, Walking(t, w, e, n)
    PROVE  Walking(t, Visited(w, e), e, n - 1)
<1> DEFINE u == w.server
           c == u.list[w.at]
           m == <<"event", e>>
           told == SendReply(u, c, m)
           v == Visited(w, e)
<1>1. /\ w = [at |-> w.at, server |-> u] /\ w.at \in Nat \ {0} /\ u \in States
      /\ Inv(u) /\ SameServer(t, u) /\ u.crash = t.crash
      /\ Len(u.list) - w.at + 1 = n
  BY DEF Walking, Walks
<1>2. u.list \in Seq(Clients) /\ Len(u.list) \in Nat /\ DOMAIN u.list = 1..Len(u.list)
  BY <1>1 DEF States
<1>3. w.at \in 1..Len(u.list) /\ ~(w.at > Len(u.list))
  BY <1>1, <1>2
<1>4. c \in Clients /\ u.conn[c] = "open" /\ m \in Messages
  <2>1. c \in ToSet(u.list)
    BY <1>2, <1>3 DEF ToSet
  <2> QED
    BY <1>1, <2>1 DEF Inv, Listed, Messages
<1>5. \A j \in 1..Len(u.list) : IF j < w.at THEN Notified(t, u, u.list[j], e)
                                ELSE SameClient(t, u, u.list[j])
  BY DEF Walking
<1>6. SameClient(t, u, c)
  BY <1>1, <1>3, <1>5
<1>7. \A d \in Clients \ ToSet(u.list) :
         IF t.conn[d] = "open" THEN u.conn[d] = "gone" ELSE SameClient(t, u, d)
  BY DEF Walking
<1>8. \A j, k \in 1..Len(u.list) : u.list[j] = u.list[k] => j = k
  BY <1>1, <1>2 DEF Inv, Listed, IsInjective
<1>9. CASE e \notin u.subs[c]
  <2>1. v = [at |-> w.at + 1, server |-> u]
    <3>1. v = [w EXCEPT !.at = w.at + 1]
      BY <1>3, <1>9 DEF Visited
    <3> QED
      BY <1>1, <3>1
  <2>2. v \in Walks /\ v.at = w.at + 1 /\ v.server = u
    BY <1>1, <2>1 DEF Walks
  <2>3. Notified(t, u, c, e)
    BY <1>6, <1>9 DEF Notified, SameClient
  <2>4. \A j \in 1..Len(u.list) : IF j < w.at + 1 THEN Notified(t, u, u.list[j], e)
                                  ELSE SameClient(t, u, u.list[j])
    <3> SUFFICES ASSUME NEW j \in 1..Len(u.list)
                 PROVE  IF j < w.at + 1 THEN Notified(t, u, u.list[j], e)
                        ELSE SameClient(t, u, u.list[j])
      OBVIOUS
    <3>1. CASE j = w.at
      BY <1>1, <2>3, <3>1
    <3>2. CASE j # w.at
      BY <1>1, <1>5, <3>2
    <3> QED
      BY <3>1, <3>2
  <2>5. Len(u.list) - (w.at + 1) + 1 = n - 1
    BY <1>1, <1>2
  <2>6. Walking(t, v, e, n - 1)
    <3> HIDE DEF v, u
    <3> QED
      BY <1>1, <1>7, <2>2, <2>4, <2>5 DEF Walking
  <2> QED
    BY <2>6
<1>10. /\ Inv(told) /\ SameServer(u, told) /\ told.crash = u.crash
       /\ \A d \in Clients \ {c} : SameClient(u, told, d)
       /\ \/ told.conn[c] = "gone" /\ Without(u.list, told.list, c)
          \/ Sent(u, told, c, m) /\ told.list = u.list
  BY <1>1, <1>4, SendReplyInv
<1>11. SameServer(t, told) /\ told.crash = t.crash
  BY <1>1, <1>10 DEF SameServer
<1>12. told \in States
  BY <1>10 DEF Inv
<1>13. CASE e \in u.subs[c] /\ told.conn[c] = "gone"
  <2> HIDE DEF told
  <2>1. v = [at |-> w.at, server |-> told]
    BY <1>3, <1>13 DEF Visited, told
  <2>2. v \in Walks /\ v.at = w.at /\ v.server = told
    BY <1>1, <1>12, <2>1 DEF Walks
  <2>3. Without(u.list, told.list, c)
    BY <1>4, <1>10, <1>13 DEF Sent, SameInput
  <2>4. PICK i \in 1..Len(u.list) :
            /\ u.list[i] = c /\ Len(told.list) = Len(u.list) - 1
            /\ \A j \in 1..Len(told.list) :
                  told.list[j] = IF j < i THEN u.list[j] ELSE u.list[j + 1]
    BY <2>3 DEF Without
  <2>5. i = w.at
    BY <1>3, <1>8, <2>4
  <2>6. told.list \in Seq(Clients) /\ Len(told.list) \in Nat
    BY <1>12 DEF States
  <2>7. \A j \in 1..Len(told.list) :
           IF j < w.at THEN Notified(t, told, told.list[j], e)
           ELSE SameClient(t, told, told.list[j])
    <3> SUFFICES ASSUME NEW j \in 1..Len(told.list)
                 PROVE  IF j < w.at THEN Notified(t, told, told.list[j], e)
                        ELSE SameClient(t, told, told.list[j])
      OBVIOUS
    <3> DEFINE k == IF j < w.at THEN j ELSE j + 1
    <3>1. k \in 1..Len(u.list) /\ k # w.at
      <4>1. /\ j \in Nat /\ j >= 1 /\ j + 1 <= Len(u.list)
            /\ w.at \in Nat /\ Len(u.list) \in Nat
        BY <1>1, <1>2, <2>4, <2>6
      <4> HIDE DEF u
      <4> QED
        BY <4>1
    <3>2. told.list[j] = u.list[k]
      BY <2>4, <2>5
    <3>3. u.list[k] \in Clients /\ u.list[k] # c
      <4> HIDE DEF k
      <4> QED
        BY <1>2, <1>3, <1>8, <3>1
    <3>4. SameClient(u, told, u.list[k])
      BY <1>10, <3>3
    <3>5. IF j < w.at THEN Notified(t, u, u.list[k], e) ELSE SameClient(t, u, u.list[k])
      BY <1>1, <1>5, <3>1
    <3> HIDE DEF k, u
    <3> QED
      BY <3>2, <3>4, <3>5, SameThen
  <2>8. \A d \in Clients \ ToSet(told.list) :
           IF t.conn[d] = "open" THEN told.conn[d] = "gone" ELSE SameClient(t, told, d)
    <3> SUFFICES ASSUME NEW d \in Clients \ ToSet(told.list)
                 PROVE  IF t.conn[d] = "open" THEN told.conn[d] = "gone"
                        ELSE SameClient(t, told, d)
      OBVIOUS
    <3>1. CASE d = c
      BY <1>4, <1>6, <1>13, <3>1 DEF SameClient
    <3>2. CASE d # c
      <4>1. SameClient(u, told, d)
        BY <1>10, <3>2
      <4>2. ToSet(told.list) = ToSet(u.list) \ {c}
        BY <1>1, <1>2, <2>3, <2>6, WithoutSet DEF Inv, Listed
      <4>3. IF t.conn[d] = "open" THEN u.conn[d] = "gone" ELSE SameClient(t, u, d)
        BY <1>7, <3>2, <4>2
      <4>4. told.conn[d] = u.conn[d]
        BY <4>1 DEF SameClient
      <4> HIDE DEF u
      <4> QED
        BY <4>1, <4>3, <4>4, SameThen
    <3> QED
      BY <3>1, <3>2
  <2>9. Len(told.list) - w.at + 1 = n - 1
    BY <1>1, <1>2, <2>4
  <2>10. Walking(t, v, e, n - 1)
    <3> HIDE DEF v, u
    <3> QED
      BY <1>10, <1>11, <2>2, <2>7, <2>8, <2>9 DEF Walking
  <2> QED
    BY <2>10
<1>14. CASE e \in u.subs[c] /\ told.conn[c] # "gone"
  <2> HIDE DEF told
  <2>1. v = [at |-> w.at + 1, server |-> told]
    BY <1>3, <1>14 DEF Visited, told
  <2>2. v \in Walks /\ v.at = w.at + 1 /\ v.server = told
    BY <1>1, <1>12, <2>1 DEF Walks
  <2>3. Sent(u, told, c, m) /\ told.list = u.list
    BY <1>10, <1>14
  <2>4. Notified(t, told, c, e)
    <3>1. Notified(u, told, c, e)
      BY <1>14, <2>3 DEF Notified
    <3> HIDE DEF u, c
    <3> QED
      BY <1>6, <3>1, SameThen
  <2>5. \A j \in 1..Len(told.list) :
           IF j < w.at + 1 THEN Notified(t, told, told.list[j], e)
           ELSE SameClient(t, told, told.list[j])
    <3> SUFFICES ASSUME NEW j \in 1..Len(u.list)
                 PROVE  IF j < w.at + 1 THEN Notified(t, told, u.list[j], e)
                        ELSE SameClient(t, told, u.list[j])
      BY <2>3
    <3>1. CASE j = w.at
      BY <1>1, <2>4, <3>1
    <3>2. CASE j # w.at
      <4>1. u.list[j] \in Clients /\ u.list[j] # c
        BY <1>2, <1>3, <1>8, <3>2
      <4>2. SameClient(u, told, u.list[j])
        BY <1>10, <4>1
      <4>3. IF j < w.at + 1 THEN Notified(t, u, u.list[j], e)
            ELSE SameClient(t, u, u.list[j])
        BY <1>1, <1>5, <3>2
      <4> HIDE DEF u
      <4> QED
        BY <4>2, <4>3, SameThen
    <3> QED
      BY <3>1, <3>2
  <2>6. \A d \in Clients \ ToSet(told.list) :
           IF t.conn[d] = "open" THEN told.conn[d] = "gone" ELSE SameClient(t, told, d)
    <3> SUFFICES ASSUME NEW d \in Clients \ ToSet(u.list)
                 PROVE  IF t.conn[d] = "open" THEN told.conn[d] = "gone"
                        ELSE SameClient(t, told, d)
      BY <2>3
    <3>1. d # c
      BY <1>2, <1>3 DEF ToSet
    <3>2. SameClient(u, told, d)
      BY <1>10, <3>1
    <3>3. IF t.conn[d] = "open" THEN u.conn[d] = "gone" ELSE SameClient(t, u, d)
      BY <1>7
    <3>4. told.conn[d] = u.conn[d]
      BY <3>2 DEF SameClient
    <3> HIDE DEF u
    <3> QED
      BY <3>2, <3>3, <3>4, SameThen
  <2>7. Len(told.list) - (w.at + 1) + 1 = n - 1
    BY <1>1, <1>2, <2>3
  <2>8. Walking(t, v, e, n - 1)
    <3> HIDE DEF v, u
    <3> QED
      BY <1>10, <1>11, <2>2, <2>5, <2>6, <2>7 DEF Walking
  <2> QED
    BY <2>8
<1> QED
  BY <1>9, <1>13, <1>14

(* The walk ends after as many steps as there were clients.                *)
LEMMA SendEventInv ==
    ASSUME NEW t, Inv(t), NEW e \in Events
    PROVE  LET r == SendEvent(t, e)
           IN  /\ Inv(r) /\ SameServer(t, r) /\ r.crash = t.crash
               /\ \A c \in Clients : IF t.conn[c] = "open"
                                     THEN r.conn[c] = "gone" \/ Notified(t, r, c, e)
                                     ELSE SameClient(t, r, c)
<1> DEFINE r == SendEvent(t, e)
           first == [at |-> 1, server |-> t]
           visit == [w \in Walks |-> Visited(w, e)]
           W(k) == Repeated(visit, first, k)
<1>1. t \in States /\ t.list \in Seq(Clients) /\ Len(t.list) \in Nat
  BY DEF Inv, States
<1>2. CASE ~ HasEventListeners(t, e)
  <2>1. r = t
    BY <1>2 DEF SendEvent
  <2>2. \A c \in Clients : SameClient(t, t, c)
    BY DEF SameClient
  <2>3. \A c \in Clients : t.conn[c] = "open" => e \notin t.subs[c]
    BY <1>2 DEF HasEventListeners, Inv, Listed
  <2>4. \A c \in Clients : t.conn[c] = "open" => Notified(t, t, c, e)
    BY <2>2, <2>3 DEF Notified
  <2>5. SameServer(t, t)
    BY DEF SameServer
  <2> QED
    BY <2>1, <2>2, <2>4, <2>5
<1>3. CASE HasEventListeners(t, e)
  <2>1. r = W(Len(t.list)).server
    BY <1>3 DEF SendEvent
  <2>2. W(0) = first /\ \A k \in Nat : W(k + 1) = visit[W(k)]
    BY RepeatedSteps
  <2>3. Walking(t, first, e, Len(t.list))
    <3>1. first \in Walks /\ first.at = 1 /\ first.server = t
      BY <1>1 DEF Walks
    <3>2. \A c \in Clients : SameClient(t, t, c)
      BY DEF SameClient
    <3>3. \A j \in 1..Len(t.list) : ~(j < 1) /\ t.list[j] \in Clients
      BY <1>1
    <3>4. \A c \in Clients \ ToSet(t.list) : t.conn[c] # "open"
      BY DEF Inv, Listed
    <3>5. SameServer(t, t)
      BY DEF SameServer
    <3>6. Len(t.list) - 1 + 1 = Len(t.list)
      BY <1>1
    <3> HIDE DEF first
    <3> QED
      BY <3>1, <3>2, <3>3, <3>4, <3>5, <3>6 DEF Walking
  <2>4. \A w \in Walks : visit[w] = Visited(w, e)
    OBVIOUS
  <2> HIDE DEF W, visit, first
  <2> DEFINE T == {k \in Nat : k <= Len(t.list) /\ ~ Walking(t, W(k), e, Len(t.list) - k)}
  <2>5. T = {}
    <3>1. SUFFICES ASSUME T # {} PROVE FALSE
      OBVIOUS
    <3>2. PICK k \in T : \A j \in T : k <= j
      <4>1. T \subseteq Nat
        OBVIOUS
      <4> HIDE DEF T
      <4> QED
        BY <3>1, <4>1, LeastNatural
    <3>3. k \in Nat /\ k <= Len(t.list) /\ ~ Walking(t, W(k), e, Len(t.list) - k)
      BY <3>2
    <3>4. k # 0
      <4>1. Len(t.list) - 0 = Len(t.list)
        BY <1>1
      <4> QED
        BY <2>2, <2>3, <3>3, <4>1
    <3>5. k - 1 \in Nat /\ ~(k <= k - 1) /\ k - 1 <= Len(t.list) /\ (k - 1) + 1 = k
      BY <1>1, <3>3, <3>4
    <3>6. Walking(t, W(k - 1), e, Len(t.list) - (k - 1))
      BY <3>2, <3>5
    <3>7. Len(t.list) - (k - 1) \in Nat \ {0}
          /\ (Len(t.list) - (k - 1)) - 1 = Len(t.list) - k
      BY <1>1, <3>3
    <3>8. Walking(t, Visited(W(k - 1), e), e, (Len(t.list) - (k - 1)) - 1)
      BY <3>6, <3>7, VisitedWalks
    <3>9. W(k - 1) \in Walks
      BY <3>6 DEF Walking
    <3>10. W(k) = Visited(W(k - 1), e)
      BY <2>2, <2>4, <3>5, <3>9
    <3> QED
      BY <3>3, <3>7, <3>8, <3>10
  <2>6. Walking(t, W(Len(t.list)), e, 0)
    <3>1. Len(t.list) \notin T /\ Len(t.list) - Len(t.list) = 0 /\ Len(t.list) <= Len(t.list)
      BY <1>1, <2>5
    <3> QED
      BY <1>1, <3>1
  <2>7. PICK w : w = W(Len(t.list)) /\ w.server = r
    BY <2>1
  <2> HIDE DEF r
  <2>8. Walking(t, w, e, 0)
    BY <2>6, <2>7
  <2>9. /\ Inv(r) /\ SameServer(t, r) /\ r.crash = t.crash
        /\ w.at \in Nat /\ Len(r.list) - w.at + 1 = 0 /\ r \in States
    BY <2>7, <2>8 DEF Walking, Walks
  <2>10. r.list \in Seq(Clients) /\ Len(r.list) \in Nat /\ DOMAIN r.list = 1..Len(r.list)
    BY <2>9 DEF States
  <2>11. \A j \in 1..Len(r.list) : Notified(t, r, r.list[j], e)
    <3>1. \A j \in 1..Len(r.list) : j < w.at
      BY <2>9, <2>10
    <3> QED
      BY <2>7, <2>8, <3>1 DEF Walking
  <2>12. \A c \in ToSet(r.list) : Notified(t, r, c, e)
    BY <2>10, <2>11 DEF ToSet
  <2>13. ASSUME NEW c \in Clients
         PROVE  IF t.conn[c] = "open" THEN r.conn[c] = "gone" \/ Notified(t, r, c, e)
                ELSE SameClient(t, r, c)
    <3>1. CASE c \in ToSet(r.list)
      <4>1. Notified(t, r, c, e) /\ r.conn[c] = "open"
        BY <2>9, <2>12, <3>1 DEF Inv, Listed
      <4>2. t.conn[c] = "open"
        BY <4>1 DEF Notified, Sent, SameInput, SameClient
      <4> QED
        BY <4>1, <4>2
    <3>2. CASE c \notin ToSet(r.list)
      BY <2>7, <2>8, <3>2 DEF Walking
    <3> QED
      BY <3>1, <3>2
  <2> QED
    BY <2>9, <2>13 DEF r
<1> QED
  BY <1>2, <1>3

-----------------------------------------------------------------------------
(* What a client is sent: the messages, in order.                          *)

Mail(t, c) == Chosen(t.wire[c] \o t.out[c], Messages)

(* c is sent the messages of n, and its commands are not touched.          *)
Served(t, u, c, n) == SameInput(t, u, c) /\ Mail(u, c) = Mail(t, c) \o n

(* What a step of the server does to a client whose command it is not.     *)
ToldOf(t, u, c) ==
    IF t.conn[c] = "open"
    THEN u.conn[c] = "gone" \/ \E n \in Service!News : Served(t, u, c, n)
    ELSE SameClient(t, u, c)

LEMMA NewsType ==
    /\ Service!News \subseteq Seq(Messages) /\ <<>> \in Service!News
    /\ \A e \in Events : <<"event", e>> \in Messages /\ <<<<"event", e>>>> \in Service!News
<1>1. \A e \in Events : <<"event", e>> \in Messages /\ <<<<"event", e>>>> \in Service!News
  BY DEF Messages, Service!News
<1>2. <<>> \in Service!News /\ <<>> \in Seq(Messages)
  BY DEF Service!News
<1>3. ASSUME NEW n \in Service!News PROVE n \in Seq(Messages)
  <2>1. CASE n = <<>>
    BY <1>2, <2>1
  <2>2. ASSUME NEW e \in Events, n = <<<<"event", e>>>> PROVE n \in Seq(Messages)
    <3>1. PICK m \in Messages : m = <<"event", e>>
      BY <1>1
    <3>2. <<m>> \in Seq(Messages)
      OBVIOUS
    <3> QED
      BY <2>2, <3>1, <3>2
  <2> QED
    BY <2>1, <2>2 DEF Service!News
<1> QED
  BY <1>1, <1>2, <1>3

LEMMA MailType ==
    ASSUME NEW t \in States, NEW c \in Clients
    PROVE  Mail(t, c) \in Seq(Buffered)
<1>1. t.wire[c] \in Seq(Buffered) /\ t.out[c] \in Seq(Buffered)
  BY HeardType
<1>2. PICK q \in Seq(Buffered) : q = t.wire[c] \o t.out[c]
  BY <1>1, ConcatProperties
<1>3. Chosen(q, Messages) \in Seq(Buffered)
  BY ChosenType
<1> QED
  BY <1>2, <1>3 DEF Mail

LEMMA SentMail ==
    ASSUME NEW t \in States, NEW u, NEW c \in Clients, NEW m \in Messages, Sent(t, u, c, m)
    PROVE  Served(t, u, c, <<m>>)
<1>1. PICK w \in Seq(Buffered) : w = t.wire[c]
  BY HeardType
<1>2. PICK o \in Seq(Buffered) : o = t.out[c]
  BY HeardType
<1>3. PICK p \in Seq(Buffered) : p = Pieces(m)
  BY PiecesType
<1>4. (w \o o) \o p = w \o (o \o p)
  BY ConcatAssociative
<1>5. PICK q \in Seq(Buffered) : q = w \o o
  BY ConcatProperties
<1>6. Chosen(q \o p, Messages) = Chosen(q, Messages) \o Chosen(p, Messages)
  BY ChosenConcat
<1>7. Chosen(p, Messages) = <<m>>
  BY <1>3, PiecesType
<1>8. u.wire[c] \o u.out[c] = q \o p
  BY <1>1, <1>2, <1>3, <1>4, <1>5 DEF Sent
<1>9. Mail(u, c) = Mail(t, c) \o <<m>>
  BY <1>1, <1>2, <1>5, <1>6, <1>7, <1>8 DEF Mail
<1> QED
  BY <1>9 DEF Served, Sent

LEMMA SameMail ==
    ASSUME NEW t \in States, NEW u, NEW c \in Clients, SameClient(t, u, c)
    PROVE  Served(t, u, c, <<>>) /\ ToldOf(t, u, c)
<1>1. PICK q \in Seq(Buffered) : q = Mail(t, c)
  BY MailType
<1>2. q \o <<>> = q
  BY ConcatEmptySeq
<1>3. Mail(u, c) = Mail(t, c)
  BY DEF SameClient, Mail
<1>4. Served(t, u, c, <<>>)
  BY <1>1, <1>2, <1>3 DEF Served, SameInput, SameClient
<1> QED
  BY <1>4, NewsType DEF ToldOf

LEMMA ServedThen ==
    ASSUME NEW t \in States, NEW u, NEW v, NEW c \in Clients,
           NEW n \in Seq(Messages), NEW m \in Seq(Messages),
           Served(t, u, c, n), Served(u, v, c, m)
    PROVE  Served(t, v, c, n \o m)
<1>1. PICK q \in Seq(Buffered) : q = Mail(t, c)
  BY MailType
<1>2. Messages \subseteq Buffered
  BY DEF Buffered
<1>3. n \in Seq(Buffered) /\ m \in Seq(Buffered)
  BY <1>2, SeqMonotonic
<1>4. (q \o n) \o m = q \o (n \o m)
  BY <1>3, ConcatAssociative
<1> QED
  BY <1>1, <1>4 DEF Served, SameInput

LEMMA ToldThen ==
    ASSUME NEW t, NEW u, NEW v, NEW c, ToldOf(t, u, c), SameClient(u, v, c)
    PROVE  ToldOf(t, v, c)
<1>1. Mail(v, c) = Mail(u, c)
  BY DEF SameClient, Mail
<1>2. CASE t.conn[c] = "open"
  <2>1. CASE u.conn[c] = "gone"
    BY <1>2, <2>1 DEF SameClient, ToldOf
  <2>2. ASSUME NEW n \in Service!News, Served(t, u, c, n) PROVE ToldOf(t, v, c)
    <3>1. Served(t, v, c, n)
      BY <1>1, <2>2 DEF Served, SameInput, SameClient
    <3> QED
      BY <1>2, <3>1 DEF ToldOf
  <2> QED
    BY <1>2, <2>1, <2>2 DEF ToldOf
<1>3. CASE t.conn[c] # "open"
  BY <1>3 DEF ToldOf, SameClient
<1> QED
  BY <1>2, <1>3

LEMMA EventTold ==
    ASSUME NEW t, Inv(t), NEW e \in Events, NEW c \in Clients
    PROVE  ToldOf(t, SendEvent(t, e), c)
<1> DEFINE r == SendEvent(t, e)
<1>1. IF t.conn[c] = "open" THEN r.conn[c] = "gone" \/ Notified(t, r, c, e)
      ELSE SameClient(t, r, c)
  BY SendEventInv
<1> HIDE DEF r
<1>2. t \in States
  BY DEF Inv
<1>3. ASSUME Notified(t, r, c, e) PROVE \E n \in Service!News : Served(t, r, c, n)
  <2>1. CASE e \in t.subs[c]
    <3>1. Sent(t, r, c, <<"event", e>>)
      BY <1>3, <2>1 DEF Notified
    <3>2. Served(t, r, c, <<<<"event", e>>>>)
      BY <1>2, <3>1, NewsType, SentMail
    <3> QED
      BY <3>2, NewsType
  <2>2. CASE e \notin t.subs[c]
    <3>1. SameClient(t, r, c)
      BY <1>3, <2>2 DEF Notified
    <3>2. Served(t, r, c, <<>>)
      BY <1>2, <3>1, SameMail
    <3> QED
      BY <3>2, NewsType
  <2> QED
    BY <2>1, <2>2
<1>4. ToldOf(t, r, c)
  BY <1>1, <1>3 DEF ToldOf
<1> QED
  BY <1>4 DEF r

(* A reply after what else was sent.                                       *)
LEMMA ReplyAfter ==
    ASSUME NEW t, NEW u, Inv(t), Inv(u), NEW c \in Clients, t.conn[c] = "open",
           \A d \in Clients : ToldOf(t, u, d), NEW m \in Messages
    PROVE  LET v == SendReply(u, c, m)
           IN  /\ Inv(v) /\ SameServer(u, v)
               /\ \A d \in Clients \ {c} : ToldOf(t, v, d)
               /\ \/ v.conn[c] = "gone"
                  \/ \E n \in Service!News : Served(t, v, c, n \o <<m>>)
<1> DEFINE v == SendReply(u, c, m)
<1>1. /\ Inv(v) /\ SameServer(u, v)
      /\ \A d \in Clients \ {c} : SameClient(u, v, d)
      /\ u.conn[c] # "open" => SameClient(u, v, c)
      /\ u.conn[c] = "open" => v.conn[c] = "gone" \/ Sent(u, v, c, m)
  BY SendReplyInv
<1> HIDE DEF v
<1>2. \A d \in Clients \ {c} : ToldOf(t, v, d)
  BY <1>1, ToldThen
<1>3. v.conn[c] = "gone" \/ \E n \in Service!News : Served(t, v, c, n \o <<m>>)
  <2>1. CASE u.conn[c] = "gone"
    BY <1>1, <2>1 DEF SameClient
  <2>2. ASSUME NEW n \in Service!News, Served(t, u, c, n), v.conn[c] # "gone"
        PROVE  Served(t, v, c, n \o <<m>>)
    <3>1. u.conn[c] = "open"
      BY <2>2 DEF Served, SameInput
    <3>2. Sent(u, v, c, m) /\ u \in States /\ t \in States
      BY <1>1, <2>2, <3>1 DEF Inv
    <3>3. Served(u, v, c, <<m>>)
      BY <3>2, SentMail
    <3>4. n \in Seq(Messages) /\ <<m>> \in Seq(Messages)
      BY NewsType
    <3> QED
      BY <2>2, <3>2, <3>3, <3>4, ServedThen
  <2> QED
    BY <2>1, <2>2 DEF ToldOf
<1> QED
  BY <1>1, <1>2, <1>3 DEF v

-----------------------------------------------------------------------------
(* A command is handled. *)

(* r is q without its first n elements.                                    *)
Shorter(q, r, n) ==
    /\ n \in Nat /\ Len(r) = Len(q) - n
    /\ \A i \in 1..Len(r) : r[i] = q[i + n]

LEMMA GrammaticalRest ==
    ASSUME NEW q \in Seq(Units), NEW r \in Seq(Units), NEW n, Shorter(q, r, n), Grammatical(q)
    PROVE  Grammatical(r)
<1>1. n \in Nat /\ Len(r) \in Nat /\ Len(q) \in Nat /\ Len(q) = Len(r) + n
  BY DEF Shorter
<1>2. ASSUME NEW i \in 1..Len(r)
      PROVE  /\ r[i] \in Starts => i < Len(r)
             /\ r[i] = "magic" => r[i + 1] \in Types
             /\ r[i] \in WithBody => i < Len(r) /\ r[i + 1] = "body"
             /\ r[i] \in Ends /\ i < Len(r) => r[i + 1] \in Starts
  <2> DEFINE k == i + n
  <2>1. k \in 1..Len(q) /\ r[i] = q[k] /\ (i < Len(r) <=> k < Len(q))
    BY <1>1 DEF Shorter
  <2>2. i < Len(r) => r[i + 1] = q[k + 1]
    <3>1. SUFFICES ASSUME i < Len(r) PROVE r[i + 1] = q[k + 1]
      OBVIOUS
    <3>2. i + 1 \in 1..Len(r) /\ (i + 1) + n = k + 1
      BY <1>1, <3>1
    <3>3. r[i + 1] = q[(i + 1) + n]
      BY <3>2 DEF Shorter
    <3> QED
      BY <3>2, <3>3
  <2>3. /\ q[k] \in Starts => k < Len(q)
        /\ q[k] = "magic" => q[k + 1] \in Types
        /\ q[k] \in WithBody => k < Len(q) /\ q[k + 1] = "body"
        /\ q[k] \in Ends /\ k < Len(q) => q[k + 1] \in Starts
    BY <2>1 DEF Grammatical
  <2>4. "magic" \in Starts
    BY DEF Starts
  <2> HIDE DEF k
  <2> QED
    BY <2>1, <2>2, <2>3, <2>4
<1> QED
  BY <1>2 DEF Grammatical

(* Only what c has sent, and what of it waits for its body, is changed.    *)
SameButInput(t, u, c) ==
    /\ SameServer(t, u) /\ u.list = t.list /\ u.batch = t.batch /\ u.crash = t.crash
    /\ u.conn = t.conn /\ u.wire = t.wire /\ u.out = t.out
    /\ u.subs = t.subs /\ u.size = t.size
    /\ \A d \in Clients \ {c} : SameInput(t, u, d)

LEMMA PoppedInv ==
    ASSUME NEW t, Inv(t), NEW c \in Clients, t.conn[c] = "open", c \notin t.quit,
           NEW u \in States, SameButInput(t, u, c),
           NEW n, Shorter(Stream(t, c), Stream(u, c), n),
           IF u.pending[c] # NIL THEN u.pending[c] \in WithBody
           ELSE Stream(u, c) = <<>> \/ Stream(u, c)[1] \in Starts
    PROVE  /\ Inv(u)
           /\ \A i \in 1..n : ExitAt(t, c, i) =>
                 u.exiting = NIL /\ \A d \in Clients : \A j \in Nat : ~ ExitAt(u, d, j)
<1>1. t \in States
  BY DEF Inv
<1>2. Stream(t, c) \in Seq(Units) /\ Stream(u, c) \in Seq(Units)
  BY <1>1, HeardType
<1>3. \A d \in Clients \ {c} : Stream(u, d) = Stream(t, d)
  BY DEF SameButInput, SameInput, Stream, Heard
<1>4. n \in Nat /\ \A i \in Nat : ExitAt(u, c, i) => ExitAt(t, c, i + n)
  BY <1>2 DEF Shorter, ExitAt
<1>5. \A d \in Clients \ {c} : \A i \in Nat : ExitAt(u, d, i) => ExitAt(t, d, i)
  BY <1>3 DEF ExitAt
<1>6. OneExit(u)
  <2>1. u.exiting = t.exiting /\ u.phase = t.phase /\ OneExit(t)
    BY DEF SameButInput, SameServer, Inv
  <2>2. u.exiting # NIL => \A d \in Clients : \A i \in Nat : ~ ExitAt(u, d, i)
    <3>1. \A i \in Nat : i + n \in Nat
      BY <1>4
    <3> QED
      BY <1>4, <1>5, <2>1, <3>1 DEF OneExit
  <2>3. ASSUME NEW d \in Clients, NEW e \in Clients, NEW i \in Nat, NEW j \in Nat,
               ExitAt(u, d, i), ExitAt(u, e, j)
        PROVE  d = e /\ i = j
    <3> DEFINE I == IF d = c THEN i + n ELSE i
               J == IF e = c THEN j + n ELSE j
    <3>1. I \in Nat /\ J \in Nat /\ ExitAt(t, d, I) /\ ExitAt(t, e, J)
      BY <1>4, <1>5, <2>3
    <3>2. d = e /\ I = J
      <4> HIDE DEF I, J
      <4> QED
        BY <2>1, <3>1 DEF OneExit
    <3> QED
      BY <1>4, <3>2
  <2> QED
    BY <2>1, <2>2, <2>3 DEF OneExit
<1>7. \A d \in Clients : d \notin u.quit => WellFormed(u, d)
  <2> SUFFICES ASSUME NEW d \in Clients, d \notin u.quit PROVE WellFormed(u, d)
    OBVIOUS
  <2>1. WellFormed(t, d)
    BY DEF Inv, SameButInput, SameServer
  <2>2. CASE d = c
    BY <1>2, <2>1, <2>2, GrammaticalRest DEF WellFormed
  <2>3. CASE d # c
    <3>1. u.pending[d] = t.pending[d]
      BY <2>3 DEF SameButInput, SameInput
    <3> QED
      BY <1>3, <2>1, <2>3, <3>1, SameWellFormed
  <2> QED
    BY <2>2, <2>3
<1>8. Listed(u) /\ Roomy(u)
  BY DEF Inv, Listed, Roomy, SameButInput
<1>9. \A d \in Clients : Dormant(u, d)
  BY DEF Inv, Dormant, Unused, Silent, SameButInput, SameInput, SameServer
<1>10. \A b \in u.batch : u.conn[b[1]] = "open"
  BY DEF Inv, SameButInput
<1>11. Inv(u)
  BY <1>6, <1>7, <1>8, <1>9, <1>10 DEF Inv
<1>12. ASSUME NEW i \in 1..n, ExitAt(t, c, i)
       PROVE  u.exiting = NIL /\ \A d \in Clients : \A j \in Nat : ~ ExitAt(u, d, j)
  <2>1. i \in Nat /\ u.exiting = t.exiting /\ OneExit(t)
    BY <1>4 DEF SameButInput, SameServer, Inv
  <2>2. u.exiting = NIL
    BY <1>12, <2>1 DEF OneExit
  <2>3. ASSUME NEW d \in Clients, NEW j \in Nat, ExitAt(u, d, j) PROVE FALSE
    <3> DEFINE J == IF d = c THEN j + n ELSE j
    <3>1. J \in Nat /\ ExitAt(t, d, J)
      BY <1>4, <1>5, <2>3
    <3>2. d = c /\ i = J
      <4> HIDE DEF J
      <4> QED
        BY <1>12, <2>1, <3>1 DEF OneExit
    <3>3. j \in 1..Len(Stream(u, c))
      BY <2>3, <3>2 DEF ExitAt
    <3> QED
      BY <1>4, <3>2, <3>3
  <2> QED
    BY <2>2, <2>3
<1> QED
  BY <1>11, <1>12

LEMMA SelfTold ==
    ASSUME NEW t \in States, NEW c \in Clients
    PROVE  ToldOf(t, t, c)
<1>1. SameClient(t, t, c)
  BY DEF SameClient
<1> QED
  BY <1>1, SameMail

(* A client that is told something keeps its commands or is removed.       *)
LEMMA ToldStream ==
    ASSUME NEW t, NEW u, Inv(u), NEW c \in Clients, ToldOf(t, u, c)
    PROVE  Stream(u, c) \in {Stream(t, c), <<>>}
<1>1. CASE u.conn[c] = "gone"
  <2>1. u \in States /\ Silent(u, c)
    BY <1>1 DEF Inv, Dormant
  <2> QED
    BY <2>1, NoStream DEF Silent
<1>2. CASE u.conn[c] # "gone"
  <2>1. SameInput(t, u, c)
    BY <1>2 DEF ToldOf, Served, SameInput, SameClient
  <2> QED
    BY <2>1 DEF SameInput, Stream, Heard
<1> QED
  BY <1>1, <1>2

LEMMA TerminateInv ==
    ASSUME NEW t, Inv(t), NEW c \in Clients \cup {NIL},
           c # NIL => \A d \in Clients : \A i \in Nat : ~ ExitAt(t, d, i)
    PROVE  LET u == Terminate(t, c)
           IN  /\ Inv(u) /\ u.quit = t.quit /\ u.exiting = c
               /\ \A d \in Clients : ToldOf(t, u, d)
<1> DEFINE v == SendEvent(t, "shutdown")
           u == Terminate(t, c)
<1>1. "shutdown" \in Events
  BY DEF Events
<1>2. /\ Inv(v) /\ SameServer(t, v)
      /\ \A d \in Clients : ToldOf(t, v, d)
  BY <1>1, SendEventInv, EventTold
<1>3. u = [v EXCEPT !.phase = "exit", !.exiting = c, !.batch = Ready(v)]
  BY DEF Terminate
<1> HIDE DEF v, u
<1>4. Ready(v) \subseteq Clients \X {"in", "out"} /\ \A b \in Ready(v) : v.conn[b[1]] = "open"
  BY DEF Ready
<1>5. /\ u \in States /\ u.phase = "exit" /\ u.exiting = c /\ u.batch = Ready(v)
      /\ u.list = v.list /\ u.quit = v.quit /\ u.conn = v.conn /\ u.size = v.size
      /\ u.wire = v.wire /\ u.out = v.out /\ u.subs = v.subs
      /\ u.pending = v.pending /\ u.todo = v.todo /\ u.inbox = v.inbox
  <2>1. v \in States
    BY <1>2 DEF Inv
  <2> QED
    BY <1>3, <1>4, <2>1 DEF States
<1>6. \A d \in Clients : SameClient(v, u, d) /\ Stream(u, d) = Stream(v, d)
  BY <1>5 DEF SameClient, Stream, Heard
<1>7. \A d \in Clients : ToldOf(t, u, d)
  BY <1>2, <1>6, ToldThen
<1>8. OneExit(u)
  <2>1. \A d \in Clients : \A i \in Nat : ExitAt(u, d, i) => ExitAt(v, d, i)
    BY <1>6 DEF ExitAt
  <2>2. \A d \in Clients : \A i \in Nat : ExitAt(v, d, i) => ExitAt(t, d, i)
    <3>1. \A d \in Clients : Stream(v, d) \in {Stream(t, d), <<>>}
      BY <1>2, ToldStream
    <3> QED
      BY <3>1 DEF ExitAt
  <2> QED
    BY <1>2, <1>5, <2>1, <2>2 DEF OneExit, Inv
<1>9. \A d \in Clients : d \notin u.quit => WellFormed(u, d)
  <2> SUFFICES ASSUME NEW d \in Clients, d \notin u.quit PROVE WellFormed(u, d)
    OBVIOUS
  <2>1. WellFormed(v, d) /\ u.pending[d] = v.pending[d]
    BY <1>2, <1>5 DEF Inv
  <2> QED
    BY <1>6, <2>1, SameWellFormed
<1>10. Listed(u) /\ Roomy(u)
  BY <1>2, <1>5 DEF Inv, Listed, Roomy
<1>11. \A d \in Clients : Dormant(u, d)
  BY <1>2, <1>5 DEF Inv, Dormant, Unused, Silent
<1>12. \A b \in u.batch : u.conn[b[1]] = "open"
  BY <1>4, <1>5
<1>13. Inv(u)
  BY <1>5, <1>8, <1>9, <1>10, <1>11, <1>12 DEF Inv
<1> QED
  BY <1>2, <1>5, <1>7, <1>13 DEF u, SameServer

(* The command k of c is answered, and what else it is told.               *)
AnswerTo(t, u, c, k) ==
    \/ u.conn[c] = "gone"
    \/ \E before, after \in Service!News :
          Served(t, u, c, before \o Service!Answer(k) \o after)

(* What handling the command k of c, which has been read, comes to.        *)
Handled(t, u, c, k) ==
    /\ Inv(u) /\ u.quit = t.quit
    /\ \A d \in Clients \ {c} : ToldOf(t, u, d)
    /\ IF k = "exit" THEN u.exiting = c /\ ToldOf(t, u, c)
       ELSE u.exiting = t.exiting /\ AnswerTo(t, u, c, k)

LEMMA ReplyHandles ==
    ASSUME NEW t, NEW u, Inv(t), Inv(u), SameServer(t, u), NEW c \in Clients, t.conn[c] = "open",
           \A d \in Clients : ToldOf(t, u, d), NEW k \in Known, k # "exit"
    PROVE  Handled(t, Reply(u, c, k), c, k)
<1> DEFINE v == Reply(u, c, k)
           m == <<"reply", k>>
<1>1. m \in Messages
  BY DEF Messages
<1>2. v = SendReply(u, c, m)
  BY DEF Reply
<1> HIDE DEF v, m
<1>3. /\ Inv(v) /\ SameServer(u, v)
      /\ \A d \in Clients \ {c} : ToldOf(t, v, d)
      /\ v.conn[c] = "gone" \/ \E n \in Service!News : Served(t, v, c, n \o <<m>>)
  BY <1>1, <1>2, ReplyAfter
<1>4. ASSUME NEW n \in Service!News, Served(t, v, c, n \o <<m>>)
      PROVE  Served(t, v, c, n \o Service!Answer(k) \o <<>>)
  <2>1. n \in Seq(Messages) /\ <<m>> \in Seq(Messages)
    BY <1>1, NewsType
  <2>2. PICK r \in Seq(Messages) : r = n \o <<m>>
    BY <2>1, ConcatProperties
  <2>3. r \o <<>> = r
    BY ConcatEmptySeq
  <2>4. Service!Answer(k) = <<m>>
    BY DEF Service!Answer, m
  <2> QED
    BY <1>4, <2>2, <2>3, <2>4
<1>5. AnswerTo(t, v, c, k)
  BY <1>3, <1>4, NewsType DEF AnswerTo
<1>6. Handled(t, v, c, k)
  BY <1>3, <1>5 DEF Handled, SameServer
<1> QED
  BY <1>6 DEF v

LEMMA SubscribeHandles ==
    ASSUME NEW t, Inv(t), NEW c \in Clients, t.conn[c] = "open",
           NEW E \in SUBSET Events, NEW ok \in BOOLEAN
    PROVE  Handled(t, Subscribe(t, c, E, ok), c, "subscribe")
<1> DEFINE v == [t EXCEPT !.subs[c] = t.subs[c] \cup E]
           u == Reply(v, c, "subscribe")
           w == Subscribe(t, c, E, ok)
           tick == <<"event", "tick">>
<1>0. t \in States
  BY DEF Inv
<1>1. w = IF ok /\ "tick" \in E THEN SendReply(u, c, tick) ELSE u
  <2>1. v = [t EXCEPT !.subs[c] = @ \cup E]
    BY <1>0 DEF States
  <2> QED
    BY <2>1 DEF Subscribe
<1>2. /\ v \in States /\ SameServer(t, v) /\ v.list = t.list /\ v.batch = t.batch
      /\ v.conn = t.conn /\ v.pending = t.pending /\ v.todo = t.todo /\ v.inbox = t.inbox
      /\ v.wire = t.wire /\ v.out = t.out /\ v.size = t.size
      /\ v.subs = [t.subs EXCEPT ![c] = t.subs[c] \cup E]
  BY <1>0 DEF States, SameServer
<1> HIDE DEF v, w
<1>3. Inv(v)
  <2>1. Roomy(v) /\ \A d \in Clients : SameInput(t, v, d)
    BY <1>2 DEF Inv, Roomy, SameInput
  <2> QED
    BY <1>2, <2>1, SameInputInv DEF SameServer
<1>4. \A d \in Clients : ToldOf(t, v, d)
  <2> SUFFICES ASSUME NEW d \in Clients PROVE ToldOf(t, v, d)
    OBVIOUS
  <2>1. CASE d = c
    <3>1. PICK q \in Seq(Buffered) : q = Mail(t, c)
      BY <1>0, MailType
    <3>2. q \o <<>> = q /\ Mail(v, c) = q
      BY <1>2, <3>1, ConcatEmptySeq DEF Mail
    <3>3. Served(t, v, c, <<>>)
      BY <1>2, <3>1, <3>2 DEF Served, SameInput
    <3> QED
      BY <2>1, <3>3, NewsType DEF ToldOf
  <2>2. CASE d # c
    <3>1. SameClient(t, v, d)
      BY <1>0, <1>2, <2>2 DEF SameClient, States
    <3> QED
      BY <1>0, <3>1, SameMail
  <2> QED
    BY <2>1, <2>2
<1>5. "subscribe" \in Known /\ "tick" \in Events
  BY DEF Known, WithBody, Events
<1>6. Handled(t, u, c, "subscribe")
  BY <1>2, <1>3, <1>4, <1>5, ReplyHandles
<1>7. u.conn[c] = "gone" \/
         \E n \in Service!News : Served(t, u, c, n \o <<<<"reply", "subscribe">>>>)
  <2>1. <<"reply", "subscribe">> \in Messages
    BY <1>5 DEF Messages
  <2> QED
    BY <1>3, <1>4, <2>1, ReplyAfter DEF Reply
<1> HIDE DEF u
<1>8. CASE ok /\ "tick" \in E
  <2>1. w = SendReply(u, c, tick) /\ tick \in Messages
    BY <1>1, <1>5, <1>8, NewsType
  <2>2. Inv(u) /\ u \in States
    BY <1>6 DEF Handled, Inv
  <2> HIDE DEF tick
  <2>3. /\ Inv(w) /\ SameServer(u, w)
        /\ \A d \in Clients \ {c} : SameClient(u, w, d)
        /\ u.conn[c] # "open" => SameClient(u, w, c)
        /\ u.conn[c] = "open" => w.conn[c] = "gone" \/ Sent(u, w, c, tick)
    BY <2>1, <2>2, SendReplyInv
  <2>4. \A d \in Clients \ {c} : ToldOf(t, w, d)
    BY <1>6, <2>3, ToldThen DEF Handled
  <2>5. w.quit = t.quit /\ w.exiting = t.exiting
    BY <1>6, <2>3 DEF Handled, SameServer
  <2>6. AnswerTo(t, w, c, "subscribe")
    <3>1. CASE w.conn[c] = "gone"
      BY <3>1 DEF AnswerTo
    <3>2. CASE w.conn[c] # "gone"
      <4>1. PICK n \in Service!News : Served(t, u, c, n \o <<<<"reply", "subscribe">>>>)
        BY <1>7, <2>3, <3>2 DEF SameClient
      <4>2. Sent(u, w, c, tick)
        BY <1>2, <2>3, <3>2, <4>1 DEF Served, SameInput
      <4>3. Served(u, w, c, <<tick>>)
        BY <2>1, <2>2, <4>2, SentMail
      <4>4. Service!Answer("subscribe") = <<<<"reply", "subscribe">>>>
        BY <1>5 DEF Service!Answer
      <4>5. <<tick>> \in Service!News
        BY <1>5, NewsType DEF tick
      <4>6. <<<<"reply", "subscribe">>>> \in Seq(Messages)
        <5>1. PICK m \in Messages : m = <<"reply", "subscribe">>
          BY <1>5 DEF Messages
        <5>2. <<m>> \in Seq(Messages)
          OBVIOUS
        <5> QED
          BY <5>1, <5>2
      <4>7. n \o <<<<"reply", "subscribe">>>> \in Seq(Messages) /\ <<tick>> \in Seq(Messages)
        BY <4>5, <4>6, NewsType, ConcatProperties
      <4>8. Served(t, w, c, (n \o <<<<"reply", "subscribe">>>>) \o <<tick>>)
        BY <1>0, <4>1, <4>3, <4>7, ServedThen
      <4> QED
        BY <4>4, <4>5, <4>8 DEF AnswerTo
    <3> QED
      BY <3>1, <3>2
  <2>7. Handled(t, w, c, "subscribe")
    BY <2>3, <2>4, <2>5, <2>6 DEF Handled
  <2> QED
    BY <2>7 DEF w
<1>9. CASE ~(ok /\ "tick" \in E)
  <2>1. Handled(t, w, c, "subscribe")
    BY <1>1, <1>6, <1>9
  <2> QED
    BY <2>1 DEF w
<1> QED
  BY <1>8, <1>9

LEMMA HandleCommandInv ==
    ASSUME NEW t, Inv(t), NEW c \in Clients, t.conn[c] = "open", NEW k \in Types,
           k = "exit" => \A d \in Clients : \A i \in Nat : ~ ExitAt(t, d, i),
           NEW u \in HandleCommand(t, c, k)
    PROVE  Handled(t, u, c, k)
<1>1. t \in States /\ SameServer(t, t) /\ \A d \in Clients : ToldOf(t, t, d)
  BY SelfTold DEF Inv, SameServer
<1>2. /\ Types = {"run", "tick", "subscribe", "exit", "query", "unknown"}
      /\ Known = {"run", "tick", "subscribe", "exit", "query"}
      /\ Queries = {"query"} /\ Unknown = {"unknown"}
  BY DEF Types, Known, Unknown, WithBody, Queries
<1>3. ASSUME NEW e \in Events, NEW j \in Known, j # "exit"
      PROVE  Handled(t, Reply(SendEvent(t, e), c, j), c, j)
  <2>1. Inv(SendEvent(t, e)) /\ SameServer(t, SendEvent(t, e))
    BY SendEventInv
  <2>2. \A d \in Clients : ToldOf(t, SendEvent(t, e), d)
    BY EventTold
  <2> QED
    BY <1>3, <2>1, <2>2, ReplyHandles
<1>4. ASSUME NEW j \in Known, j # "exit" PROVE Handled(t, Reply(t, c, j), c, j)
  BY <1>1, <1>4, ReplyHandles
<1>5. "workspace" \in Events /\ "tick" \in Events
  BY DEF Events
<1>6. CASE k = "run"
  <2>1. u \in {Reply(t, c, k), Reply(SendEvent(t, "workspace"), c, k)}
    BY <1>2, <1>6 DEF HandleCommand
  <2> QED
    BY <1>2, <1>3, <1>4, <1>5, <1>6, <2>1
<1>7. CASE k = "tick"
  <2>1. u = Reply(SendEvent(t, "tick"), c, k)
    BY <1>2, <1>7 DEF HandleCommand
  <2> QED
    BY <1>2, <1>3, <1>5, <1>7, <2>1
<1>8. CASE k = "subscribe"
  <2>1. u \in {Subscribe(t, c, E, ok) : E \in Subscribes[c], ok \in BOOLEAN}
    BY <1>2, <1>8 DEF HandleCommand
  <2>2. PICK E \in Subscribes[c], ok \in BOOLEAN : u = Subscribe(t, c, E, ok)
    BY <2>1
  <2>3. E \in SUBSET Events
    BY IpcAssumption
  <2> QED
    BY <1>8, <2>2, <2>3, SubscribeHandles
<1>9. CASE k = "exit"
  <2>1. u = Terminate(t, c)
    BY <1>2, <1>9 DEF HandleCommand
  <2>2. /\ Inv(u) /\ u.quit = t.quit /\ u.exiting = c
        /\ \A d \in Clients : ToldOf(t, u, d)
    BY <1>9, <2>1, TerminateInv
  <2> QED
    BY <1>9, <2>2 DEF Handled
<1>10. CASE k = "query"
  <2>1. u = Reply(t, c, k)
    BY <1>2, <1>10 DEF HandleCommand
  <2> QED
    BY <1>2, <1>4, <1>10, <2>1
<1>11. CASE k = "unknown"
  <2>1. u = t
    BY <1>2, <1>11 DEF HandleCommand
  <2>2. Service!Answer(k) = <<>>
    BY <1>2, <1>11 DEF Service!Answer
  <2>3. Served(t, t, c, <<>>)
    BY <1>1, SameMail DEF SameClient
  <2>4. <<>> \o <<>> \o <<>> = <<>>
    OBVIOUS
  <2>5. AnswerTo(t, t, c, k)
    BY <2>2, <2>3, <2>4, NewsType DEF AnswerTo
  <2> QED
    BY <1>1, <1>11, <2>1, <2>5 DEF Handled
<1> QED
  BY <1>2, <1>6, <1>7, <1>8, <1>9, <1>10, <1>11

-----------------------------------------------------------------------------
(* A step of the server, for one client and for all.                       *)

(* The commands of c that were sent and are not handled.                   *)
AskedOf(t, c) ==
    (IF t.exiting = c THEN <<"exit">> ELSE <<>>) \o Chosen(Heard(t, c), Types)

NoticedOf(t, u, c) ==
    /\ u.conn[c] = "open" /\ AskedOf(u, c) = AskedOf(t, c)
    /\ \E n \in Service!News : Mail(u, c) = Mail(t, c) \o n

(* The command at i is handled; those before it are waiting to exit.       *)
AnsweredOf(t, u, c) ==
    /\ u.conn[c] = "open"
    /\ \E i \in DOMAIN AskedOf(t, c), before, after \in Service!News :
          /\ \A j \in 1..(i - 1) : AskedOf(t, c)[j] = "exit"
          /\ AskedOf(u, c) = SubSeq(AskedOf(t, c), 1, i - 1)
                               \o SubSeq(AskedOf(t, c), i + 1, Len(AskedOf(t, c)))
          /\ Mail(u, c) = Mail(t, c) \o before \o Service!Answer(AskedOf(t, c)[i]) \o after

ServerStep(t, u, S) ==
    /\ u.quit = t.quit
    /\ \A c \in Clients :
          IF t.conn[c] # "open" THEN SameClient(t, u, c)
          ELSE \/ u.conn[c] = "gone"
               \/ IF c \in S THEN AnsweredOf(t, u, c) ELSE NoticedOf(t, u, c)

LEMMA ToldNoticed ==
    ASSUME NEW t, NEW u, NEW c, u.exiting = t.exiting, ToldOf(t, u, c), t.conn[c] = "open"
    PROVE  u.conn[c] = "gone" \/ NoticedOf(t, u, c)
<1>1. ASSUME NEW n \in Service!News, Served(t, u, c, n) PROVE NoticedOf(t, u, c)
  BY <1>1 DEF NoticedOf, AskedOf, Heard, Served, SameInput
<1> QED
  BY <1>1 DEF ToldOf

(* The command k is at i in q, after those that wait to exit, and r is     *)
(* what remains.                                                           *)
IsFirst(k, i, q, r) ==
    /\ i \in DOMAIN q /\ q[i] = k
    /\ \A j \in 1..(i - 1) : q[j] = "exit"
    /\ r = SubSeq(q, 1, i - 1) \o SubSeq(q, i + 1, Len(q))

LEMMA AnsweredAt ==
    ASSUME NEW X \in {<<>>, <<"exit">>}, NEW R \in Seq(Units), NEW k \in Units
    PROVE  \E i : IsFirst(k, i, X \o (<<k>> \o R), X \o R)
<1> DEFINE i == Len(X) + 1
           q == X \o (<<k>> \o R)
<1>1. "exit" \in Units
  BY UnitsType
<1>2. <<k>> \in Seq(Units) /\ <<"exit">> \in Seq(Units) /\ <<>> \in Seq(Units)
  BY <1>1
<1>3. X \in Seq(Units)
  BY <1>2
<1> DEFINE p == <<k>> \o R
<1>0. q = X \o p
  OBVIOUS
<1> HIDE DEF q
<1>4. p \in Seq(Units) /\ Len(p) = Len(R) + 1 /\ p[1] = k
  OBVIOUS
<1>5. \A j \in 1..Len(R) : p[j + 1] = R[j]
  OBVIOUS
<1> HIDE DEF p
<1>6. /\ q \in Seq(Units) /\ Len(q) = Len(X) + Len(p)
      /\ \A j \in 1..Len(X) : q[j] = X[j]
      /\ \A j \in 1..Len(p) : q[Len(X) + j] = p[j]
  <2>1. PICK Y \in Seq(Units), P \in Seq(Units) : Y = X /\ P = p
    BY <1>3, <1>4
  <2>2. /\ Y \o P \in Seq(Units) /\ Len(Y \o P) = Len(Y) + Len(P)
        /\ \A j \in 1..Len(Y) : (Y \o P)[j] = Y[j]
        /\ \A j \in 1..Len(P) : (Y \o P)[Len(Y) + j] = P[j]
    BY ConcatElements
  <2> QED
    BY <1>0, <2>1, <2>2
<1>7. Len(X) \in Nat /\ Len(R) \in Nat /\ DOMAIN q = 1..Len(q)
  BY <1>3, <1>6
<1>8. i \in DOMAIN q /\ q[i] = k
  BY <1>4, <1>6, <1>7
<1>9. \A j \in 1..(i - 1) : q[j] = "exit"
  BY <1>6, <1>7
<1> DEFINE a == SubSeq(q, 1, i - 1)
           b == SubSeq(q, i + 1, Len(q))
<1>10. a \in Seq(Units) /\ Len(a) = Len(X) /\ \A j \in 1..Len(X) : a[j] = X[j]
  BY <1>4, <1>6, <1>7
<1>11. b \in Seq(Units) /\ Len(b) = Len(R) /\ \A j \in 1..Len(R) : b[j] = R[j]
  <2>1. i + 1 \in 1..(Len(q) + 1) /\ Len(q) - (i + 1) + 1 = Len(R)
    BY <1>4, <1>6, <1>7
  <2>2. b \in Seq(Units) /\ Len(b) = Len(R)
    BY <1>6, <1>7, <2>1
  <2>3. ASSUME NEW j \in 1..Len(R) PROVE b[j] = R[j]
    <3>1. b[j] = q[(i + 1) + j - 1]
      BY <1>6, <1>7, <2>1
    <3>2. (i + 1) + j - 1 = Len(X) + (j + 1) /\ j + 1 \in 1..Len(p)
      BY <1>4, <1>7
    <3> QED
      BY <1>5, <1>6, <3>1, <3>2
  <2> QED
    BY <2>2, <2>3
<1>12. a = X
  BY <1>3, <1>10, SeqEqual
<1>13. b = R
  BY <1>11, SeqEqual
<1> QED
  BY <1>8, <1>9, <1>12, <1>13 DEF IsFirst, q

FourConcat(a, b, c, d) == a \o b \o c \o d = a \o (b \o c \o d)

LEMMA FourConcatenated ==
    ASSUME NEW U, NEW a \in Seq(U), NEW b \in Seq(U), NEW c \in Seq(U), NEW d \in Seq(U)
    PROVE  FourConcat(a, b, c, d)
<1>1. PICK x \in Seq(U) : x = b \o c
  BY ConcatProperties
<1>2. PICK y \in Seq(U) : y = a \o b
  BY ConcatProperties
<1>3. (a \o x) \o d = a \o (x \o d)
  BY SMTT(20), ConcatAssociative
<1>4. a \o x = y \o c
  BY SMTT(20), <1>1, <1>2, ConcatAssociative
<1> QED
  BY <1>1, <1>2, <1>3, <1>4 DEF FourConcat

(* At most one command is handled in a step.                               *)
OneServed(t, u) == \E S \in SUBSET Clients : Cardinality(S) <= 1 /\ ServerStep(t, u, S)

LEMMA FewServed ==
    /\ Cardinality({}) <= 1
    /\ \A c : Cardinality({c}) <= 1
BY FS_EmptySet, FS_Singleton

LEMMA HandledStep ==
    ASSUME NEW t \in States, NEW v \in States, NEW u, NEW c \in Clients, t.conn[c] = "open",
           SameButInput(t, v, c), NEW k \in Types, Handled(v, u, c, k),
           Chosen(Heard(t, c), Types) = <<k>> \o Chosen(Heard(v, c), Types),
           k = "exit" => t.exiting = NIL
    PROVE  OneServed(t, u)
<1>1. /\ v.conn = t.conn /\ v.wire = t.wire /\ v.out = t.out
      /\ v.exiting = t.exiting /\ v.quit = t.quit
  BY DEF SameButInput, SameServer
<1>2. \A d \in Clients \ {c} : SameClient(t, v, d)
  BY DEF SameButInput, SameClient, SameInput
<1>3. NIL \notin Clients
  BY IpcAssumption
<1>4. ASSUME NEW d \in Clients \ {c}
      PROVE  IF t.conn[d] # "open" THEN SameClient(t, u, d)
             ELSE u.conn[d] = "gone" \/ NoticedOf(t, u, d)
  <2>1. ToldOf(v, u, d) /\ SameClient(t, v, d)
    BY <1>2 DEF Handled
  <2>2. CASE t.conn[d] # "open"
    <3>1. SameClient(v, u, d)
      BY <1>1, <2>1, <2>2 DEF ToldOf
    <3> QED
      BY <2>1, <2>2, <3>1, SameThen
  <2>3. ASSUME t.conn[d] = "open", NEW n \in Service!News, Served(v, u, d, n)
        PROVE  NoticedOf(t, u, d)
    <3>1. Heard(u, d) = Heard(t, d) /\ u.conn[d] = "open"
      BY <1>1, <2>1, <2>3 DEF Heard, Served, SameInput, SameClient
    <3>2. u.exiting = d <=> t.exiting = d
      BY <1>1, <1>3 DEF Handled
    <3>3. Mail(u, d) = Mail(t, d) \o n
      BY <1>1, <2>3 DEF Served, Mail
    <3> QED
      BY <3>1, <3>2, <3>3 DEF NoticedOf, AskedOf
  <2> QED
    BY <1>1, <2>1, <2>2, <2>3 DEF ToldOf
<1>5. u.quit = t.quit
  BY <1>1 DEF Handled
<1>6. Mail(v, c) = Mail(t, c)
  BY <1>1 DEF Mail
<1>7. PICK R \in Seq(Units) : R = Chosen(Heard(v, c), Types)
  BY HeardType, ChosenType
<1>8. CASE k = "exit"
  <2>1. ToldOf(v, u, c) /\ u.exiting = c
    BY <1>8 DEF Handled
  <2>2. ASSUME NEW n \in Service!News, Served(v, u, c, n) PROVE NoticedOf(t, u, c)
    <3>1. Heard(u, c) = Heard(v, c) /\ u.conn[c] = "open"
      BY <1>1, <2>2 DEF Heard, Served, SameInput
    <3>2. AskedOf(u, c) = <<"exit">> \o R
      BY <1>7, <2>1, <3>1 DEF AskedOf
    <3>3. t.exiting # c
      BY <1>3, <1>8
    <3>4. AskedOf(t, c) = <<>> \o (<<"exit">> \o R)
      BY <1>7, <1>8, <3>3 DEF AskedOf
    <3>5. <<>> \o (<<"exit">> \o R) = <<"exit">> \o R
      <4>1. "exit" \in Units
        BY UnitsType
      <4>2. PICK p \in Seq(Units) : p = <<"exit">>
        <5>1. <<"exit">> \in Seq(Units)
          BY <4>1
        <5> QED
          BY <5>1
      <4>3. PICK q \in Seq(Units) : q = p \o R
        BY ConcatProperties
      <4>4. <<>> \o q = q
        BY ConcatEmptySeq
      <4> QED
        BY <4>2, <4>3, <4>4
    <3>6. Mail(u, c) = Mail(t, c) \o n
      BY <1>6, <2>2 DEF Served
    <3> QED
      BY <3>1, <3>2, <3>4, <3>5, <3>6 DEF NoticedOf
  <2>3. u.conn[c] = "gone" \/ NoticedOf(t, u, c)
    BY <1>1, <2>1, <2>2 DEF ToldOf
  <2>4. ServerStep(t, u, {})
    BY <1>4, <1>5, <2>3 DEF ServerStep
  <2> QED
    BY <2>4, FewServed DEF OneServed
<1>9. CASE k # "exit"
  <2>1. AnswerTo(v, u, c, k) /\ u.exiting = t.exiting
    BY <1>1, <1>9 DEF Handled
  <2>2. ASSUME NEW before \in Service!News, NEW after \in Service!News,
               Served(v, u, c, before \o Service!Answer(k) \o after)
        PROVE  AnsweredOf(t, u, c)
    <3>0. PICK X \in {<<>>, <<"exit">>} : X = IF t.exiting = c THEN <<"exit">> ELSE <<>>
      OBVIOUS
    <3>1. Heard(u, c) = Heard(v, c) /\ u.conn[c] = "open"
      BY <1>1, <2>2 DEF Heard, Served, SameInput
    <3>2. AskedOf(t, c) = X \o (<<k>> \o R) /\ AskedOf(u, c) = X \o R
      BY <1>7, <2>1, <3>0, <3>1 DEF AskedOf
    <3>3. k \in Units
      BY UnitsType
    <3>4. PICK i : IsFirst(k, i, AskedOf(t, c), AskedOf(u, c))
      BY <3>2, <3>3, AnsweredAt
    <3>5. Mail(u, c) = Mail(t, c) \o before \o Service!Answer(k) \o after
      <4>1. /\ Mail(t, c) \in Seq(Buffered)
            /\ before \in Seq(Buffered) /\ after \in Seq(Buffered)
        BY MailType, NewsType, SeqMonotonic DEF Buffered
      <4>2. Service!Answer(k) \in Seq(Buffered)
        <5>1. CASE k \in Known
          <6>1. PICK m \in Buffered : m = <<"reply", k>>
            BY <5>1 DEF Buffered, Messages
          <6>2. <<m>> \in Seq(Buffered)
            OBVIOUS
          <6> QED
            BY <5>1, <6>1, <6>2 DEF Service!Answer
        <5>2. CASE k \notin Known
          BY <5>2 DEF Service!Answer
        <5> QED
          BY <5>1, <5>2
      <4>3. Mail(u, c) = Mail(t, c) \o (before \o Service!Answer(k) \o after)
        BY <1>6, <2>2 DEF Served
      <4>4. PICK m \in Seq(Buffered) : m = Mail(t, c)
        BY <4>1
      <4>5. PICK x \in Seq(Buffered) : x = Service!Answer(k)
        BY <4>2
      <4>6. PICK y \in Seq(Buffered), z \in Seq(Buffered) : y = before /\ z = after
        BY <4>1
      <4>7. FourConcat(m, y, x, z)
        BY FourConcatenated
      <4> QED
        BY <4>3, <4>4, <4>5, <4>6, <4>7 DEF FourConcat
    <3> QED
      BY <3>1, <3>4, <3>5 DEF AnsweredOf, IsFirst
  <2>3. u.conn[c] = "gone" \/ AnsweredOf(t, u, c)
    BY <2>1, <2>2 DEF AnswerTo
  <2>4. ServerStep(t, u, {c})
    BY <1>4, <1>5, <2>3 DEF ServerStep
  <2> QED
    BY <2>4, FewServed DEF OneServed
<1> QED
  BY <1>8, <1>9

-----------------------------------------------------------------------------
(* A callback for input. *)

LEMMA ConcatPair ==
    ASSUME NEW U, NEW x \in U, NEW y \in U, NEW q \in Seq(U)
    PROVE  <<x, y>> \o q = <<x>> \o (<<y>> \o q)
<1>1. <<x>> \in Seq(U) /\ <<y>> \in Seq(U) /\ <<x, y>> \in Seq(U)
  OBVIOUS
<1>2. PICK p \in Seq(U) : p = <<x>>
  BY <1>1
<1>3. PICK r \in Seq(U) : r = <<y>>
  BY <1>1
<1>4. PICK z \in Seq(U) : z = <<x, y>>
  BY <1>1
<1>5. p \o r = z
  <2>1. PICK w \in Seq(U) : w = p \o r
    BY ConcatElements
  <2>2. /\ Len(w) = Len(p) + Len(r)
        /\ \A j \in 1..Len(p) : w[j] = p[j]
        /\ \A j \in 1..Len(r) : w[Len(p) + j] = r[j]
    BY <2>1, ConcatElements
  <2>3. Len(p) = 1 /\ Len(r) = 1 /\ p[1] = x /\ r[1] = y
    BY <1>2, <1>3
  <2>4. Len(w) = 2 /\ w[1] = x /\ w[2] = y
    BY <2>2, <2>3
  <2>5. Len(z) = 2 /\ z[1] = x /\ z[2] = y
    BY <1>4
  <2>6. \A i \in 1..Len(w) : w[i] = z[i]
    BY <2>4, <2>5
  <2>7. w = z
    BY <2>4, <2>5, <2>6, SeqEqual
  <2> QED
    BY <2>1, <2>7
<1>6. (p \o r) \o q = p \o (r \o q)
  BY ConcatAssociative
<1> QED
  BY <1>2, <1>3, <1>4, <1>5, <1>6

LEMMA ThirdAppended ==
    ASSUME NEW U, NEW x \in U, NEW y \in U, NEW z \in U
    PROVE  Append(<<x, y>>, z) = <<x, y, z>>
<1>1. PICK q \in Seq(U) : q = <<x, y>>
  <2>1. <<x, y>> \in Seq(U)
    OBVIOUS
  <2> QED
    BY <2>1
<1>2. PICK p \in Seq(U) : p = <<x, y, z>>
  <2>1. <<x, y, z>> \in Seq(U)
    OBVIOUS
  <2> QED
    BY <2>1
<1> DEFINE r == Append(q, z)
<1>3. /\ r \in Seq(U) /\ Len(r) = Len(q) + 1
      /\ \A i \in 1..Len(q) : r[i] = q[i]
      /\ r[Len(q) + 1] = z
  BY AppendProperties
<1> HIDE DEF r
<1>4. Len(q) = 2 /\ q[1] = x /\ q[2] = y
  BY <1>1
<1>5. Len(r) = 3 /\ r[1] = x /\ r[2] = y /\ r[3] = z
  BY <1>3, <1>4
<1>6. Len(p) = 3 /\ p[1] = x /\ p[2] = y /\ p[3] = z
  BY <1>2
<1>7. \A i \in 1..Len(r) : r[i] = p[i]
  BY <1>5, <1>6
<1>8. r = p
  BY <1>3, <1>5, <1>6, <1>7, SeqEqual
<1> QED
  BY <1>1, <1>2, <1>8 DEF r

LEMMA FirstAndRest ==
    ASSUME NEW U, NEW q \in Seq(U), q # <<>>
    PROVE  /\ q[1] \in U /\ Tail(q) \in Seq(U)
           /\ q = <<q[1]>> \o Tail(q)
<1>1. Head(q) \in U /\ Tail(q) \in Seq(U) /\ Len(Tail(q)) = Len(q) - 1
      /\ \A i \in 1..Len(Tail(q)) : Tail(q)[i] = q[i + 1]
  BY HeadTailProperties
<1>2. PICK r \in Seq(U) : r = Tail(q)
  BY <1>1
<1>3. q[1] \in U /\ <<q[1]>> \in Seq(U)
  OBVIOUS
<1>4. PICK p \in Seq(U) : p = <<q[1]>>
  BY <1>3
<1>5. PICK w \in Seq(U) : w = p \o r
  BY ConcatElements
<1>6. /\ Len(w) = Len(p) + Len(r)
      /\ \A j \in 1..Len(p) : w[j] = p[j]
      /\ \A j \in 1..Len(r) : w[Len(p) + j] = r[j]
  BY <1>5, ConcatElements
<1>7. Len(p) = 1 /\ p[1] = q[1] /\ Len(r) = Len(q) - 1 /\ Len(q) \in Nat /\ Len(r) \in Nat
  BY <1>1, <1>2, <1>4
<1>8. Len(w) = Len(q) /\ w[1] = q[1]
  BY <1>6, <1>7
<1>9. ASSUME NEW i \in 1..Len(q) PROVE w[i] = q[i]
  <2>1. CASE i = 1
    BY <1>8, <2>1
  <2>2. CASE i # 1
    <3>1. i - 1 \in 1..Len(r) /\ (i - 1) + 1 = i /\ Len(p) + (i - 1) = i
      BY <1>7, <2>2
    <3>2. w[Len(p) + (i - 1)] = r[i - 1]
      BY <1>6, <3>1
    <3>3. r[i - 1] = q[(i - 1) + 1]
      BY <1>1, <1>2, <3>1
    <3> QED
      BY <3>1, <3>2, <3>3
  <2> QED
    BY <2>1, <2>2
<1>10. w = q
  BY <1>8, <1>9, SeqEqual
<1> QED
  BY <1>1, <1>2, <1>3, <1>4, <1>5, <1>10

LEMMA TwoAndRest ==
    ASSUME NEW U, NEW q \in Seq(U), Len(q) >= 2
    PROVE  /\ q[1] \in U /\ q[2] \in U /\ SubSeq(q, 3, Len(q)) \in Seq(U)
           /\ q = <<q[1], q[2]>> \o SubSeq(q, 3, Len(q))
<1>1. q # <<>>
  OBVIOUS
<1>2. q[1] \in U /\ Tail(q) \in Seq(U) /\ q = <<q[1]>> \o Tail(q)
  BY <1>1, FirstAndRest
<1>3. PICK p \in Seq(U) : p = Tail(q)
  BY <1>2
<1>4. Len(p) = Len(q) - 1 /\ \A i \in 1..Len(p) : p[i] = q[i + 1]
  BY <1>1, <1>3, HeadTailProperties
<1>5. p # <<>> /\ p[1] = q[2]
  BY <1>4
<1>6. p[1] \in U /\ Tail(p) \in Seq(U) /\ p = <<p[1]>> \o Tail(p)
  BY <1>5, FirstAndRest
<1>7. PICK r \in Seq(U) : r = Tail(p)
  BY <1>6
<1>8. Len(r) = Len(p) - 1 /\ \A i \in 1..Len(r) : r[i] = p[i + 1]
  BY <1>5, <1>7, HeadTailProperties
<1> DEFINE rest == SubSeq(q, 3, Len(q))
<1>0. /\ rest \in Seq(U) /\ Len(rest) = Len(q) - 2
      /\ \A i \in 1..Len(rest) : rest[i] = q[3 + i - 1]
  <2>1. 3 \in 1..(Len(q) + 1) /\ Len(q) \in 2..Len(q) /\ Len(q) - 3 + 1 = Len(q) - 2
    OBVIOUS
  <2> QED
    BY <2>1, SubSeqProperties
<1> HIDE DEF rest
<1>9. PICK x \in Seq(U) : x = rest
  BY <1>0
<1>10. Len(x) = Len(q) - 2 /\ \A i \in 1..Len(x) : x[i] = q[i + 2]
  <2>1. \A i \in 1..Len(x) : x[i] = q[3 + i - 1] /\ 3 + i - 1 = i + 2
    BY <1>0, <1>9
  <2> QED
    BY <1>0, <1>9, <2>1
<1>11. \A i \in 1..Len(r) : r[i] = x[i]
  <2> SUFFICES ASSUME NEW i \in 1..Len(r) PROVE r[i] = x[i]
    OBVIOUS
  <2>1. Len(r) = Len(q) - 2 /\ Len(q) \in Nat
    BY <1>4, <1>8
  <2>2. i + 1 \in 1..Len(p) /\ i \in 1..Len(x) /\ (i + 1) + 1 = i + 2
    BY <1>4, <1>8, <1>10, <2>1
  <2>3. r[i] = p[i + 1] /\ p[i + 1] = q[(i + 1) + 1] /\ x[i] = q[i + 2]
    BY <1>4, <1>8, <1>10, <2>2
  <2> QED
    BY <2>2, <2>3
<1>12. r = x
  <2>1. Len(r) = Len(x)
    BY <1>4, <1>8, <1>10
  <2> QED
    BY <1>11, <2>1, SeqEqual
<1>13. PICK a \in U, b \in U : a = q[1] /\ b = q[2]
  BY <1>2, <1>5, <1>6
<1>14. <<a, b>> \o x = <<a>> \o (<<b>> \o x)
  BY SMTT(20), ConcatPair
<1> QED
  BY <1>2, <1>3, <1>5, <1>6, <1>7, <1>9, <1>12, <1>13, <1>14 DEF rest

(* The units a command is read from, at once or after its header.          *)
Reading(k) == {<<k, "body">>, <<"magic", k, "body">>, <<"magic", k>>}

LEMMA ReadingSplit ==
    ASSUME NEW k \in Types
    PROVE  <<"magic", k>> \o <<"body">> = <<"magic", k, "body">>
<1>1. k \in Units /\ "body" \in Units /\ "magic" \in Units
  BY DEF Units, Types, Known, Unknown, WithBody, Queries
<1>2. <<"magic", k>> \in Seq(Units)
  BY <1>1
<1>3. PICK p \in Seq(Units) : p = <<"magic", k>>
  BY <1>2
<1>4. Append(p, "body") = p \o <<"body">>
  BY <1>1, AppendIsConcat
<1>5. Append(<<"magic", k>>, "body") = <<"magic", k, "body">>
  BY <1>1, ThirdAppended
<1> QED
  BY <1>3, <1>4, <1>5

LEMMA ReadingWhole ==
    ASSUME NEW k \in Types, NEW r \in Seq(Units)
    PROVE  <<"magic", k>> \o (<<"body">> \o r) = <<"magic", k, "body">> \o r
<1>1. k \in Units /\ "magic" \in Units /\ "body" \in Units
  BY UnitsType DEF Units
<1>2. <<"magic", k>> \in Seq(Units) /\ <<"body">> \in Seq(Units)
  BY <1>1
<1>3. PICK h \in Seq(Units), b \in Seq(Units) : h = <<"magic", k>> /\ b = <<"body">>
  BY <1>2
<1>4. (h \o b) \o r = h \o (b \o r)
  BY ConcatAssociative
<1>5. h \o b = <<"magic", k, "body">>
  BY <1>3, ReadingSplit
<1> QED
  BY <1>3, <1>4, <1>5

LEMMA ReadingType ==
    ASSUME NEW k \in Types, NEW p \in Reading(k)
    PROVE  /\ p \in Seq(Units) /\ Chosen(p, Types) = <<k>> /\ Len(p) >= 1
           /\ \E i \in 1..Len(p) : p[i] = k
<1>1. /\ k \in Units /\ "body" \in Units /\ "magic" \in Units
      /\ "body" \notin Types /\ "magic" \notin Types
  BY DEF Units, Types, Known, Unknown, WithBody, Queries
<1>2. <<k, "body">> \in Seq(Units) /\ <<"magic", k>> \in Seq(Units)
      /\ <<"magic">> \in Seq(Units) /\ <<k>> \in Seq(Units)
  BY <1>1
<1>3. <<k>> \o <<>> = <<k>> /\ <<>> \o <<k>> = <<k>>
  OBVIOUS
<1>4. Chosen(<<k, "body">>, Types) = <<k>> \o <<>>
  BY <1>1, ChosenTwo
<1>5. Chosen(<<"magic", k>>, Types) = <<>> \o <<k>>
  BY <1>1, ChosenTwo
<1>6. CASE p = <<k, "body">>
  BY <1>2, <1>3, <1>4, <1>6
<1>7. CASE p = <<"magic", k>>
  BY <1>2, <1>3, <1>5, <1>7
<1>8. CASE p = <<"magic", k, "body">>
  <2>1. p \in Seq(Units) /\ Len(p) = 3 /\ p[2] = k
    BY <1>1, <1>8
  <2>2. PICK q \in Seq(Units) : q = <<"magic", k>>
    BY <1>2
  <2>3. Append(q, "body") = p
    BY <1>1, <1>8, <2>2, ThirdAppended
  <2>4. Chosen(Append(q, "body"), Types) = Chosen(q, Types)
    BY <1>1, ChosenAppend
  <2>5. Chosen(p, Types) = <<k>>
    BY <1>3, <1>5, <2>2, <2>3, <2>4
  <2>6. Len(p) >= 1 /\ \E i \in 1..Len(p) : p[i] = k
    BY <2>1
  <2> QED
    BY <2>1, <2>5, <2>6
<1> QED
  BY <1>6, <1>7, <1>8 DEF Reading

LEMMA TypesChosen ==
    \A p, r \in Seq(Units) : Chosen(p \o r, Types) = Chosen(p, Types) \o Chosen(r, Types)
BY ChosenConcat

LEMMA CommandRead ==
    ASSUME NEW t, Inv(t), NEW c \in Clients, t.conn[c] = "open", c \notin t.quit,
           NEW v \in States, SameButInput(t, v, c), v.pending[c] = NIL, v.todo[c] = t.todo[c],
           NEW k \in Types, NEW p \in Reading(k), p[Len(p)] \in Ends,
           Heard(t, c) = p \o v.inbox[c], NEW u \in HandleCommand(v, c, k)
    PROVE  Inv(u) /\ OneServed(t, u)
<1>1. t \in States
  BY DEF Inv
<1>2. PICK z \in Seq(Units) : z = p /\ Len(z) >= 1
  BY ReadingType
<1>3. PICK r \in Seq(Units) : r = v.inbox[c]
  BY HeardType
<1>4. PICK o \in Seq(Units) : o = t.todo[c]
  BY <1>1, HeardType
<1>5. Heard(v, c) = r
  <2>1. <<>> \o r = r
    BY ConcatEmptySeq
  <2> QED
    BY <1>3, <2>1 DEF Heard
<1>6. PICK rest \in Seq(Units) : rest = r \o o
  BY ConcatElements
<1>7. Stream(v, c) = rest
  BY <1>4, <1>5, <1>6 DEF Stream
<1>8. Stream(t, c) = z \o rest
  <2>1. (z \o r) \o o = z \o (r \o o)
    BY SMTT(20), ConcatAssociative
  <2> QED
    BY <1>2, <1>3, <1>4, <1>6, <2>1 DEF Stream
<1>9. PICK all \in Seq(Units) : all = Stream(t, c)
  BY <1>1, HeardType
<1>10. /\ Len(all) = Len(z) + Len(rest)
       /\ \A j \in 1..Len(z) : all[j] = z[j]
       /\ \A j \in 1..Len(rest) : all[Len(z) + j] = rest[j]
  BY <1>8, <1>9, ConcatElements
<1>11. Shorter(Stream(t, c), Stream(v, c), Len(z))
  BY <1>7, <1>9, <1>10 DEF Shorter
<1>12. Stream(v, c) = <<>> \/ Stream(v, c)[1] \in Starts
  <2>1. SUFFICES ASSUME rest # <<>> PROVE rest[1] \in Starts
    BY <1>7
  <2>2. Len(rest) \in Nat /\ Len(rest) >= 1
    BY <2>1
  <2>3. Len(z) \in 1..Len(all) /\ Len(z) < Len(all) /\ all[Len(z)] = z[Len(z)]
    <3>1. Len(z) \in 1..Len(z) /\ Len(z) \in Nat
      BY <1>2
    <3> QED
      BY <1>10, <2>2, <3>1
  <2>4. Grammatical(all)
    BY <1>9 DEF Inv, WellFormed
  <2>5. all[Len(z) + 1] \in Starts
    BY <1>2, <2>3, <2>4 DEF Grammatical
  <2> QED
    BY <1>10, <2>2, <2>5
<1>13. /\ Inv(v)
       /\ \A i \in 1..Len(z) : ExitAt(t, c, i) =>
             v.exiting = NIL /\ \A d \in Clients : \A j \in Nat : ~ ExitAt(v, d, j)
  BY <1>11, <1>12, PoppedInv
<1>14. v.conn[c] = "open" /\ v.exiting = t.exiting
  BY DEF SameButInput, SameServer
<1>15. k = "exit" => t.exiting = NIL /\ \A d \in Clients : \A j \in Nat : ~ ExitAt(v, d, j)
  <2>1. PICK i \in 1..Len(z) : z[i] = k
    BY <1>2, ReadingType
  <2>2. i \in 1..Len(all) /\ all[i] = k
    BY <1>2, <1>10, <2>1
  <2>3. k = "exit" => ExitAt(t, c, i)
    BY <1>9, <2>2 DEF ExitAt
  <2> QED
    BY <1>13, <1>14, <2>1, <2>3
<1>16. Handled(v, u, c, k)
  BY <1>13, <1>14, <1>15, HandleCommandInv
<1>17. Chosen(Heard(t, c), Types) = <<k>> \o Chosen(Heard(v, c), Types)
  <2>1. Chosen(z \o r, Types) = Chosen(z, Types) \o Chosen(r, Types)
    BY TypesChosen
  <2> QED
    BY <1>2, <1>3, <1>5, <2>1, ReadingType
<1>18. OneServed(t, u)
  BY <1>1, <1>15, <1>16, <1>17, HandledStep
<1> QED
  BY <1>16, <1>18 DEF Handled

(* Nothing is handled: each client is told something, or is removed.       *)
LEMMA NoneServed ==
    ASSUME NEW t, NEW u, u.quit = t.quit, u.exiting = t.exiting,
           \A c \in Clients : ToldOf(t, u, c)
    PROVE  OneServed(t, u)
<1>1. \A c \in Clients : IF t.conn[c] # "open" THEN SameClient(t, u, c)
                         ELSE u.conn[c] = "gone" \/ NoticedOf(t, u, c)
  <2> SUFFICES ASSUME NEW c \in Clients
               PROVE  IF t.conn[c] # "open" THEN SameClient(t, u, c)
                      ELSE u.conn[c] = "gone" \/ NoticedOf(t, u, c)
    OBVIOUS
  <2>1. CASE t.conn[c] # "open"
    BY <2>1 DEF ToldOf
  <2>2. CASE t.conn[c] = "open"
    BY <2>2, ToldNoticed
  <2> QED
    BY <2>1, <2>2
<1>2. ServerStep(t, u, {})
  BY <1>1 DEF ServerStep
<1> QED
  BY <1>2, FewServed DEF OneServed

LEMMA DisconnectStep ==
    ASSUME NEW t, Inv(t), NEW c \in Clients, t.conn[c] = "open"
    PROVE  Inv(Disconnect(t, c)) /\ OneServed(t, Disconnect(t, c))
<1> DEFINE u == Disconnect(t, c)
<1>1. /\ Inv(u) /\ SameServer(t, u) /\ u.conn[c] = "gone" /\ t \in States
      /\ \A d \in Clients \ {c} : SameClient(t, u, d)
  BY DisconnectInv DEF Inv
<1> HIDE DEF u
<1>2. ASSUME NEW d \in Clients PROVE ToldOf(t, u, d)
  <2>1. CASE d = c
    BY <1>1, <2>1 DEF ToldOf
  <2>2. CASE d # c
    BY <1>1, <2>2, SameMail
  <2> QED
    BY <2>1, <2>2
<1>3. OneServed(t, u)
  BY <1>1, <1>2, NoneServed DEF SameServer
<1> QED
  BY <1>1, <1>3 DEF u

LEMMA SelfStep ==
    ASSUME NEW t \in States
    PROVE  OneServed(t, t)
BY SelfTold, NoneServed

(* What is left in the inbox of c is r, and the command k waits.           *)
WithInput(t, c, r, k) == [t EXCEPT !.inbox[c] = r, !.pending[c] = k]

LEMMA InputChanged ==
    ASSUME NEW t \in States, NEW c \in Clients, NEW r \in Seq(Units), NEW k \in Types \cup {NIL}
    PROVE  LET v == WithInput(t, c, r, k)
           IN  /\ v \in States /\ SameButInput(t, v, c) /\ v.pending[c] = k
               /\ v.todo[c] = t.todo[c] /\ v.inbox[c] = r
<1> DEFINE v == WithInput(t, c, r, k)
<1>0. v = [t EXCEPT !.inbox[c] = r, !.pending[c] = k]
  BY DEF WithInput
<1> HIDE DEF v
<1>1. v \in States
  BY <1>0 DEF States
<1>2. /\ SameServer(t, v) /\ v.list = t.list /\ v.batch = t.batch /\ v.crash = t.crash
      /\ v.conn = t.conn /\ v.wire = t.wire /\ v.out = t.out /\ v.todo = t.todo
      /\ v.subs = t.subs /\ v.size = t.size
      /\ v.inbox = [t.inbox EXCEPT ![c] = r] /\ v.pending = [t.pending EXCEPT ![c] = k]
  BY <1>0 DEF States, SameServer
<1>3. v.inbox[c] = r /\ v.pending[c] = k
      /\ \A d \in Clients \ {c} : v.inbox[d] = t.inbox[d] /\ v.pending[d] = t.pending[d]
  BY <1>2 DEF States
<1>4. SameButInput(t, v, c)
  BY <1>2, <1>3 DEF SameButInput, SameInput
<1> QED
  BY <1>1, <1>2, <1>3, <1>4 DEF v

LEMMA InputTaken ==
    ASSUME NEW t \in States, NEW c \in Clients, NEW r \in Seq(Units)
    PROVE  LET v == WithInput(t, c, r, NIL)
           IN  /\ v \in States /\ SameButInput(t, v, c) /\ v.pending[c] = NIL
               /\ v.todo[c] = t.todo[c] /\ v.inbox[c] = r
<1>1. NIL \in Types \cup {NIL}
  OBVIOUS
<1> QED
  BY <1>1, InputChanged

LEMMA SameButInputThen ==
    ASSUME NEW t, NEW u, NEW v, NEW c, SameButInput(t, u, c), SameButInput(u, v, c)
    PROVE  SameButInput(t, v, c)
BY DEF SameButInput, SameInput, SameServer

(* A command whose header was read before.                                 *)
LEMMA PayloadStep ==
    ASSUME NEW t, Inv(t), NEW c \in Clients, t.conn[c] = "open", c \notin t.quit,
           t.pending[c] # NIL, NEW u \in Payload(t, c)
    PROVE  Inv(u) /\ OneServed(t, u)
<1>1. t \in States
  BY DEF Inv
<1>2. CASE t.inbox[c] = <<>>
  <2>1. u = t
    BY <1>2 DEF Payload
  <2> QED
    BY <1>1, <2>1, SelfStep
<1>3. CASE t.inbox[c] # <<>>
  <2> DEFINE k == t.pending[c]
             in == t.inbox[c]
             v == WithInput(t, c, Tail(in), NIL)
  <2>1. k \in WithBody /\ k \in Types
    BY UnitsType DEF Inv, WellFormed
  <2>2. in \in Seq(Units) /\ t.todo[c] \in Seq(Units)
    BY <1>1, HeardType
  <2>3. in[1] \in Units /\ Tail(in) \in Seq(Units) /\ in = <<in[1]>> \o Tail(in)
    BY <1>3, <2>2, FirstAndRest
  <2>4. u \in HandleCommand(v, c, k)
    <3>1. v = [t EXCEPT !.inbox[c] = Tail(@), !.pending[c] = NIL]
      BY <1>1 DEF States, WithInput
    <3> QED
      BY <1>3, <3>1 DEF Payload
  <2>5. /\ v \in States /\ SameButInput(t, v, c) /\ v.pending[c] = NIL
        /\ v.todo[c] = t.todo[c] /\ v.inbox[c] = Tail(in)
    <3>1. PICK r \in Seq(Units) : r = Tail(in)
      BY <2>3
    <3>2. /\ WithInput(t, c, r, NIL) \in States /\ SameButInput(t, WithInput(t, c, r, NIL), c)
          /\ WithInput(t, c, r, NIL).pending[c] = NIL
          /\ WithInput(t, c, r, NIL).todo[c] = t.todo[c] /\ WithInput(t, c, r, NIL).inbox[c] = r
      BY <1>1, InputTaken
    <3> QED
      BY <3>1, <3>2
  <2>6. in[1] = "body"
    <3>1. PICK i \in Seq(Units) : i = in
      BY <2>2
    <3>2. PICK o \in Seq(Units) : o = t.todo[c]
      BY <2>2
    <3>3. k \in Units
      BY <2>1, UnitsType
    <3>4. PICK p \in Seq(Units) : p = <<k>>
      <4>1. <<k>> \in Seq(Units)
        BY <3>3
      <4> QED
        BY <4>1
    <3>5. PICK h \in Seq(Units) : h = p \o i
      BY ConcatElements
    <3>6. PICK all \in Seq(Units) : all = h \o o
      BY ConcatElements
    <3>7. all = Stream(t, c)
      BY <3>1, <3>2, <3>4, <3>5, <3>6 DEF Stream, Heard
    <3>8. /\ Len(h) = Len(p) + Len(i)
          /\ \A j \in 1..Len(p) : h[j] = p[j]
          /\ \A j \in 1..Len(i) : h[Len(p) + j] = i[j]
      BY <3>5, ConcatElements
    <3>9. /\ Len(all) = Len(h) + Len(o)
          /\ \A j \in 1..Len(h) : all[j] = h[j]
      BY <3>6, ConcatElements
    <3>10. Len(p) = 1 /\ p[1] = k /\ Len(i) \in Nat /\ Len(i) >= 1 /\ Len(o) \in Nat
      BY <1>3, <3>1, <3>4
    <3>11. 1 \in 1..Len(h) /\ 2 \in 1..Len(h) /\ h[1] = k /\ h[1 + 1] = i[1]
      BY <3>8, <3>10
    <3>12. 1 \in 1..Len(all) /\ all[1] = k /\ all[2] = i[1]
      BY <3>9, <3>10, <3>11
    <3>13. Grammatical(all)
      BY <3>7 DEF Inv, WellFormed
    <3>14. all[1 + 1] = "body"
      BY <2>1, <3>12, <3>13 DEF Grammatical
    <3> QED
      BY <3>1, <3>12, <3>14
  <2>7. /\ <<k, "body">> \in Reading(k) /\ Len(<<k, "body">>) = 2
        /\ <<k, "body">>[2] = "body" /\ "body" \in Ends
    BY DEF Reading, Ends
  <2>8. Heard(t, c) = <<k, "body">> \o Tail(in)
    <3>1. PICK x \in Units : x = k
      BY <2>1, UnitsType
    <3>2. PICK y \in Units : y = "body"
      BY <2>3, <2>6
    <3>3. PICK r \in Seq(Units) : r = Tail(in)
      BY <2>3
    <3>4. <<x, y>> \o r = <<x>> \o (<<y>> \o r)
      BY ConcatPair
    <3>5. in = <<y>> \o r
      BY <2>3, <2>6, <3>2, <3>3
    <3> QED
      BY <3>1, <3>2, <3>3, <3>4, <3>5 DEF Heard
  <2> HIDE DEF v, in, k
  <2>9. PICK p \in Reading(k) : p = <<k, "body">> /\ p[Len(p)] \in Ends
    BY <2>7
  <2>10. Heard(t, c) = p \o v.inbox[c]
    BY <2>5, <2>8, <2>9
  <2> QED
    BY <2>1, <2>4, <2>5, <2>9, <2>10, CommandRead
<1> QED
  BY <1>2, <1>3

LEMMA HeaderStep ==
    ASSUME NEW t, Inv(t), NEW c \in Clients, t.conn[c] = "open", c \notin t.quit,
           t.pending[c] = NIL, NEW u \in Header(t, c)
    PROVE  Inv(u) /\ OneServed(t, u)
<1> DEFINE in == t.inbox[c]
           k == in[2]
           rest == SubSeq(in, 3, Len(in))
           v == WithInput(t, c, rest, k)
<1>1. t \in States /\ NIL \notin Types
  BY UnitsType DEF Inv
<1>2. in \in Seq(Units) /\ t.todo[c] \in Seq(Units) /\ Len(in) \in Nat
  BY <1>1, HeardType
<1>3. v = [t EXCEPT !.inbox[c] = SubSeq(@, 3, Len(@)), !.pending[c] = in[2]]
  BY <1>1 DEF States, WithInput
<1>4. CASE Len(in) < 2
  <2>1. u = t
    BY <1>4 DEF Header
  <2> QED
    BY <1>1, <2>1, SelfStep
<1>5. CASE Len(in) >= 2 /\ in[1] # "magic"
  <2>1. u = Disconnect(t, c)
    BY <1>2, <1>5 DEF Header
  <2> QED
    BY <2>1, DisconnectStep
<1>6. CASE Len(in) >= 2 /\ in[1] = "magic"
  <2>1. /\ k \in Units /\ rest \in Seq(Units) /\ in = <<"magic", k>> \o rest
        /\ "magic" \in Units
    <3>1. PICK q \in Seq(Units) : q = in
      BY <1>2
    <3>2. /\ q[1] \in Units /\ q[2] \in Units /\ SubSeq(q, 3, Len(q)) \in Seq(Units)
          /\ q = <<q[1], q[2]>> \o SubSeq(q, 3, Len(q))
      BY <1>6, <3>1, TwoAndRest
    <3> QED
      BY <1>6, <3>1, <3>2
  <2>2. Heard(t, c) = in
    <3>1. PICK q \in Seq(Units) : q = in
      BY <1>2
    <3>2. <<>> \o q = q
      BY ConcatEmptySeq
    <3> QED
      BY <3>1, <3>2 DEF Heard
  <2>3. PICK i \in Seq(Units) : i = in
    BY <1>2
  <2>4. PICK o \in Seq(Units) : o = t.todo[c]
    BY <1>2
  <2>5. PICK all \in Seq(Units) : all = i \o o
    BY ConcatElements
  <2>6. all = Stream(t, c) /\ Grammatical(all)
    BY <2>2, <2>3, <2>4, <2>5 DEF Stream, Inv, WellFormed
  <2>7. /\ Len(all) = Len(i) + Len(o)
        /\ \A j \in 1..Len(i) : all[j] = i[j]
    BY <2>5, ConcatElements
  <2>8. Len(all) \in Nat /\ Len(i) <= Len(all) /\ Len(i) >= 2 /\ Len(i) \in Nat
    BY <1>6, <2>3, <2>7
  <2>9. 1 \in 1..Len(all) /\ 1 \in 1..Len(i) /\ 2 \in 1..Len(all) /\ 2 \in 1..Len(i)
    BY <2>8
  <2>10. all[1] = "magic" /\ all[2] = k
    BY <1>6, <2>3, <2>7, <2>9
  <2>11. k \in Types
    <3>1. all[1 + 1] \in Types
      BY <2>6, <2>9, <2>10 DEF Grammatical
    <3> QED
      BY <2>10, <3>1
  <2> HIDE DEF in, k, rest, v
  <2>12. /\ v \in States /\ SameButInput(t, v, c) /\ v.pending[c] = k
         /\ v.todo[c] = t.todo[c] /\ v.inbox[c] = rest
    BY <1>1, <2>1, <2>11, InputChanged DEF v
  <2>13. CASE k \in WithBody /\ Len(in) = 2
    <3>1. u = v
      BY <1>3, <1>6, <2>13 DEF Header, in, k
    <3>2. rest = <<>>
      BY <1>2, <2>13, SubSeqEmpty DEF rest
    <3>3. PICK p \in Seq(Units) : p = <<k>>
      <4>1. <<k>> \in Seq(Units)
        BY <2>1
      <4> QED
        BY <4>1
    <3>4. Heard(v, c) = p
      <4>1. p \o <<>> = p
        BY ConcatEmptySeq
      <4> QED
        BY <1>1, <2>11, <2>12, <3>2, <3>3, <4>1 DEF Heard
    <3>5. PICK left \in Seq(Units) : left = p \o o
      BY ConcatElements
    <3>6. left = Stream(v, c)
      BY <2>4, <2>12, <3>4, <3>5 DEF Stream
    <3>7. /\ Len(left) = Len(p) + Len(o)
          /\ \A j \in 1..Len(p) : left[j] = p[j]
          /\ \A j \in 1..Len(o) : left[Len(p) + j] = o[j]
      BY <3>5, ConcatElements
    <3>8. \A j \in 1..Len(o) : all[Len(i) + j] = o[j]
      BY <2>5, ConcatElements
    <3>9. Len(p) = 1 /\ p[1] = k /\ Len(i) = 2 /\ Len(o) \in Nat
      BY <2>3, <2>13, <3>3
    <3>10. Shorter(all, left, 1)
      <4>1. Len(left) = Len(all) - 1
        BY <2>7, <3>7, <3>9
      <4>2. ASSUME NEW j \in 1..Len(left) PROVE left[j] = all[j + 1]
        <5>1. CASE j = 1
          BY <2>10, <3>7, <3>9, <5>1
        <5>2. CASE j # 1
          <6>1. j - 1 \in 1..Len(o) /\ Len(p) + (j - 1) = j /\ Len(i) + (j - 1) = j + 1
            BY <3>7, <3>9, <5>2
          <6>2. left[Len(p) + (j - 1)] = o[j - 1] /\ all[Len(i) + (j - 1)] = o[j - 1]
            BY <3>7, <3>8, <6>1
          <6> QED
            BY <6>1, <6>2
        <5> QED
          BY <5>1, <5>2
      <4> QED
        BY <4>1, <4>2 DEF Shorter
    <3>11. Inv(v)
      BY <1>1, <2>6, <2>11, <2>12, <2>13, <3>6, <3>10, PoppedInv
    <3>12. Chosen(Heard(t, c), Types) = Chosen(Heard(v, c), Types)
      <4>1. PICK h \in Seq(Units) : h = <<"magic", k>>
        <5>1. <<"magic", k>> \in Seq(Units)
          BY <2>1
        <5> QED
          BY <5>1
      <4>2. h \o <<>> = h
        BY ConcatEmptySeq
      <4>3. Heard(t, c) = <<"magic", k>>
        BY <2>1, <2>2, <3>2, <4>1, <4>2
      <4>4. <<"magic", k>> \in Reading(k)
        BY DEF Reading
      <4>5. Chosen(<<"magic", k>>, Types) = <<k>>
        BY <2>11, <4>4, ReadingType
      <4>6. Chosen(<<k>>, Types) = <<k>>
        BY <2>11, ChosenOne
      <4> QED
        BY <3>3, <3>4, <4>3, <4>5, <4>6
    <3>13. v.exiting = t.exiting /\ v.quit = t.quit
      BY <2>12 DEF SameButInput, SameServer
    <3>14. NoticedOf(t, v, c)
      <4>1. AskedOf(v, c) = AskedOf(t, c)
        BY <3>12, <3>13 DEF AskedOf
      <4>2. Mail(v, c) = Mail(t, c) /\ v.conn[c] = "open"
        BY <2>12 DEF SameButInput, Mail
      <4>3. PICK m \in Seq(Buffered) : m = Mail(t, c)
        BY <1>1, MailType
      <4>4. m \o <<>> = m
        BY ConcatEmptySeq
      <4> QED
        BY <4>1, <4>2, <4>3, <4>4, NewsType DEF NoticedOf
    <3>15. ASSUME NEW d \in Clients \ {c}
           PROVE  IF t.conn[d] # "open" THEN SameClient(t, v, d)
                  ELSE v.conn[d] = "gone" \/ NoticedOf(t, v, d)
      <4>1. SameClient(t, v, d)
        BY <2>12 DEF SameButInput, SameInput, SameClient
      <4> QED
        BY <1>1, <3>13, <4>1, SameMail, ToldNoticed
    <3>16. ServerStep(t, v, {})
      BY <3>13, <3>14, <3>15 DEF ServerStep
    <3> QED
      BY <3>1, <3>11, <3>16, FewServed DEF OneServed
  <2>14. CASE k \in WithBody /\ Len(in) # 2
    <3> DEFINE w == WithInput(v, c, Tail(rest), NIL)
    <3>1. rest # <<>>
      <4>1. Len(<<"magic", k>> \o <<>>) = 2
        OBVIOUS
      <4> QED
        BY <2>1, <2>14, <4>1
    <3>2. rest[1] \in Units /\ Tail(rest) \in Seq(Units) /\ rest = <<rest[1]>> \o Tail(rest)
      BY <2>1, <3>1, FirstAndRest
    <3>3. /\ w \in States /\ SameButInput(v, w, c) /\ w.pending[c] = NIL
          /\ w.todo[c] = v.todo[c] /\ w.inbox[c] = Tail(rest)
      <4>1. PICK r \in Seq(Units) : r = Tail(rest)
        BY <3>2
      <4>2. /\ WithInput(v, c, r, NIL) \in States /\ SameButInput(v, WithInput(v, c, r, NIL), c)
            /\ WithInput(v, c, r, NIL).pending[c] = NIL
            /\ WithInput(v, c, r, NIL).todo[c] = v.todo[c]
            /\ WithInput(v, c, r, NIL).inbox[c] = r
        BY <2>12, InputTaken
      <4> QED
        BY <4>1, <4>2
    <3>4. u \in HandleCommand(w, c, k)
      <4>1. u \in Payload(v, c)
        BY <1>2, <1>3, <1>6, <2>14 DEF Header, in, k
      <4>2. w = [v EXCEPT !.inbox[c] = Tail(@), !.pending[c] = NIL]
        BY <2>12 DEF States, WithInput
      <4> QED
        BY <2>12, <3>1, <4>1, <4>2 DEF Payload
    <3> HIDE DEF w
    <3>5. SameButInput(t, w, c) /\ w.todo[c] = t.todo[c]
      BY <2>12, <3>3, SameButInputThen
    <3>6. rest[1] = "body"
      <4>1. PICK h \in Seq(Units) : h = <<"magic", k>>
        <5>1. <<"magic", k>> \in Seq(Units)
          BY <2>1
        <5> QED
          BY <5>1
      <4>2. PICK r \in Seq(Units) : r = rest
        BY <2>1
      <4>3. i = h \o r
        BY <2>1, <2>3, <4>1, <4>2
      <4>4. /\ Len(i) = Len(h) + Len(r)
            /\ \A j \in 1..Len(r) : i[Len(h) + j] = r[j]
        BY <4>3, ConcatElements
      <4>5. Len(h) = 2 /\ Len(r) \in Nat /\ Len(r) >= 1
        BY <3>1, <4>1, <4>2
      <4>6. i[Len(h) + 1] = r[1] /\ 3 \in 1..Len(i) /\ Len(h) + 1 = 3
        BY <4>4, <4>5
      <4>7. all[2 + 1] = r[1]
        BY <2>7, <4>6
      <4>8. all[2 + 1] = "body"
        BY <2>6, <2>9, <2>10, <2>14 DEF Grammatical
      <4> QED
        BY <4>2, <4>7, <4>8
    <3>7. Heard(t, c) = <<"magic", k, "body">> \o Tail(rest)
      <4>1. PICK r \in Seq(Units) : r = Tail(rest)
        BY <3>2
      <4>2. <<"magic", k>> \o (<<"body">> \o r) = <<"magic", k, "body">> \o r
        BY <2>11, ReadingWhole
      <4> QED
        BY <2>1, <2>2, <3>2, <3>6, <4>1, <4>2
    <3>8. /\ <<"magic", k, "body">> \in Reading(k) /\ Len(<<"magic", k, "body">>) = 3
          /\ <<"magic", k, "body">>[3] = "body" /\ "body" \in Ends
      BY DEF Reading, Ends
    <3>9. PICK p \in Reading(k) : p = <<"magic", k, "body">> /\ p[Len(p)] \in Ends
      BY <3>8
    <3>10. Heard(t, c) = p \o w.inbox[c]
      BY <3>3, <3>7, <3>9
    <3> QED
      BY <2>11, <3>3, <3>4, <3>5, <3>9, <3>10, CommandRead
  <2>15. CASE k \notin WithBody
    <3> DEFINE w == WithInput(v, c, rest, NIL)
    <3>1. u \in HandleCommand([v EXCEPT !.pending[c] = NIL], c, k)
      BY <1>2, <1>3, <1>6, <2>15 DEF Header, in, k
    <3>2. w = [v EXCEPT !.pending[c] = NIL]
      BY <2>12 DEF States, WithInput
    <3> HIDE DEF w
    <3>3. /\ w \in States /\ SameButInput(v, w, c) /\ w.pending[c] = NIL
          /\ w.todo[c] = v.todo[c] /\ w.inbox[c] = rest
      BY <2>1, <2>12, InputChanged DEF w
    <3>4. SameButInput(t, w, c) /\ w.todo[c] = t.todo[c]
      BY <2>12, <3>3, SameButInputThen
    <3>5. k \in Ends
      BY <2>11, <2>15 DEF Ends, Types, Known
    <3>6. /\ <<"magic", k>> \in Reading(k) /\ Len(<<"magic", k>>) = 2
          /\ <<"magic", k>>[2] = k
      BY DEF Reading
    <3>7. PICK p \in Reading(k) : p = <<"magic", k>> /\ p[Len(p)] \in Ends
      BY <3>5, <3>6
    <3>8. Heard(t, c) = p \o w.inbox[c]
      BY <2>1, <2>2, <3>3, <3>7
    <3> QED
      BY <2>11, <3>1, <3>2, <3>3, <3>4, <3>7, <3>8, CommandRead
  <2> QED
    BY <2>13, <2>14, <2>15
<1> QED
  BY <1>2, <1>4, <1>5, <1>6

LEMMA HandleReadableStep ==
    ASSUME NEW t, Inv(t), NEW c \in Clients, t.conn[c] = "open", NEW u \in HandleReadable(t, c)
    PROVE  Inv(u) /\ OneServed(t, u)
<1>1. CASE c \in t.quit
  <2>1. u = Disconnect(t, c)
    BY <1>1 DEF HandleReadable
  <2> QED
    BY <2>1, DisconnectStep
<1>2. CASE c \notin t.quit /\ t.pending[c] # NIL
  BY <1>2, PayloadStep DEF HandleReadable
<1>3. CASE c \notin t.quit /\ t.pending[c] = NIL
  BY <1>3, HeaderStep DEF HandleReadable
<1> QED
  BY <1>1, <1>2, <1>3

-----------------------------------------------------------------------------
(* Writing to the socket: what is sent to a client stays the same.         *)

Splits(U, q, n) ==
    \E a, b \in Seq(U) : /\ a = SubSeq(q, 1, n) /\ b = SubSeq(q, n + 1, Len(q))
                         /\ q = a \o b /\ Len(a) = n /\ Len(b) = Len(q) - n

LEMMA SplitAt ==
    ASSUME NEW U, NEW q \in Seq(U), NEW n \in 1..Len(q)
    PROVE  Splits(U, q, n)
<1> DEFINE a == SubSeq(q, 1, n)
           b == SubSeq(q, n + 1, Len(q))
<1>1. Len(q) \in Nat /\ n \in Nat /\ 1 <= n /\ n <= Len(q)
      /\ 1 \in Int /\ n \in Int /\ n + 1 \in Int /\ Len(q) \in Int
  OBVIOUS
<1>2. (\A i \in 1..n : q[i] \in U) /\ \A i \in (n + 1)..Len(q) : q[i] \in U
  BY <1>1
<1>3. a \in Seq(U) /\ Len(a) = n
  <2>1. a \in Seq(U) /\ Len(a) = IF 1 <= n THEN n - 1 + 1 ELSE 0
    BY <1>1, <1>2, SubSeqProperties
  <2> QED
    BY <1>1, <2>1
<1>4. b \in Seq(U) /\ Len(b) = Len(q) - n
  <2>1. b \in Seq(U) /\ Len(b) = IF n + 1 <= Len(q) THEN Len(q) - (n + 1) + 1 ELSE 0
    BY <1>1, <1>2, SubSeqProperties
  <2> QED
    BY <1>1, <2>1
<1>5. q = a \o b
  <2>1. 1 \in 1..(Len(q) + 1) /\ n \in (1 - 1)..Len(q) /\ Len(q) \in n..Len(q)
    BY <1>1
  <2>2. a \o b = SubSeq(q, 1, Len(q))
    BY <2>1, ConcatAdjacentSubSeq
  <2> QED
    BY <2>2, SubSeqFull
<1> HIDE DEF a, b
<1>6. PICK x \in Seq(U), y \in Seq(U) : x = a /\ y = b
  BY <1>3, <1>4
<1> QED
  BY <1>3, <1>4, <1>5, <1>6 DEF a, b, Splits

(* w and o are what was on the wire and in the buffer of c, and are now.   *)
WithMail(t, c, w, o) == [t EXCEPT !.wire[c] = w, !.out[c] = o]

LEMMA MailMoved ==
    ASSUME NEW t, Inv(t), NEW c \in Clients, t.conn[c] # "new",
           NEW w \in Seq(Buffered), NEW o \in Seq(Buffered),
           Len(w) <= Capacity, Len(o) <= Len(t.out[c])
    PROVE  LET u == WithMail(t, c, w, o)
           IN  /\ Inv(u) /\ SameServer(t, u) /\ u.crash = t.crash
               /\ SameInput(t, u, c) /\ u.wire[c] = w /\ u.out[c] = o
               /\ \A d \in Clients \ {c} : SameClient(t, u, d)
<1> DEFINE u == WithMail(t, c, w, o)
<1>0. u = [t EXCEPT !.wire[c] = w, !.out[c] = o] /\ t \in States
  BY DEF WithMail, Inv
<1> HIDE DEF u
<1>1. u \in States
  BY <1>0 DEF States
<1>2. /\ SameServer(t, u) /\ u.list = t.list /\ u.batch = t.batch /\ u.crash = t.crash
      /\ u.conn = t.conn /\ u.pending = t.pending /\ u.todo = t.todo /\ u.inbox = t.inbox
      /\ u.subs = t.subs /\ u.size = t.size
      /\ u.wire = [t.wire EXCEPT ![c] = w] /\ u.out = [t.out EXCEPT ![c] = o]
  BY <1>0 DEF States, SameServer
<1>3. u.wire[c] = w /\ u.out[c] = o
      /\ \A d \in Clients \ {c} : u.wire[d] = t.wire[d] /\ u.out[d] = t.out[d]
  BY <1>0, <1>2 DEF States
<1>4. \A d \in Clients : SameInput(t, u, d)
  BY <1>2 DEF SameInput
<1>5. \A d \in Clients \ {c} : SameClient(t, u, d)
  BY <1>2, <1>3 DEF SameClient
<1>6. Roomy(u)
  <2> SUFFICES ASSUME NEW d \in Clients
               PROVE  /\ u.conn[d] = "open" => Len(u.out[d]) < u.size[d] /\ u.size[d] <= MaxSize
                      /\ Len(u.wire[d]) <= Capacity
    BY DEF Roomy
  <2>1. /\ t.conn[d] = "open" => Len(t.out[d]) < t.size[d] /\ t.size[d] <= MaxSize
        /\ Len(t.wire[d]) <= Capacity
    BY DEF Inv, Roomy
  <2>2. CASE d = c
    <3>1. t.size[c] \in Nat /\ Len(t.out[c]) \in Nat /\ Len(o) \in Nat
      <4>1. PICK q \in Seq(Buffered) : q = t.out[c]
        BY <1>0 DEF States
      <4>2. Len(q) \in Nat /\ Len(o) \in Nat
        OBVIOUS
      <4>3. t.size[c] \in Nat
        BY <1>0 DEF States
      <4> QED
        BY <4>1, <4>2, <4>3
    <3> QED
      BY <1>2, <1>3, <2>1, <2>2, <3>1
  <2>3. CASE d # c
    BY <1>2, <1>3, <2>1, <2>3
  <2> QED
    BY <2>2, <2>3
<1>7. \A d \in Clients : t.conn[d] = "new" => u.wire[d] = t.wire[d] /\ u.out[d] = t.out[d]
  BY <1>3
<1>8. Inv(u)
  <2>1. u.batch \subseteq t.batch /\ u.quit = t.quit /\ u.exiting = t.exiting /\ u.phase = t.phase
    BY <1>2 DEF SameServer
  <2> QED
    BY <1>1, <1>2, <1>4, <1>6, <1>7, <2>1, SameInputInv
<1> QED
  BY <1>2, <1>3, <1>4, <1>5, <1>8 DEF u

LEMMA HandleWritableStep ==
    ASSUME NEW t, Inv(t), NEW c \in Clients, t.conn[c] = "open", NEW u \in HandleWritable(t, c)
    PROVE  Inv(u) /\ OneServed(t, u)
<1>1. t \in States /\ t.wire[c] \in Seq(Buffered) /\ t.out[c] \in Seq(Buffered)
  BY HeardType DEF Inv
<1>2. CASE c \in t.quit
  <2>1. u = Disconnect(t, c)
    BY <1>2 DEF HandleWritable
  <2> QED
    BY <2>1, DisconnectStep
<1> DEFINE room == Capacity - Len(t.wire[c])
<1>3. CASE c \notin t.quit /\ (room = 0 \/ t.out[c] = <<>>)
  <2>1. u = t
    BY <1>3 DEF HandleWritable
  <2> QED
    BY <1>1, <2>1, SelfStep
<1>4. CASE c \notin t.quit /\ room # 0 /\ t.out[c] # <<>>
  <2>1. PICK w \in Seq(Buffered), q \in Seq(Buffered) : w = t.wire[c] /\ q = t.out[c]
    BY <1>1
  <2> DEFINE n == IF room < Len(q) THEN room ELSE Len(q)
  <2>2. /\ n \in 1..Len(q) /\ Len(w) + n <= Capacity
    <3>1. Len(w) <= Capacity /\ Capacity \in Nat
      BY <2>1, IpcAssumption DEF Inv, Roomy
    <3>2. Len(w) \in Nat /\ Len(q) \in Nat /\ Len(q) # 0 /\ room = Capacity - Len(w) /\ room # 0
      BY <1>4, <2>1
    <3> HIDE DEF room
    <3> QED
      BY <3>1, <3>2
  <2>3. u = [t EXCEPT !.wire[c] = @ \o SubSeq(q, 1, n), !.out[c] = SubSeq(@, n + 1, Len(@))]
    BY <1>4, <2>1 DEF HandleWritable
  <2> HIDE DEF n, room
  <2>4. PICK a \in Seq(Buffered), b \in Seq(Buffered) :
          /\ a = SubSeq(q, 1, n) /\ b = SubSeq(q, n + 1, Len(q))
          /\ q = a \o b /\ Len(a) = n /\ Len(b) = Len(q) - n
    <3>1. PICK i \in 1..Len(q) : i = n
      BY <2>2
    <3>2. Splits(Buffered, q, i)
      BY SplitAt
    <3> QED
      BY <3>1, <3>2 DEF Splits
  <2>5. PICK x \in Seq(Buffered) : x = w \o a /\ Len(x) = Len(w) + Len(a)
    BY ConcatElements
  <2>6. u = WithMail(t, c, x, b)
    BY <1>1, <2>1, <2>3, <2>4, <2>5 DEF WithMail, States
  <2>7. Len(x) <= Capacity /\ Len(b) <= Len(t.out[c])
    BY <2>1, <2>2, <2>4, <2>5
  <2>8. /\ Inv(u) /\ SameServer(t, u) /\ u.crash = t.crash
        /\ SameInput(t, u, c) /\ u.wire[c] = x /\ u.out[c] = b
        /\ \A d \in Clients \ {c} : SameClient(t, u, d)
    BY SMTT(20), <2>6, <2>7, MailMoved
  <2>9. Served(t, u, c, <<>>)
    <3>1. (w \o a) \o b = w \o (a \o b)
      BY ConcatAssociative
    <3>2. u.wire[c] \o u.out[c] = t.wire[c] \o t.out[c]
      <4>1. u.wire[c] \o u.out[c] = x \o b
        BY <2>8
      <4>2. x \o b = w \o q
        BY <2>4, <2>5, <3>1
      <4>3. t.wire[c] \o t.out[c] = w \o q
        BY <2>1
      <4> QED
        BY <4>1, <4>2, <4>3
    <3>5. Mail(u, c) = Mail(t, c)
      BY <3>2 DEF Mail
    <3>3. PICK m \in Seq(Buffered) : m = Mail(t, c)
      BY <1>1, MailType
    <3>4. m \o <<>> = m
      BY ConcatEmptySeq
    <3> QED
      BY <2>8, <3>3, <3>4, <3>5 DEF Served
  <2>10. ASSUME NEW d \in Clients PROVE ToldOf(t, u, d)
    <3>1. CASE d = c
      BY <2>9, <3>1, NewsType DEF ToldOf
    <3>2. CASE d # c
      BY <1>1, <2>8, <3>2, SameMail
    <3> QED
      BY <3>1, <3>2
  <2>11. u.quit = t.quit /\ u.exiting = t.exiting
    BY <2>8 DEF SameServer
  <2> QED
    BY <2>8, <2>10, <2>11, NoneServed
<1> QED
  BY <1>2, <1>3, <1>4

-----------------------------------------------------------------------------
(* The actions of the server, from any state.                              *)

LEMMA SameClientsInv ==
    ASSUME NEW t, Inv(t), NEW u \in States,
           u.quit = t.quit, u.exiting = t.exiting, u.phase = t.phase,
           u.list = t.list, u.batch \subseteq t.batch,
           \A c \in Clients : SameClient(t, u, c)
    PROVE  Inv(u)
<1>1. Roomy(u)
  BY DEF Inv, Roomy, SameClient
<1>2. \A c \in Clients : /\ SameInput(t, u, c)
                         /\ u.wire[c] = t.wire[c] /\ u.out[c] = t.out[c]
  BY DEF SameInput, SameClient
<1> QED
  BY <1>1, <1>2, SameInputInv

LEMMA ServedFrom ==
    ASSUME NEW t, NEW v, NEW u, v.quit = t.quit, v.exiting = t.exiting,
           \A c \in Clients : SameClient(t, v, c), OneServed(v, u)
    PROVE  OneServed(t, u)
<1>1. PICK S \in SUBSET Clients : Cardinality(S) <= 1 /\ ServerStep(v, u, S)
  BY DEF OneServed
<1>2. u.quit = t.quit
  BY <1>1 DEF ServerStep
<1>3. ASSUME NEW c \in Clients
      PROVE  IF t.conn[c] # "open" THEN SameClient(t, u, c)
             ELSE \/ u.conn[c] = "gone"
                  \/ IF c \in S THEN AnsweredOf(t, u, c) ELSE NoticedOf(t, u, c)
  <2>1. SameClient(t, v, c) /\ v.conn[c] = t.conn[c]
    BY DEF SameClient
  <2>2. IF v.conn[c] # "open" THEN SameClient(v, u, c)
        ELSE \/ u.conn[c] = "gone"
             \/ IF c \in S THEN AnsweredOf(v, u, c) ELSE NoticedOf(v, u, c)
    BY <1>1 DEF ServerStep
  <2>3. AskedOf(v, c) = AskedOf(t, c) /\ Mail(v, c) = Mail(t, c)
    BY <2>1 DEF SameClient, AskedOf, Mail, Heard
  <2>4. AnsweredOf(v, u, c) => AnsweredOf(t, u, c)
    BY <2>3 DEF AnsweredOf
  <2>5. NoticedOf(v, u, c) => NoticedOf(t, u, c)
    BY <2>3 DEF NoticedOf
  <2>6. SameClient(v, u, c) => SameClient(t, u, c)
    BY <2>1 DEF SameClient
  <2> QED
    BY <2>1, <2>2, <2>4, <2>5, <2>6
<1> QED
  BY <1>1, <1>2, <1>3 DEF OneServed, ServerStep

LEMMA NestedStep ==
    ASSUME NEW t, Inv(t), NEW b \in t.batch,
           NEW u, LET v == [t EXCEPT !.batch = @ \ {b}]
                  IN u \in IF b[2] = "in" THEN HandleReadable(v, b[1]) ELSE HandleWritable(v, b[1])
    PROVE  Inv(u) /\ OneServed(t, u)
<1> DEFINE v == [t EXCEPT !.batch = @ \ {b}]
<1>1. u \in HandleReadable(v, b[1]) \/ u \in HandleWritable(v, b[1])
  OBVIOUS
<1>2. t \in States /\ b[1] \in Clients /\ t.conn[b[1]] = "open"
  BY DEF Inv, States
<1>3. /\ v \in States /\ v.quit = t.quit /\ v.exiting = t.exiting /\ v.phase = t.phase
      /\ v.list = t.list /\ v.batch \subseteq t.batch /\ v.conn = t.conn
      /\ v.pending = t.pending /\ v.todo = t.todo /\ v.inbox = t.inbox
      /\ v.wire = t.wire /\ v.out = t.out /\ v.subs = t.subs /\ v.size = t.size
  BY <1>2 DEF States
<1> HIDE DEF v
<1>4. \A c \in Clients : SameClient(t, v, c)
  BY <1>3 DEF SameClient
<1>5. Inv(v)
  BY <1>3, <1>4, SameClientsInv
<1>6. Inv(u) /\ OneServed(v, u)
  BY <1>1, <1>2, <1>3, <1>5, HandleReadableStep, HandleWritableStep
<1> QED
  BY <1>3, <1>4, <1>6, ServedFrom

LEMMA NewsCounted ==
    ASSUME NEW t, Inv(t), t.news < MaxNews
    PROVE  LET v == [t EXCEPT !.news = @ + 1]
           IN  /\ Inv(v) /\ v.quit = t.quit /\ v.exiting = t.exiting /\ v.phase = t.phase
               /\ v.list = t.list /\ v.out = t.out /\ v.subs = t.subs /\ v.crash = t.crash
               /\ \A c \in Clients : SameClient(t, v, c)
<1> DEFINE v == [t EXCEPT !.news = @ + 1]
<1>0. t \in States
  BY DEF Inv
<1>1. t.news + 1 \in 0..MaxNews
  BY <1>0, IpcAssumption DEF States
<1>2. /\ v \in States /\ v.quit = t.quit /\ v.exiting = t.exiting /\ v.phase = t.phase
      /\ v.list = t.list /\ v.batch = t.batch /\ v.conn = t.conn /\ v.crash = t.crash
      /\ v.pending = t.pending /\ v.todo = t.todo /\ v.inbox = t.inbox
      /\ v.wire = t.wire /\ v.out = t.out /\ v.subs = t.subs /\ v.size = t.size
  BY <1>0, <1>1 DEF States
<1> HIDE DEF v
<1>3. \A c \in Clients : SameClient(t, v, c)
  BY <1>2 DEF SameClient
<1>4. Inv(v)
  BY <1>2, <1>3, SameClientsInv
<1> QED
  BY <1>2, <1>3, <1>4 DEF v

LEMMA EventStep ==
    ASSUME NEW t, Inv(t), t.news < MaxNews, NEW e \in Events
    PROVE  LET u == SendEvent([t EXCEPT !.news = @ + 1], e)
           IN  Inv(u) /\ OneServed(t, u)
<1> DEFINE v == [t EXCEPT !.news = @ + 1]
           u == SendEvent(v, e)
<1>1. /\ Inv(v) /\ v.quit = t.quit /\ v.exiting = t.exiting
      /\ \A c \in Clients : SameClient(t, v, c)
  BY NewsCounted
<1> HIDE DEF v
<1>2. Inv(u) /\ SameServer(v, u)
  BY <1>1, SendEventInv
<1>3. \A c \in Clients : ToldOf(v, u, c)
  BY <1>1, EventTold
<1> HIDE DEF u
<1>4. OneServed(v, u)
  BY <1>2, <1>3, NoneServed DEF SameServer
<1>5. OneServed(t, u)
  BY <1>1, <1>4, ServedFrom
<1> QED
  BY <1>2, <1>5 DEF u, v

LEMMA TermSignalStep ==
    ASSUME NEW t, Inv(t), t.news < MaxNews, t.phase = "run"
    PROVE  LET u == Terminate([t EXCEPT !.news = @ + 1], NIL)
           IN  Inv(u) /\ OneServed(t, u)
<1> DEFINE v == [t EXCEPT !.news = @ + 1]
           u == Terminate(v, NIL)
<1>1. /\ Inv(v) /\ v.quit = t.quit /\ v.exiting = t.exiting
      /\ \A c \in Clients : SameClient(t, v, c)
  BY NewsCounted
<1> HIDE DEF v
<1>2. t.exiting = NIL
  BY DEF Inv, OneExit
<1>3. NIL \in Clients \cup {NIL}
  OBVIOUS
<1>4. /\ Inv(u) /\ u.quit = v.quit /\ u.exiting = NIL
      /\ \A d \in Clients : ToldOf(v, u, d)
  BY <1>1, <1>3, TerminateInv
<1> HIDE DEF u
<1>5. OneServed(v, u)
  BY <1>1, <1>2, <1>4, NoneServed
<1>6. OneServed(t, u)
  BY <1>1, <1>5, ServedFrom
<1> QED
  BY <1>4, <1>6 DEF u, v

(* The command of exiting is answered.                                     *)
Flushed(t, p) == [t EXCEPT !.phase = p, !.exiting = NIL]

LEMMA FlushedInv ==
    ASSUME NEW t, Inv(t), NEW p \in {"stop", "down"}
    PROVE  LET v == Flushed(t, p)
           IN  /\ Inv(v) /\ v.quit = t.quit /\ v.exiting = NIL
               /\ \A c \in Clients : SameClient(t, v, c)
<1> DEFINE v == Flushed(t, p)
<1>0. t \in States
  BY DEF Inv
<1>1. /\ v \in States /\ v.quit = t.quit /\ v.exiting = NIL
      /\ v.list = t.list /\ v.batch = t.batch /\ v.conn = t.conn
      /\ v.pending = t.pending /\ v.todo = t.todo /\ v.inbox = t.inbox
      /\ v.wire = t.wire /\ v.out = t.out /\ v.subs = t.subs /\ v.size = t.size
  BY <1>0 DEF States, Flushed
<1> HIDE DEF v
<1>2. \A c \in Clients : SameClient(t, v, c)
  BY <1>1 DEF SameClient
<1>3. \A c \in Clients : Stream(v, c) = Stream(t, c)
  BY <1>1 DEF Stream, Heard
<1>4. OneExit(v)
  BY <1>1, <1>3 DEF Inv, OneExit, ExitAt
<1>5. Listed(v) /\ Roomy(v) /\ \A b \in v.batch : v.conn[b[1]] = "open"
  BY <1>1 DEF Inv, Listed, Roomy
<1>6. \A c \in Clients : Dormant(v, c)
  BY <1>1 DEF Inv, Dormant, Unused, Silent
<1>7. \A c \in Clients : c \notin v.quit => WellFormed(v, c)
  BY <1>1, <1>3 DEF Inv, WellFormed
<1>8. Inv(v)
  BY <1>1, <1>4, <1>5, <1>6, <1>7 DEF Inv
<1> QED
  BY <1>1, <1>2, <1>8 DEF v

LEMMA NothingBefore ==
    ASSUME NEW U, NEW q \in Seq(U)
    PROVE  <<>> \o q = q /\ q \o <<>> = q
BY ConcatEmptySeq

LEMMA ExitAnswered ==
    ASSUME NEW t \in States, NEW v \in States, NEW u, NEW c \in Clients, t.exiting = c,
           SameClient(t, v, c), u.exiting = NIL, t.conn[c] = "open",
           Sent(v, u, c, <<"reply", "exit">>)
    PROVE  AnsweredOf(t, u, c)
<1>1. "exit" \in Known /\ "exit" \in Units /\ NIL \notin Clients
  BY UnitsType, IpcAssumption DEF Known, WithBody
<1>2. PICK R \in Seq(Units) : R = Chosen(Heard(t, c), Types)
  BY HeardType, ChosenType
<1>3. u.conn[c] = "open" /\ Heard(u, c) = Heard(t, c) /\ Mail(v, c) = Mail(t, c)
  BY DEF Sent, SameInput, SameClient, Heard, Mail
<1>4. PICK X \in {<<>>, <<"exit">>} : X = <<>>
  OBVIOUS
<1>5. AskedOf(u, c) = X \o R
  BY <1>1, <1>2, <1>3, <1>4 DEF AskedOf
<1>6. AskedOf(t, c) = X \o (<<"exit">> \o R)
  <2>1. <<"exit">> \o R \in Seq(Units)
    BY <1>1
  <2>2. PICK q \in Seq(Units) : q = <<"exit">> \o R
    BY <2>1
  <2>3. <<>> \o q = q
    BY NothingBefore
  <2> QED
    BY <1>2, <1>4, <2>2, <2>3 DEF AskedOf
<1>7. PICK i : IsFirst("exit", i, AskedOf(t, c), AskedOf(u, c))
  BY <1>1, <1>5, <1>6, AnsweredAt
<1>8. Mail(u, c) = Mail(t, c) \o <<>> \o Service!Answer("exit") \o <<>>
  <2>1. PICK m \in Messages : m = <<"reply", "exit">>
    BY <1>1 DEF Messages
  <2>2. Mail(u, c) = Mail(t, c) \o <<m>>
    BY <1>3, <2>1, SentMail DEF Served
  <2>3. m \in Buffered
    BY DEF Buffered
  <2>4. <<m>> \in Seq(Buffered)
    BY <2>3
  <2>5. PICK q \in Seq(Buffered), x \in Seq(Buffered) : q = Mail(t, c) /\ x = <<m>>
    BY <2>4, MailType
  <2>6. PICK z \in Seq(Buffered) : z = q \o x
    BY ConcatElements
  <2>7. q \o <<>> = q /\ z \o <<>> = z
    BY NothingBefore
  <2>8. Service!Answer("exit") = x
    BY <1>1, <2>1, <2>5 DEF Service!Answer
  <2> QED
    BY <2>2, <2>5, <2>6, <2>7, <2>8
<1> QED
  BY <1>3, <1>7, <1>8, NewsType DEF AnsweredOf, IsFirst

LEMMA SameHeard ==
    ASSUME NEW t, NEW u, NEW c, SameClient(t, u, c)
    PROVE  Heard(u, c) = Heard(t, c) /\ u.conn[c] = t.conn[c]
BY DEF SameClient, Heard

LEMMA ExitDoneStep ==
    ASSUME NEW t, Inv(t),
           NEW u, u = IF t.exiting = NIL THEN Flushed(t, "stop") ELSE Reply(Flushed(t, "stop"), t.exiting, "exit")
    PROVE  Inv(u) /\ OneServed(t, u)
<1> DEFINE v == Flushed(t, "stop")
           c == t.exiting
<1>1. /\ Inv(v) /\ v.quit = t.quit /\ v.exiting = NIL
      /\ \A d \in Clients : SameClient(t, v, d)
  BY FlushedInv
<1>2. t \in States /\ v \in States
  BY <1>1 DEF Inv
<1> HIDE DEF v
<1>3. CASE c = NIL
  <2>1. u = v /\ v.exiting = t.exiting
    BY <1>1, <1>3 DEF v
  <2> QED
    BY <1>1, <1>2, <2>1, SelfStep, ServedFrom
<1>4. CASE c # NIL
  <2>1. c \in Clients /\ NIL \notin Clients
    BY <1>2, <1>4, IpcAssumption DEF States
  <2>2. PICK m \in Messages : m = <<"reply", "exit">>
    BY UnitsType DEF Messages, Known
  <2>3. u = SendReply(v, c, m)
    BY <1>4, <2>2 DEF Reply, v
  <2> HIDE DEF c
  <2>4. /\ Inv(u) /\ SameServer(v, u)
        /\ \A d \in Clients \ {c} : SameClient(v, u, d)
        /\ v.conn[c] # "open" => SameClient(v, u, c)
        /\ v.conn[c] = "open" => u.conn[c] = "gone" \/ Sent(v, u, c, m)
    BY <1>1, <2>1, <2>3, SendReplyInv
  <2>5. u.quit = t.quit /\ u.exiting = NIL
    BY <1>1, <2>4 DEF SameServer
  <2>6. v.conn[c] = t.conn[c]
    BY <1>1, <2>1 DEF SameClient
  <2>7. ASSUME NEW d \in Clients \ {c}
        PROVE  SameClient(t, u, d) /\ (t.conn[d] = "open" => NoticedOf(t, u, d))
    <3>1. SameClient(t, u, d)
      BY <1>1, <2>4, SameThen
    <3>2. Heard(u, d) = Heard(t, d) /\ u.conn[d] = t.conn[d]
      BY <3>1, SameHeard
    <3>3. AskedOf(u, d) = AskedOf(t, d)
      BY <2>1, <2>5, <3>2 DEF AskedOf, c
    <3>4. Mail(u, d) = Mail(t, d) \o <<>>
      BY <1>2, <3>1, SameMail DEF Served
    <3> QED
      BY <3>1, <3>2, <3>3, <3>4, NewsType DEF NoticedOf
  <2>8. CASE t.conn[c] # "open"
    <3>1. SameClient(t, u, c)
      BY <1>1, <2>1, <2>4, <2>6, <2>8, SameThen
    <3>2. ServerStep(t, u, {})
      BY <2>5, <2>7, <2>8, <3>1 DEF ServerStep
    <3> QED
      BY <2>4, <3>2, FewServed DEF OneServed
  <2>9. CASE t.conn[c] = "open"
    <3>1. u.conn[c] = "gone" \/ Sent(v, u, c, <<"reply", "exit">>)
      BY <2>2, <2>4, <2>6, <2>9
    <3>2. u.conn[c] = "gone" \/ AnsweredOf(t, u, c)
      <4>1. t.exiting = c /\ SameClient(t, v, c)
        BY <1>1, <2>1 DEF c
      <4> QED
        BY <1>2, <2>1, <2>5, <2>9, <3>1, <4>1, ExitAnswered
    <3>3. ServerStep(t, u, {c})
      BY <2>5, <2>7, <2>9, <3>2 DEF ServerStep
    <3> QED
      BY <2>1, <2>4, <3>3, FewServed DEF OneServed
  <2> QED
    BY <2>8, <2>9
<1> QED
  BY <1>3, <1>4

(* Shutting down: every client is removed, or was not there.               *)
Removed(t, u, c) == t.conn[c] = "open" /\ u.conn[c] = "gone"

LEMMA LastRemovedInv ==
    ASSUME NEW t, Inv(t)
    PROVE  LET u == LastRemoved(t)
           IN  /\ Inv(u) /\ SameServer(t, u)
               /\ \A c \in Clients : SameClient(t, u, c) \/ Removed(t, u, c)
<1>1. CASE t.list = <<>>
  BY <1>1 DEF LastRemoved, SameServer, SameClient
<1>2. CASE t.list # <<>>
  <2> DEFINE c == Last(t.list)
  <2>1. c \in Clients /\ t.conn[c] = "open"
    <3>1. t.list \in Seq(Clients)
      BY DEF Inv, States
    <3>2. Len(t.list) \in 1..Len(t.list)
      BY <1>2, <3>1
    <3>3. c \in ToSet(t.list)
      BY <3>1, <3>2 DEF ToSet, Last
    <3> QED
      BY <3>3 DEF Inv, Listed
  <2>2. LastRemoved(t) = Disconnect(t, c)
    BY <1>2 DEF LastRemoved
  <2> HIDE DEF c
  <2>3. /\ Inv(Disconnect(t, c)) /\ SameServer(t, Disconnect(t, c))
        /\ Disconnect(t, c).conn[c] = "gone"
        /\ \A d \in Clients \ {c} : SameClient(t, Disconnect(t, c), d)
    BY <2>1, DisconnectInv
  <2> QED
    BY <2>1, <2>2, <2>3 DEF Removed
<1> QED
  BY <1>1, <1>2

LEMMA ShutdownStep ==
    ASSUME NEW t, Inv(t), t.phase = "stop", NEW n \in Nat,
           NEW u, u = Repeated([x \in States |-> LastRemoved(x)], [t EXCEPT !.phase = "down"], n)
    PROVE  Inv(u) /\ OneServed(t, u)
<1> DEFINE v == [t EXCEPT !.phase = "down"]
           f == [x \in States |-> LastRemoved(x)]
           K == {x \in States :
                   /\ Inv(x) /\ SameServer(v, x)
                   /\ \A c \in Clients : SameClient(v, x, c) \/ Removed(v, x, c)}
<1>1. t \in States /\ t.exiting = NIL
  BY DEF Inv, OneExit
<1>2. v = Flushed(t, "down")
  BY <1>1 DEF Flushed, States
<1>3. u = Repeated(f, v, n)
  OBVIOUS
<1> HIDE DEF v, f
<1>4. /\ Inv(v) /\ v.quit = t.quit /\ v.exiting = NIL /\ v \in States
      /\ \A c \in Clients : SameClient(t, v, c)
  BY <1>2, FlushedInv DEF Inv
<1>5. v \in K
  BY <1>4 DEF SameServer, SameClient
<1>6. \A x \in K : f[x] \in K
  <2> SUFFICES ASSUME NEW x \in K PROVE LastRemoved(x) \in K
    BY DEF f
  <2>1. /\ Inv(x) /\ SameServer(v, x)
        /\ \A c \in Clients : SameClient(v, x, c) \/ Removed(v, x, c)
    OBVIOUS
  <2>2. PICK y : y = LastRemoved(x)
    OBVIOUS
  <2>3. /\ Inv(y) /\ SameServer(x, y) /\ y \in States
        /\ \A c \in Clients : SameClient(x, y, c) \/ Removed(x, y, c)
    BY <2>1, <2>2, LastRemovedInv DEF Inv
  <2>4. SameServer(v, y)
    BY <2>1, <2>3 DEF SameServer
  <2>5. ASSUME NEW c \in Clients
        PROVE  SameClient(v, y, c) \/ Removed(v, y, c)
    BY <2>1, <2>3 DEF SameClient, Removed
  <2> QED
    BY <2>2, <2>3, <2>4, <2>5
<1>7. u \in K
  <2> HIDE DEF K
  <2> QED
    BY <1>3, <1>5, <1>6, RepeatedKeeps
<1>8. \A c \in Clients : ToldOf(v, u, c)
  <2> SUFFICES ASSUME NEW c \in Clients PROVE ToldOf(v, u, c)
    OBVIOUS
  <2>1. CASE SameClient(v, u, c)
    BY <1>4, <2>1, SameMail
  <2>2. CASE Removed(v, u, c)
    BY <2>2 DEF ToldOf, Removed
  <2> QED
    BY <1>7, <2>1, <2>2
<1>9. Inv(u) /\ u.quit = v.quit /\ u.exiting = v.exiting
  BY <1>7 DEF SameServer
<1>10. OneServed(v, u)
  BY <1>8, <1>9, NoneServed
<1> QED
  BY <1>1, <1>4, <1>9, <1>10, ServedFrom

-----------------------------------------------------------------------------
(* The clients.  What one of them does changes nothing of the others.      *)

WithStream(t, c, i, o) == [t EXCEPT !.inbox[c] = i, !.todo[c] = o]

LEMMA StreamChanged ==
    ASSUME NEW t \in States, NEW c \in Clients, NEW i \in Seq(Units), NEW o \in Seq(Units)
    PROVE  LET u == WithStream(t, c, i, o)
           IN  /\ u \in States /\ SameButInput(t, u, c)
               /\ u.pending = t.pending /\ u.inbox[c] = i /\ u.todo[c] = o
<1> DEFINE u == WithStream(t, c, i, o)
<1>0. u = [t EXCEPT !.inbox[c] = i, !.todo[c] = o]
  BY DEF WithStream
<1> HIDE DEF u
<1>1. u \in States
  BY <1>0 DEF States
<1>2. /\ SameServer(t, u) /\ u.list = t.list /\ u.batch = t.batch /\ u.crash = t.crash
      /\ u.conn = t.conn /\ u.wire = t.wire /\ u.out = t.out /\ u.pending = t.pending
      /\ u.subs = t.subs /\ u.size = t.size
      /\ u.inbox = [t.inbox EXCEPT ![c] = i] /\ u.todo = [t.todo EXCEPT ![c] = o]
  BY <1>0 DEF States, SameServer
<1>3. u.inbox[c] = i /\ u.todo[c] = o
      /\ \A d \in Clients \ {c} : u.inbox[d] = t.inbox[d] /\ u.todo[d] = t.todo[d]
  BY <1>2 DEF States
<1>4. SameButInput(t, u, c)
  BY <1>2, <1>3 DEF SameButInput, SameInput
<1> QED
  BY <1>1, <1>2, <1>3, <1>4 DEF u

LEMMA AppendMoved ==
    ASSUME NEW U, NEW q \in Seq(U), NEW r \in Seq(U), NEW x \in U
    PROVE  Append(q, x) \o r = q \o (<<x>> \o r)
<1>1. <<x>> \in Seq(U)
  OBVIOUS
<1>2. PICK p \in Seq(U) : p = <<x>>
  BY <1>1
<1>3. (q \o p) \o r = q \o (p \o r)
  BY ConcatAssociative
<1>4. q \o <<x>> = Append(q, x)
  BY AppendIsConcat
<1> QED
  BY <1>2, <1>3, <1>4

LEMMA NothingSequence == \A U : <<>> \in Seq(U)
OBVIOUS

LEMMA HeardAppend ==
    ASSUME NEW t \in States, NEW u, NEW c \in Clients, NEW h \in Units,
           u.pending[c] = t.pending[c], u.inbox[c] = Append(t.inbox[c], h)
    PROVE  Heard(u, c) = Append(Heard(t, c), h)
<1>1. PICK i \in Seq(Units) : i = t.inbox[c]
  BY HeardType
<1>2. t.pending[c] # NIL => <<t.pending[c]>> \in Seq(Units)
  <2>1. t.pending[c] # NIL => t.pending[c] \in Units
    BY UnitsType DEF States
  <2> QED
    BY <2>1
<1>3. PICK p \in Seq(Units) : p = IF t.pending[c] # NIL THEN <<t.pending[c]>> ELSE <<>>
  <2>1. CASE t.pending[c] # NIL
    <3>1. PICK p \in Seq(Units) : p = <<t.pending[c]>>
      BY <1>2, <2>1
    <3> QED
      BY <2>1, <3>1
  <2>2. CASE t.pending[c] = NIL
    <3>1. PICK p \in Seq(Units) : p = <<>>
      BY NothingSequence
    <3> QED
      BY <2>2, <3>1
  <2> QED
    BY <2>1, <2>2
<1>4. p \o Append(i, h) = Append(p \o i, h)
  BY ConcatAppend
<1> QED
  BY <1>1, <1>3, <1>4 DEF Heard

LEMMA InputAppended ==
    ASSUME NEW t \in States, NEW c \in Clients, NEW h \in Units, NEW r \in Seq(Units)
    PROVE  LET u == WithStream(t, c, Append(t.inbox[c], h), r)
           IN  /\ u \in States /\ SameButInput(t, u, c) /\ u.pending = t.pending
               /\ u.todo[c] = r /\ Heard(u, c) = Append(Heard(t, c), h)
<1> DEFINE u == WithStream(t, c, Append(t.inbox[c], h), r)
<1>1. t.inbox[c] \in Seq(Units)
  BY HeardType
<1>2. PICK i \in Seq(Units) : i = Append(t.inbox[c], h)
  <2>1. PICK q \in Seq(Units) : q = t.inbox[c]
    BY <1>1
  <2>2. Append(q, h) \in Seq(Units)
    BY AppendProperties
  <2> QED
    BY <2>1, <2>2
<1>3. /\ u \in States /\ SameButInput(t, u, c)
      /\ u.pending = t.pending /\ u.inbox[c] = Append(t.inbox[c], h) /\ u.todo[c] = r
  <2>1. u = WithStream(t, c, i, r)
    BY <1>2
  <2> HIDE DEF u
  <2>2. LET v == WithStream(t, c, i, r)
        IN  /\ v \in States /\ SameButInput(t, v, c)
            /\ v.pending = t.pending /\ v.inbox[c] = i /\ v.todo[c] = r
    BY StreamChanged
  <2> QED
    BY <1>2, <2>1, <2>2
<1> HIDE DEF u
<1>4. Heard(u, c) = Append(Heard(t, c), h)
  BY <1>3, HeardAppend
<1> QED
  BY <1>3, <1>4 DEF u

LEMMA PushedInv ==
    ASSUME NEW t, Inv(t), NEW c \in Clients, t.conn[c] = "open", c \notin t.quit,
           NEW h \in Units, NEW r \in Seq(Units), t.todo[c] = <<h>> \o r
    PROVE  LET u == WithStream(t, c, Append(t.inbox[c], h), r)
           IN  /\ Inv(u) /\ SameButInput(t, u, c)
               /\ Heard(u, c) = Append(Heard(t, c), h)
<1> DEFINE u == WithStream(t, c, Append(t.inbox[c], h), r)
<1>1. t \in States /\ Heard(t, c) \in Seq(Units)
  BY HeardType DEF Inv
<1>3. /\ u \in States /\ SameButInput(t, u, c) /\ u.pending = t.pending
      /\ u.todo[c] = r /\ Heard(u, c) = Append(Heard(t, c), h)
  BY <1>1, InputAppended
<1>4. Heard(u, c) = Append(Heard(t, c), h)
  BY <1>3
<1> HIDE DEF u
<1>5. Stream(u, c) = Stream(t, c)
  <2>1. PICK q \in Seq(Units) : q = Heard(t, c)
    BY <1>1
  <2>2. Append(q, h) \o r = q \o (<<h>> \o r)
    BY AppendMoved
  <2> QED
    BY <1>3, <1>4, <2>1, <2>2 DEF Stream
<1>6. Shorter(Stream(t, c), Stream(u, c), 0)
  <2>1. PICK q \in Seq(Units) : q = Stream(t, c)
    BY <1>1, HeardType
  <2>2. Shorter(q, q, 0)
    BY DEF Shorter
  <2> QED
    BY <1>5, <2>1, <2>2
<1>7. IF u.pending[c] # NIL THEN u.pending[c] \in WithBody
      ELSE Stream(u, c) = <<>> \/ Stream(u, c)[1] \in Starts
  BY <1>3, <1>5 DEF Inv, WellFormed
<1>8. Inv(u)
  BY <1>3, <1>6, <1>7, PoppedInv
<1> QED
  BY <1>3, <1>4, <1>8 DEF u

(* A command that is begun ends what the client has written.               *)
LEMMA GrammaticalConcat ==
    ASSUME NEW q \in Seq(Units), NEW r \in Seq(Units), Grammatical(q), Grammatical(r),
           r # <<>>, r[1] \in Starts
    PROVE  Grammatical(q \o r)
<1>1. PICK w \in Seq(Units) : w = q \o r
  BY ConcatElements
<1>2. /\ Len(w) = Len(q) + Len(r)
      /\ \A j \in 1..Len(q) : w[j] = q[j]
      /\ \A j \in 1..Len(r) : w[Len(q) + j] = r[j]
  BY <1>1, ConcatElements
<1>3. Len(q) \in Nat /\ Len(r) \in Nat /\ Len(r) >= 1 /\ Len(w) \in Nat
  OBVIOUS
<1>4. "magic" \in Starts
  BY DEF Starts
<1>5. ASSUME NEW i \in 1..Len(w)
      PROVE  /\ w[i] \in Starts => i < Len(w)
             /\ w[i] = "magic" => w[i + 1] \in Types
             /\ w[i] \in WithBody => i < Len(w) /\ w[i + 1] = "body"
             /\ w[i] \in Ends /\ i < Len(w) => w[i + 1] \in Starts
  <2>1. CASE i < Len(q)
    <3>1. i \in 1..Len(q) /\ i + 1 \in 1..Len(q) /\ i < Len(w)
      BY <1>2, <1>3, <2>1
    <3>2. w[i] = q[i] /\ w[i + 1] = q[i + 1]
      BY <1>2, <3>1
    <3>3. /\ q[i] = "magic" => q[i + 1] \in Types
          /\ q[i] \in WithBody => q[i + 1] = "body"
          /\ q[i] \in Ends /\ i < Len(q) => q[i + 1] \in Starts
      BY <3>1 DEF Grammatical
    <3> QED
      BY <2>1, <3>1, <3>2, <3>3
  <2>2. CASE i = Len(q)
    <3>1. i \in 1..Len(q) /\ 1 \in 1..Len(r)
      BY <1>3, <2>2
    <3>2. w[i] = q[i] /\ w[i + 1] = r[1]
      BY <1>2, <2>2, <3>1
    <3>3. q[i] \notin Starts /\ q[i] \notin WithBody
      BY <1>3, <2>2, <3>1 DEF Grammatical
    <3> QED
      BY <1>4, <3>2, <3>3
  <2>3. CASE i > Len(q)
    <3> DEFINE j == i - Len(q)
    <3>1. j \in 1..Len(r) /\ Len(q) + j = i /\ (i < Len(w) <=> j < Len(r))
      BY <1>2, <1>3, <2>3
    <3>2. w[i] = r[j]
      <4>1. w[Len(q) + j] = r[j]
        BY <1>2, <3>1
      <4> QED
        BY <3>1, <4>1
    <3>3. i < Len(w) => w[i + 1] = r[j + 1]
      <4>1. SUFFICES ASSUME i < Len(w) PROVE w[i + 1] = r[j + 1]
        OBVIOUS
      <4>2. j + 1 \in 1..Len(r) /\ Len(q) + (j + 1) = i + 1
        BY <1>3, <3>1, <4>1
      <4>3. w[Len(q) + (j + 1)] = r[j + 1]
        BY <1>2, <4>2
      <4> QED
        BY <4>2, <4>3
    <3>4. /\ r[j] \in Starts => j < Len(r)
          /\ r[j] = "magic" => r[j + 1] \in Types
          /\ r[j] \in WithBody => j < Len(r) /\ r[j + 1] = "body"
          /\ r[j] \in Ends /\ j < Len(r) => r[j + 1] \in Starts
      BY <3>1 DEF Grammatical
    <3> HIDE DEF j
    <3> QED
      BY <1>4, <3>1, <3>2, <3>3, <3>4
  <2> QED
    BY <1>2, <1>3, <2>1, <2>2, <2>3
<1> QED
  BY <1>1, <1>5 DEF Grammatical

(* The three shapes of what a client sends.                                *)
LEMMA CommandShape ==
    ASSUME NEW k \in Types \cup {"garbage"}
    PROVE  \/ k = "garbage" /\ Command(k) = <<"garbage", "query">>
           \/ k \in Types \ WithBody /\ Command(k) = <<"magic", k>>
           \/ k \in WithBody /\ Command(k) = <<"magic", k, "body">>
<1>1. CASE k = "garbage"
  BY <1>1 DEF Command
<1>2. CASE k \in WithBody
  <2>1. k \in Types /\ k # "garbage"
    BY <1>2, UnitsType DEF WithBody
  <2>2. Command(k) = <<"magic", k>> \o <<"body">>
    BY <1>2, <2>1 DEF Command
  <2> QED
    BY <1>2, <2>1, <2>2, ReadingSplit
<1>3. CASE k # "garbage" /\ k \notin WithBody
  <2>1. Command(k) = <<"magic", k>> \o <<>>
    BY <1>3 DEF Command
  <2>2. k \in Units /\ "magic" \in Units
    BY <1>3, UnitsType DEF Units
  <2>3. <<"magic", k>> \in Seq(Units)
    BY <2>2
  <2>4. <<"magic", k>> \o <<>> = <<"magic", k>>
    BY <2>3, ConcatEmptySeq
  <2> QED
    BY <1>3, <2>1, <2>4
<1> QED
  BY <1>1, <1>2, <1>3

LEMMA CommandType ==
    ASSUME NEW k \in Types \cup {"garbage"}
    PROVE  LET p == Command(k)
           IN  /\ p \in Seq(Units) /\ p # <<>> /\ p[1] \in Starts /\ Grammatical(p)
               /\ \A j \in 1..Len(p) : p[j] = "exit" => k = "exit" /\ j = 2
<1> USE DEF Units, Types, Known, Unknown, Queries, WithBody, Starts, Ends
<1>1. CASE k = "garbage"
  <2>1. Command(k) = <<"garbage", "query">>
    BY <1>1, CommandShape
  <2>2. <<"garbage", "query">> \in Seq(Units) /\ Len(<<"garbage", "query">>) = 2
    OBVIOUS
  <2>3. Grammatical(<<"garbage", "query">>)
    BY DEF Grammatical
  <2> QED
    BY <2>1, <2>2, <2>3
<1>2. CASE k \in Types \ WithBody
  <2>1. Command(k) = <<"magic", k>>
    BY <1>2, CommandShape
  <2>2. <<"magic", k>> \in Seq(Units) /\ Len(<<"magic", k>>) = 2
    BY <1>2
  <2>3. Grammatical(<<"magic", k>>)
    BY <1>2 DEF Grammatical
  <2> QED
    BY <1>2, <2>1, <2>2, <2>3
<1>3. CASE k \in WithBody
  <2>1. Command(k) = <<"magic", k, "body">>
    BY <1>3, CommandShape
  <2>2. <<"magic", k, "body">> \in Seq(Units) /\ Len(<<"magic", k, "body">>) = 3
    BY <1>3
  <2>3. Grammatical(<<"magic", k, "body">>)
    BY <1>3 DEF Grammatical
  <2> QED
    BY <1>3, <2>1, <2>2, <2>3
<1> QED
  BY <1>1, <1>2, <1>3

LEMMA ConcatFinds ==
    ASSUME NEW q \in Seq(Units), NEW r \in Seq(Units), NEW i \in 1..Len(q \o r)
    PROVE  \/ i \in 1..Len(q) /\ (q \o r)[i] = q[i]
           \/ i - Len(q) \in 1..Len(r) /\ (q \o r)[i] = r[i - Len(q)]
<1>1. PICK w \in Seq(Units) : w = q \o r
  BY ConcatElements
<1>2. /\ Len(w) = Len(q) + Len(r)
      /\ \A j \in 1..Len(q) : w[j] = q[j]
      /\ \A j \in 1..Len(r) : w[Len(q) + j] = r[j]
  BY <1>1, ConcatElements
<1>3. Len(q) \in Nat /\ Len(r) \in Nat /\ i \in 1..Len(w)
  BY <1>1
<1>4. CASE i <= Len(q)
  BY <1>1, <1>2, <1>3, <1>4
<1>5. CASE i > Len(q)
  <2>1. i - Len(q) \in 1..Len(r) /\ Len(q) + (i - Len(q)) = i
    BY <1>2, <1>3, <1>5
  <2>2. w[Len(q) + (i - Len(q))] = r[i - Len(q)]
    BY <1>2, <2>1
  <2> QED
    BY <1>1, <2>1, <2>2
<1> QED
  BY <1>3, <1>4, <1>5

(* The guard of Start: nobody is about to exit.                            *)
LEMMA NobodyExits ==
    ASSUME NEW t, Inv(t), t.phase = "run",
           \A d \in Clients : /\ ~ Contains(t.inbox[d], "exit") /\ t.pending[d] # "exit"
                              /\ ~ Contains(t.todo[d], "exit")
    PROVE  t.exiting = NIL /\ \A d \in Clients : \A i \in Nat : ~ ExitAt(t, d, i)
<1>1. t.exiting = NIL
  BY DEF Inv, OneExit
<1>2. ASSUME NEW d \in Clients, NEW i \in Nat, ExitAt(t, d, i) PROVE FALSE
  <2>1. PICK p \in Seq(Units) : p = IF t.pending[d] # NIL THEN <<t.pending[d]>> ELSE <<>>
    <3>1. CASE t.pending[d] # NIL
      <4>1. t.pending[d] \in Units
        BY <3>1, UnitsType DEF Inv, States
      <4>2. <<t.pending[d]>> \in Seq(Units)
        BY <4>1
      <4>3. PICK p \in Seq(Units) : p = <<t.pending[d]>>
        BY <4>2
      <4> QED
        BY <3>1, <4>3
    <3>2. CASE t.pending[d] = NIL
      <4>1. PICK p \in Seq(Units) : p = <<>>
        BY NothingSequence
      <4> QED
        BY <3>2, <4>1
    <3> QED
      BY <3>1, <3>2
  <2>2. t \in States
    BY DEF Inv
  <2>3. PICK q \in Seq(Units), r \in Seq(Units) : q = t.inbox[d] /\ r = t.todo[d]
    BY <2>2, HeardType
  <2>4. PICK h \in Seq(Units) : h = p \o q
    BY ConcatElements
  <2>5. Stream(t, d) = h \o r
    BY <2>1, <2>3, <2>4 DEF Stream, Heard
  <2>6. i \in 1..Len(h \o r) /\ (h \o r)[i] = "exit"
    BY <1>2, <2>5 DEF ExitAt
  <2>7. \A j \in 1..Len(r) : r[j] # "exit"
    BY <2>3 DEF Contains
  <2>8. i \in 1..Len(h) /\ h[i] = "exit"
    BY <2>6, <2>7, ConcatFinds
  <2>9. \A j \in 1..Len(q) : q[j] # "exit"
    BY <2>3 DEF Contains
  <2>10. \A j \in 1..Len(p) : p[j] # "exit"
    BY <2>1
  <2>11. i \in 1..Len(p \o q) /\ (p \o q)[i] = "exit"
    BY <2>4, <2>8
  <2> QED
    BY <2>9, <2>10, <2>11, ConcatFinds
<1> QED
  BY <1>1, <1>2

LEMMA InputInv ==
    ASSUME NEW t, Inv(t), NEW c \in Clients, t.conn[c] = "open",
           NEW u \in States, SameButInput(t, u, c), WellFormed(u, c), OneExit(u)
    PROVE  Inv(u)
<1>1. \A d \in Clients : d \notin u.quit => WellFormed(u, d)
  <2> SUFFICES ASSUME NEW d \in Clients, d \notin u.quit PROVE WellFormed(u, d)
    OBVIOUS
  <2>1. CASE d # c
    <3>1. WellFormed(t, d) /\ Stream(u, d) = Stream(t, d) /\ u.pending[d] = t.pending[d]
      BY <2>1 DEF Inv, SameButInput, SameServer, SameInput, Stream, Heard
    <3> QED
      BY <3>1, SameWellFormed
  <2> QED
    BY <2>1
<1>2. Listed(u) /\ Roomy(u)
  BY DEF Inv, Listed, Roomy, SameButInput
<1>3. \A d \in Clients : Dormant(u, d)
  BY DEF Inv, Dormant, Unused, Silent, SameButInput, SameInput, SameServer
<1>4. \A b \in u.batch : u.conn[b[1]] = "open"
  BY DEF Inv, SameButInput
<1> QED
  BY <1>1, <1>2, <1>3, <1>4 DEF Inv

LEMMA StartedInv ==
    ASSUME NEW t, Inv(t), NEW c \in Clients, t.conn[c] = "open", c \notin t.quit,
           t.todo[c] = <<>>, NEW k \in Types \cup {"garbage"},
           k = "exit" => /\ t.exiting = NIL
                         /\ \A d \in Clients : \A i \in Nat : ~ ExitAt(t, d, i),
           NEW u \in States, SameButInput(t, u, c), u.pending = t.pending,
           Stream(u, c) = Stream(t, c) \o Command(k)
    PROVE  Inv(u)
<1>1. t \in States
  BY DEF Inv
<1>2. PICK q \in Seq(Units) : q = Stream(t, c)
  BY <1>1, HeardType
<1>3. PICK p \in Seq(Units) : p = Command(k)
  BY CommandType
<1>4. /\ p # <<>> /\ p[1] \in Starts /\ Grammatical(p)
      /\ \A j \in 1..Len(p) : p[j] = "exit" => k = "exit" /\ j = 2
  BY <1>3, CommandType
<1>5. Stream(u, c) = q \o p /\ Grammatical(q)
  BY <1>2, <1>3 DEF Inv, WellFormed
<1>6. WellFormed(u, c)
  <2>1. Grammatical(q \o p)
    BY <1>4, <1>5, GrammaticalConcat
  <2>2. CASE q = <<>>
    <3>1. q \o p = p
      BY <2>2, NothingBefore
    <3>2. t.pending[c] # NIL => t.pending[c] \in WithBody
      BY DEF Inv, WellFormed
    <3> QED
      BY <1>4, <1>5, <2>1, <3>1, <3>2 DEF WellFormed
  <2>3. CASE q # <<>>
    <3>1. (q \o p)[1] = q[1]
      BY <2>3
    <3>2. IF t.pending[c] # NIL THEN t.pending[c] \in WithBody ELSE q[1] \in Starts
      BY <1>2, <2>3 DEF Inv, WellFormed
    <3> QED
      BY <1>5, <2>1, <3>1, <3>2 DEF WellFormed
  <2> QED
    BY <2>2, <2>3
<1>7. ASSUME NEW i \in Nat, ExitAt(u, c, i)
      PROVE  \/ k = "exit" /\ i = Len(q) + 2
             \/ ExitAt(t, c, i)
  <2>1. i \in 1..Len(q \o p) /\ (q \o p)[i] = "exit"
    BY <1>5, <1>7 DEF ExitAt
  <2>2. \/ i \in 1..Len(q) /\ q[i] = "exit"
        \/ i - Len(q) \in 1..Len(p) /\ p[i - Len(q)] = "exit"
    BY <2>1, ConcatFinds
  <2>3. Len(q) \in Nat
    OBVIOUS
  <2> QED
    BY <1>2, <1>4, <2>2, <2>3 DEF ExitAt
<1>8. \A d \in Clients \ {c} : \A i \in Nat : ExitAt(u, d, i) => ExitAt(t, d, i)
  BY DEF SameButInput, SameInput, Stream, Heard, ExitAt
<1>9. u.exiting = t.exiting /\ u.phase = t.phase /\ OneExit(t)
  BY DEF SameButInput, SameServer, Inv
<1>10. OneExit(u)
  <2>1. CASE k = "exit"
    <3>1. \A d \in Clients : \A i \in Nat : ExitAt(u, d, i) => d = c /\ i = Len(q) + 2
      BY <1>7, <1>8, <2>1
    <3> QED
      BY <1>9, <2>1, <3>1 DEF OneExit
  <2>2. CASE k # "exit"
    <3>1. \A d \in Clients : \A i \in Nat : ExitAt(u, d, i) => ExitAt(t, d, i)
      BY <1>7, <1>8, <2>2
    <3> QED
      BY <1>9, <3>1 DEF OneExit
  <2> QED
    BY <2>1, <2>2
<1> QED
  BY <1>6, <1>10, InputInv

-----------------------------------------------------------------------------
(* What IpcService sees of a client.                                       *)

ConnOf(t, c) == IF c \in t.quit THEN "gone" ELSE t.conn[c]
AskedBy(t, c) == IF t.conn[c] # "open" \/ c \in t.quit THEN <<>> ELSE AskedOf(t, c)
ToldTo(t, c) == IF t.conn[c] # "open" \/ c \in t.quit THEN <<>> ELSE Mail(t, c)

SameView(t, u, c) ==
    ConnOf(u, c) = ConnOf(t, c) /\ AskedBy(u, c) = AskedBy(t, c) /\ ToldTo(u, c) = ToldTo(t, c)
AllSame(t, u) == \A c \in Clients : SameView(t, u, c)

(* One client connects, has sent a command, or has received a message.     *)
Connected(t, u, c) ==
    /\ ConnOf(t, c) = "new" /\ ConnOf(u, c) = "open"
    /\ AskedBy(u, c) = AskedBy(t, c) /\ ToldTo(u, c) = ToldTo(t, c)
HasAsked(t, u, c) ==
    /\ ConnOf(t, c) = "open" /\ ConnOf(u, c) = "open" /\ ToldTo(u, c) = ToldTo(t, c)
    /\ \E k \in Types : AskedBy(u, c) = Append(AskedBy(t, c), k)
HasReceived(t, u, c) ==
    /\ ConnOf(u, c) = ConnOf(t, c) /\ AskedBy(u, c) = AskedBy(t, c)
    /\ ToldTo(t, c) # <<>> /\ ToldTo(u, c) = Tail(ToldTo(t, c))
HasLeft(t, u, c) == ConnOf(t, c) = "open" /\ ConnOf(u, c) = "gone"
                      /\ AskedBy(u, c) = <<>> /\ ToldTo(u, c) = <<>>

OthersSame(t, u, c) == \A d \in Clients \ {c} : SameView(t, u, d)

ClientStep(t, u) ==
    \/ AllSame(t, u)
    \/ \E c \in Clients :
          /\ OthersSame(t, u, c)
          /\ Connected(t, u, c) \/ HasAsked(t, u, c) \/ HasReceived(t, u, c) \/ HasLeft(t, u, c)

(* A client connects, writes on, begins a command, or goes.                *)
WithConnected(t, c) ==
    [t EXCEPT !.conn[c] = "open", !.list = Append(@, c), !.size[c] = InitialSize]
WithPushed(t, c) == [t EXCEPT !.todo[c] = Tail(@), !.inbox[c] = Append(@, Head(t.todo[c]))]
WithBegun(t, c, k) ==
    [t EXCEPT !.todo[c] = Tail(Command(k)), !.inbox[c] = Append(@, Head(Command(k))),
              !.sent = @ + 1]
WithLeft(t, c) == [t EXCEPT !.quit = @ \union {c}, !.wire[c] = <<>>, !.todo[c] = <<>>]

MayBegin(t, k) ==
    k = "exit" => /\ t.phase = "run"
                  /\ \A d \in Clients : /\ ~ Contains(t.inbox[d], "exit")
                                        /\ t.pending[d] # "exit"
                                        /\ ~ Contains(t.todo[d], "exit")

LEMMA ViewKept ==
    ASSUME NEW t, NEW u, NEW c, SameClient(t, u, c),
           c \in u.quit <=> c \in t.quit, u.exiting = c <=> t.exiting = c
    PROVE  SameView(t, u, c)
<1>1. u.conn[c] = t.conn[c] /\ Heard(u, c) = Heard(t, c) /\ Mail(u, c) = Mail(t, c)
  BY SameHeard DEF SameClient, Mail
<1>2. AskedOf(u, c) = AskedOf(t, c)
  BY <1>1 DEF AskedOf
<1> QED
  BY <1>1, <1>2 DEF SameView, ConnOf, AskedBy, ToldTo

LEMMA HeardMore ==
    ASSUME NEW t \in States, NEW u, NEW c \in Clients, t.conn[c] = "open", c \notin t.quit,
           SameButInput(t, u, c), NEW h \in Units, Heard(u, c) = Append(Heard(t, c), h)
    PROVE  /\ OthersSame(t, u, c)
           /\ h \in Types => HasAsked(t, u, c)
           /\ h \notin Types => AllSame(t, u)
<1>1. /\ u.conn = t.conn /\ u.wire = t.wire /\ u.out = t.out
      /\ u.exiting = t.exiting /\ u.quit = t.quit
  BY DEF SameButInput, SameServer
<1>2. ASSUME NEW d \in Clients \ {c} PROVE SameView(t, u, d)
  <2>1. SameClient(t, u, d)
    BY DEF SameButInput, SameInput, SameClient
  <2> QED
    BY <1>1, <2>1, ViewKept
<1>3. PICK q \in Seq(Units) : q = Heard(t, c)
  BY HeardType
<1>4. Chosen(Append(q, h), Types) = IF h \in Types THEN Append(Chosen(q, Types), h)
                                    ELSE Chosen(q, Types)
  BY ChosenAppend
<1>5. ConnOf(u, c) = "open" /\ ConnOf(t, c) = "open" /\ ToldTo(u, c) = ToldTo(t, c)
  BY <1>1 DEF ConnOf, ToldTo, Mail
<1>6. AskedBy(u, c) = AskedOf(u, c) /\ AskedBy(t, c) = AskedOf(t, c)
  BY <1>1 DEF AskedBy
<1>7. CASE h \in Types
  <2>1. PICK X \in Seq(Units) : X = IF t.exiting = c THEN <<"exit">> ELSE <<>>
    <3>1. <<"exit">> \in Seq(Units) /\ <<>> \in Seq(Units)
      BY UnitsType
    <3>2. PICK x \in Seq(Units), y \in Seq(Units) : x = <<"exit">> /\ y = <<>>
      BY <3>1
    <3> QED
      BY <3>2
  <2>2. PICK r \in Seq(Units) : r = Chosen(q, Types)
    BY ChosenType
  <2>3. X \o Append(r, h) = Append(X \o r, h)
    BY ConcatAppend
  <2>4. AskedOf(t, c) = X \o r /\ AskedOf(u, c) = X \o Append(r, h)
    BY <1>1, <1>3, <1>4, <1>7, <2>1, <2>2 DEF AskedOf
  <2>5. AskedBy(u, c) = Append(AskedBy(t, c), h)
    BY <1>6, <2>3, <2>4
  <2>6. HasAsked(t, u, c)
    BY <1>5, <1>7, <2>5 DEF HasAsked
  <2> QED
    BY <1>2, <1>7, <2>6 DEF OthersSame
<1>8. CASE h \notin Types
  <2>1. AskedOf(u, c) = AskedOf(t, c)
    BY <1>1, <1>3, <1>4, <1>8 DEF AskedOf
  <2>2. SameView(t, u, c)
    BY <1>5, <1>6, <2>1 DEF SameView
  <2> QED
    BY <1>2, <1>8, <2>2 DEF OthersSame, AllSame
<1> QED
  BY <1>7, <1>8

LEMMA PushStep ==
    ASSUME NEW t, Inv(t), NEW c \in Clients, t.conn[c] = "open", c \notin t.quit,
           t.todo[c] # <<>>,
           NEW u, u = WithPushed(t, c)
    PROVE  Inv(u) /\ ClientStep(t, u)
<1>1. t \in States
  BY DEF Inv
<1>2. PICK q \in Seq(Units) : q = t.todo[c]
  BY <1>1, HeardType
<1>3. q[1] \in Units /\ Tail(q) \in Seq(Units) /\ q = <<q[1]>> \o Tail(q)
  BY <1>2, FirstAndRest
<1>4. PICK h \in Units, r \in Seq(Units) : h = q[1] /\ r = Tail(q)
  BY <1>3
<1>5. t.todo[c] = <<h>> \o r
  BY <1>2, <1>3, <1>4
<1>6. u = WithStream(t, c, Append(t.inbox[c], h), r)
  <2>1. h = Head(t.todo[c]) /\ r = Tail(t.todo[c])
    BY <1>2, <1>4
  <2> QED
    BY <1>1, <2>1 DEF WithStream, WithPushed, States
<1>7. Inv(u) /\ SameButInput(t, u, c) /\ Heard(u, c) = Append(Heard(t, c), h)
  <2>1. LET w == WithStream(t, c, Append(t.inbox[c], h), r)
        IN  Inv(w) /\ SameButInput(t, w, c) /\ Heard(w, c) = Append(Heard(t, c), h)
    BY <1>5, PushedInv
  <2> QED
    BY <1>6, <2>1
<1>8. /\ OthersSame(t, u, c)
      /\ h \in Types => HasAsked(t, u, c)
      /\ h \notin Types => AllSame(t, u)
  BY <1>1, <1>7, HeardMore
<1> QED
  BY <1>7, <1>8 DEF ClientStep

LEMMA StartStep ==
    ASSUME NEW t, Inv(t), NEW c \in Clients, t.conn[c] = "open", c \notin t.quit,
           t.todo[c] = <<>>, t.sent < MaxCommands, NEW k \in Types \cup {"garbage"},
           MayBegin(t, k), NEW u, u = WithBegun(t, c, k)
    PROVE  Inv(u) /\ ClientStep(t, u)
<1>1. t \in States
  BY DEF Inv
<1>2. PICK p \in Seq(Units) : p = Command(k) /\ p # <<>> /\ p[1] \in Starts
  BY CommandType
<1>3. p[1] \in Units /\ Tail(p) \in Seq(Units) /\ p = <<p[1]>> \o Tail(p)
  BY <1>2, FirstAndRest
<1>4. PICK h \in Units, r \in Seq(Units) : h = p[1] /\ r = Tail(p)
  BY <1>3
<1> DEFINE v == [t EXCEPT !.sent = @ + 1]
<1>5. /\ v \in States /\ v.quit = t.quit /\ v.exiting = t.exiting /\ v.phase = t.phase
      /\ v.list = t.list /\ v.batch = t.batch /\ v.conn = t.conn /\ v.crash = t.crash
      /\ v.pending = t.pending /\ v.todo = t.todo /\ v.inbox = t.inbox
      /\ v.wire = t.wire /\ v.out = t.out /\ v.subs = t.subs /\ v.size = t.size
  <2>1. t.sent + 1 \in 0..MaxCommands
    BY SMTT(20), <1>1, IpcAssumption DEF States
  <2> QED
    BY <1>1, <2>1 DEF States
<1>6. u = WithStream(v, c, Append(v.inbox[c], h), r)
  <2>1. h = Head(Command(k)) /\ r = Tail(Command(k))
    BY <1>2, <1>4
  <2> QED
    BY <1>1, <2>1 DEF WithStream, WithBegun, States
<1> HIDE DEF v
<1>7. \A d \in Clients : SameClient(t, v, d)
  BY <1>5 DEF SameClient
<1>8. Inv(v)
  BY <1>5, <1>7, SameClientsInv
<1>9. LET w == WithStream(v, c, Append(v.inbox[c], h), r)
      IN  /\ w \in States /\ SameButInput(v, w, c) /\ w.pending = v.pending
          /\ w.todo[c] = r /\ Heard(w, c) = Append(Heard(v, c), h)
  BY <1>5, InputAppended
<1>10. /\ u \in States /\ SameButInput(v, u, c) /\ u.pending = v.pending /\ u.todo[c] = r
  BY <1>6, <1>9
<1>11. Heard(u, c) = Append(Heard(v, c), h)
  BY <1>6, <1>9
<1>12. Stream(u, c) = Stream(v, c) \o Command(k)
  <2>1. PICK q \in Seq(Units) : q = Heard(v, c)
    BY <1>5, HeardType
  <2>2. Append(q, h) \o r = q \o (<<h>> \o r)
    BY AppendMoved
  <2>3. q \o <<>> = q
    BY NothingBefore
  <2>4. Stream(v, c) = q /\ Stream(u, c) = Append(q, h) \o r
    BY <1>5, <1>10, <1>11, <2>1, <2>3 DEF Stream
  <2> QED
    BY <1>2, <1>3, <1>4, <2>2, <2>4
<1>13. k = "exit" => /\ v.exiting = NIL
                     /\ \A d \in Clients : \A j \in Nat : ~ ExitAt(v, d, j)
  BY <1>5, <1>8, NobodyExits DEF MayBegin
<1>14. Inv(u)
  BY <1>5, <1>8, <1>10, <1>12, <1>13, StartedInv
<1>15. h \notin Types
  BY <1>2, <1>4 DEF Starts, Types, Known, Unknown, Queries, WithBody
<1>16. AllSame(v, u)
  BY <1>5, <1>10, <1>11, <1>15, HeardMore
<1>17. AllSame(t, v)
  BY <1>5, <1>7, ViewKept DEF AllSame
<1> QED
  BY <1>14, <1>16, <1>17 DEF AllSame, SameView, ClientStep

LEMMA HeardSame ==
    ASSUME NEW t, NEW u, NEW c, u.pending[c] = t.pending[c], u.inbox[c] = t.inbox[c]
    PROVE  Heard(u, c) = Heard(t, c) /\ (u.todo[c] = t.todo[c] => Stream(u, c) = Stream(t, c))
<1>1. Heard(u, c) = Heard(t, c)
  BY DEF Heard
<1> QED
  BY <1>1 DEF Stream

LEMMA MessagesChosen ==
    ASSUME NEW x \in Buffered, NEW y \in Seq(Buffered), NEW o \in Seq(Buffered)
    PROVE  LET all == Chosen((<<x>> \o y) \o o, Messages)
               left == Chosen(y \o o, Messages)
           IN  IF x \in Messages THEN all # <<>> /\ left = Tail(all) ELSE left = all
<1>1. <<x>> \in Seq(Buffered)
  OBVIOUS
<1>2. PICK p \in Seq(Buffered) : p = <<x>>
  BY <1>1
<1>3. (p \o y) \o o = p \o (y \o o)
  BY ConcatAssociative
<1>4. PICK z \in Seq(Buffered) : z = y \o o
  BY ConcatElements
<1>5. Chosen(p \o z, Messages) = Chosen(p, Messages) \o Chosen(z, Messages)
  BY SMTT(20), ChosenConcat
<1>6. PICK m \in Seq(Buffered) : m = Chosen(z, Messages)
  BY ChosenType
<1>7. Chosen(p, Messages) = IF x \in Messages THEN <<x>> ELSE <<>>
  BY <1>2, ChosenOne
<1>8. <<>> \o m = m
  BY NothingBefore
<1>9. <<x>> \o m # <<>> /\ Tail(<<x>> \o m) = m
  OBVIOUS
<1> QED
  BY <1>2, <1>3, <1>4, <1>5, <1>6, <1>7, <1>8, <1>9

LEMMA ClientReadStep ==
    ASSUME NEW t, Inv(t), NEW c \in Clients, c \notin t.quit, t.wire[c] # <<>>,
           NEW u, u = [t EXCEPT !.wire[c] = Tail(@)]
    PROVE  Inv(u) /\ ClientStep(t, u)
<1>1. t \in States /\ t.conn[c] # "new" /\ Len(t.wire[c]) <= Capacity
  BY DEF Inv, Dormant, Unused, Roomy
<1>2. PICK w \in Seq(Buffered), o \in Seq(Buffered) : w = t.wire[c] /\ o = t.out[c]
  BY <1>1, HeardType
<1>3. w[1] \in Buffered /\ Tail(w) \in Seq(Buffered) /\ w = <<w[1]>> \o Tail(w)
  BY <1>2, FirstAndRest
<1>4. PICK x \in Buffered, y \in Seq(Buffered) : x = w[1] /\ y = Tail(w)
  BY <1>3
<1>5. u = WithMail(t, c, y, o)
  BY <1>1, <1>2, <1>4 DEF WithMail, States
<1>6. Len(y) <= Capacity /\ Len(o) <= Len(t.out[c])
  <2>1. Len(y) = Len(w) - 1 /\ Len(w) \in Nat /\ Capacity \in Nat
    BY <1>2, <1>4, IpcAssumption
  <2> QED
    BY <1>1, <1>2, <2>1
<1>7. /\ Inv(u) /\ SameServer(t, u) /\ SameInput(t, u, c)
      /\ u.wire[c] = y /\ u.out[c] = o
      /\ \A d \in Clients \ {c} : SameClient(t, u, d)
  <2>1. LET v == WithMail(t, c, y, o)
        IN  /\ Inv(v) /\ SameServer(t, v) /\ v.crash = t.crash
            /\ SameInput(t, v, c) /\ v.wire[c] = y /\ v.out[c] = o
            /\ \A d \in Clients \ {c} : SameClient(t, v, d)
    BY <1>1, <1>6, MailMoved
  <2> QED
    BY <1>5, <2>1
<1>8. u.quit = t.quit /\ u.exiting = t.exiting /\ u.conn[c] = t.conn[c]
      /\ Heard(u, c) = Heard(t, c)
  <2>1. u.pending[c] = t.pending[c] /\ u.inbox[c] = t.inbox[c]
    BY <1>7 DEF SameInput
  <2>2. Heard(u, c) = Heard(t, c)
    BY <2>1, HeardSame
  <2> QED
    BY <1>7, <2>2 DEF SameServer, SameInput
<1>9. OthersSame(t, u, c)
  BY <1>7, <1>8, ViewKept DEF OthersSame
<1>10. ConnOf(u, c) = ConnOf(t, c) /\ AskedBy(u, c) = AskedBy(t, c)
  BY <1>8 DEF ConnOf, AskedBy, AskedOf
<1>11. t.wire[c] \o t.out[c] = (<<x>> \o y) \o o /\ u.wire[c] \o u.out[c] = y \o o
  BY <1>2, <1>3, <1>4, <1>7
<1>12. \/ Mail(t, c) # <<>> /\ Mail(u, c) = Tail(Mail(t, c))
       \/ Mail(u, c) = Mail(t, c)
  <2>1. LET all == Chosen((<<x>> \o y) \o o, Messages)
            left == Chosen(y \o o, Messages)
        IN  IF x \in Messages THEN all # <<>> /\ left = Tail(all) ELSE left = all
    BY MessagesChosen
  <2> QED
    BY <1>11, <2>1 DEF Mail
<1>13. CASE t.conn[c] # "open" \/ Mail(u, c) = Mail(t, c)
  <2>1. SameView(t, u, c)
    BY <1>8, <1>10, <1>13 DEF SameView, ToldTo
  <2> QED
    BY <1>7, <1>9, <2>1 DEF OthersSame, AllSame, ClientStep
<1>14. CASE t.conn[c] = "open" /\ Mail(t, c) # <<>> /\ Mail(u, c) = Tail(Mail(t, c))
  <2>1. HasReceived(t, u, c)
    BY <1>8, <1>10, <1>14 DEF HasReceived, ToldTo
  <2> QED
    BY <1>7, <1>9, <2>1 DEF ClientStep
<1> QED
  BY <1>12, <1>13, <1>14

LEMMA QuitStep ==
    ASSUME NEW t, Inv(t), NEW c \in Clients, t.conn[c] = "open", c \notin t.quit,
           NEW u, u = WithLeft(t, c)
    PROVE  Inv(u) /\ ClientStep(t, u)
<1>1. t \in States
  BY DEF Inv
<1>2. u \in States
  <2>1. <<>> \in Seq(Buffered) /\ <<>> \in Seq(Units)
    BY NothingSequence
  <2>2. /\ [t.wire EXCEPT ![c] = <<>>] \in [Clients -> Seq(Buffered)]
        /\ [t.todo EXCEPT ![c] = <<>>] \in [Clients -> Seq(Units)]
        /\ t.quit \cup {c} \in SUBSET Clients
    BY <1>1, <2>1 DEF States
  <2> QED
    BY <1>1, <2>2 DEF States, WithLeft
<1>3. /\ u.quit = t.quit \cup {c} /\ u.exiting = t.exiting /\ u.phase = t.phase
      /\ u.list = t.list /\ u.batch = t.batch /\ u.conn = t.conn
      /\ u.pending = t.pending /\ u.inbox = t.inbox
      /\ u.out = t.out /\ u.subs = t.subs /\ u.size = t.size
      /\ u.wire = [t.wire EXCEPT ![c] = <<>>] /\ u.todo = [t.todo EXCEPT ![c] = <<>>]
  BY <1>1 DEF States, WithLeft
<1>4. u.wire[c] = <<>> /\ u.todo[c] = <<>>
      /\ \A d \in Clients \ {c} : u.wire[d] = t.wire[d] /\ u.todo[d] = t.todo[d]
  BY <1>1, <1>3 DEF States
<1>5. \A d \in Clients \ {c} : SameClient(t, u, d)
  BY <1>3, <1>4 DEF SameClient
<1>6. Listed(u) /\ \A b \in u.batch : u.conn[b[1]] = "open"
  BY <1>3 DEF Inv, Listed
<1>7. Roomy(u)
  <2>1. \A d \in Clients : Len(u.wire[d]) <= Capacity
    <3>1. Len(<<>>) = 0 /\ 0 <= Capacity
      BY IpcAssumption
    <3>2. \A d \in Clients : Len(t.wire[d]) <= Capacity
      BY DEF Inv, Roomy
    <3> QED
      BY <1>4, <3>1, <3>2
  <2> QED
    BY <1>3, <2>1 DEF Inv, Roomy
<1>8. \A d \in Clients : Dormant(u, d)
  BY <1>3, <1>4 DEF Inv, Dormant, Unused, Silent
<1>9. \A d \in Clients \ {c} : Stream(u, d) = Stream(t, d)
  <2> SUFFICES ASSUME NEW d \in Clients \ {c} PROVE Stream(u, d) = Stream(t, d)
    OBVIOUS
  <2>1. u.pending[d] = t.pending[d] /\ u.inbox[d] = t.inbox[d] /\ u.todo[d] = t.todo[d]
    BY <1>3, <1>4
  <2> QED
    BY <2>1, HeardSame
<1>10. \A d \in Clients : d \notin u.quit => WellFormed(u, d)
  <2> SUFFICES ASSUME NEW d \in Clients, d \notin u.quit PROVE WellFormed(u, d)
    OBVIOUS
  <2>1. d # c /\ WellFormed(t, d) /\ u.pending[d] = t.pending[d]
    BY <1>3 DEF Inv
  <2> QED
    BY <1>9, <2>1, SameWellFormed
<1>11. \A d \in Clients : \A i \in Nat : ExitAt(u, d, i) => ExitAt(t, d, i)
  <2>1. ASSUME NEW i \in Nat, ExitAt(u, c, i) PROVE ExitAt(t, c, i)
    <3>1. PICK q \in Seq(Units), r \in Seq(Units) : q = Heard(t, c) /\ r = t.todo[c]
      BY <1>1, HeardType
    <3>2. PICK w \in Seq(Units) : w = q \o r
      BY ConcatElements
    <3>3. Len(w) = Len(q) + Len(r) /\ \A j \in 1..Len(q) : w[j] = q[j]
      BY <3>2, ConcatElements
    <3>4. q \o <<>> = q
      BY NothingBefore
    <3>5. Heard(u, c) = q
      <4>1. u.pending[c] = t.pending[c] /\ u.inbox[c] = t.inbox[c]
        BY <1>3
      <4>2. Heard(u, c) = Heard(t, c)
        BY <4>1, HeardSame
      <4> QED
        BY <3>1, <4>2
    <3>6. Stream(u, c) = q /\ Stream(t, c) = w
      BY <1>4, <3>1, <3>2, <3>4, <3>5 DEF Stream
    <3>7. i \in 1..Len(q) /\ q[i] = "exit"
      BY <2>1, <3>6 DEF ExitAt
    <3>8. i \in 1..Len(w) /\ w[i] = "exit"
      BY <3>3, <3>7
    <3> QED
      BY <3>6, <3>8 DEF ExitAt
  <2>2. \A d \in Clients \ {c} : \A i \in Nat : ExitAt(u, d, i) => ExitAt(t, d, i)
    BY <1>9 DEF ExitAt
  <2> QED
    BY <2>1, <2>2
<1>12. OneExit(u)
  BY <1>3, <1>11 DEF Inv, OneExit
<1>13. Inv(u)
  BY <1>2, <1>6, <1>7, <1>8, <1>10, <1>12 DEF Inv
<1>14. OthersSame(t, u, c)
  BY <1>3, <1>5, ViewKept DEF OthersSame
<1>15. HasLeft(t, u, c)
  BY <1>3 DEF HasLeft, ConnOf, AskedBy, ToldTo
<1> QED
  BY <1>13, <1>14, <1>15 DEF ClientStep

LEMMA ConnectStep ==
    ASSUME NEW t, Inv(t), NEW c \in Clients, t.phase = "run", t.conn[c] = "new",
           NEW u, u = WithConnected(t, c)
    PROVE  Inv(u) /\ ClientStep(t, u)
<1>1. t \in States /\ t.list \in Seq(Clients)
  BY DEF Inv, States
<1>0. InitialSize \in Nat \ {0} /\ MaxSize \in Nat /\ InitialSize <= MaxSize /\ NIL \notin Clients
  BY IpcAssumption
<1>2. PICK l \in Seq(Clients) : l = Append(t.list, c)
  BY <1>1, AppendProperties
<1>3. u \in States
  BY <1>0, <1>1, <1>2 DEF States, WithConnected
<1>4. /\ u.quit = t.quit /\ u.exiting = t.exiting /\ u.phase = t.phase
      /\ u.list = Append(t.list, c) /\ u.batch = t.batch
      /\ u.pending = t.pending /\ u.inbox = t.inbox /\ u.todo = t.todo
      /\ u.wire = t.wire /\ u.out = t.out /\ u.subs = t.subs
      /\ u.conn = [t.conn EXCEPT ![c] = "open"] /\ u.size = [t.size EXCEPT ![c] = InitialSize]
  BY <1>1 DEF States, WithConnected
<1>5. u.conn[c] = "open" /\ u.size[c] = InitialSize
      /\ \A d \in Clients \ {c} : u.conn[d] = t.conn[d] /\ u.size[d] = t.size[d]
  BY <1>1, <1>4 DEF States
<1>6. \A d \in Clients \ {c} : SameClient(t, u, d)
  BY <1>4, <1>5 DEF SameClient
<1>7. /\ c \notin t.quit /\ t.pending[c] = NIL /\ t.exiting = NIL
      /\ t.todo[c] = <<>> /\ t.inbox[c] = <<>> /\ t.wire[c] = <<>> /\ t.out[c] = <<>>
  <2>1. Unused(t, c) /\ OneExit(t)
    BY DEF Inv, Dormant
  <2> QED
    BY <2>1 DEF Unused, OneExit
<1>8. Listed(u)
  <2>1. PICK q \in Seq(Clients) : q = t.list
    BY <1>1
  <2>2. /\ Len(l) = Len(q) + 1 /\ l[Len(q) + 1] = c
        /\ \A i \in 1..Len(q) : l[i] = q[i]
    BY <1>2, <2>1, AppendProperties
  <2>3. ToSet(q) = {d \in Clients : t.conn[d] = "open"} /\ IsInjective(q) /\ c \notin ToSet(q)
    BY <2>1 DEF Inv, Listed
  <2>4. DOMAIN q = 1..Len(q) /\ DOMAIN l = 1..(Len(q) + 1) /\ Len(q) \in Nat
    BY <2>2
  <2>5. ToSet(l) = ToSet(q) \cup {c}
    BY <2>2, <2>4 DEF ToSet
  <2>6. IsInjective(l)
    <3> SUFFICES ASSUME NEW i \in DOMAIN l, NEW j \in DOMAIN l, l[i] = l[j] PROVE i = j
      BY DEF IsInjective
    <3>1. \A m \in 1..Len(q) : q[m] # c
      BY <2>3, <2>4 DEF ToSet
    <3>2. CASE i \in 1..Len(q) /\ j \in 1..Len(q)
      BY <2>2, <2>3, <2>4, <3>2 DEF IsInjective
    <3>3. CASE i = Len(q) + 1 \/ j = Len(q) + 1
      BY <2>2, <2>4, <3>1, <3>3
    <3> QED
      BY <2>4, <3>2, <3>3
  <2>7. ToSet(l) = {d \in Clients : u.conn[d] = "open"}
    BY <1>5, <2>3, <2>5
  <2> QED
    BY <1>2, <1>4, <2>6, <2>7 DEF Listed
<1>9. Roomy(u)
  <2>1. Len(u.out[c]) < u.size[c] /\ u.size[c] <= MaxSize
    <3>1. Len(<<>>) = 0
      OBVIOUS
    <3> QED
      BY <1>0, <1>4, <1>5, <1>7, <3>1
  <2>2. \A d \in Clients \ {c} :
          u.conn[d] = "open" => Len(u.out[d]) < u.size[d] /\ u.size[d] <= MaxSize
    BY <1>4, <1>5 DEF Inv, Roomy
  <2> QED
    BY <1>4, <2>1, <2>2 DEF Inv, Roomy
<1>10. \A d \in Clients : Dormant(u, d)
  BY <1>4, <1>5 DEF Inv, Dormant, Unused, Silent
<1>11. \A b \in u.batch : u.conn[b[1]] = "open"
  <2> SUFFICES ASSUME NEW b \in u.batch PROVE u.conn[b[1]] = "open"
    OBVIOUS
  <2>1. b[1] \in Clients /\ t.conn[b[1]] = "open"
    BY <1>1, <1>4 DEF Inv, States
  <2> QED
    BY <1>5, <2>1
<1>12. \A d \in Clients : Stream(u, d) = Stream(t, d)
  <2> SUFFICES ASSUME NEW d \in Clients PROVE Stream(u, d) = Stream(t, d)
    OBVIOUS
  <2>1. u.pending[d] = t.pending[d] /\ u.inbox[d] = t.inbox[d] /\ u.todo[d] = t.todo[d]
    BY <1>4
  <2> QED
    BY <2>1, HeardSame
<1>13. \A d \in Clients : d \notin u.quit => WellFormed(u, d)
  BY <1>4, <1>12 DEF Inv, WellFormed
<1>14. OneExit(u)
  BY <1>4, <1>12 DEF Inv, OneExit, ExitAt
<1>15. Inv(u)
  BY <1>3, <1>8, <1>9, <1>10, <1>11, <1>13, <1>14 DEF Inv
<1>16. OthersSame(t, u, c)
  BY <1>4, <1>6, ViewKept DEF OthersSame
<1>17. Connected(t, u, c)
  <2>1. <<>> \o <<>> = <<>>
    BY NothingSequence, NothingBefore
  <2>2. Heard(u, c) = <<>> \o <<>>
    BY <1>4, <1>7 DEF Heard
  <2>3. AskedOf(u, c) = <<>>
    BY <1>0, <1>4, <1>7, <2>1, <2>2, ChosenEmpty DEF AskedOf
  <2>4. Mail(u, c) = <<>>
    <3>1. u.wire[c] \o u.out[c] = <<>>
      BY <1>4, <1>7, <2>1
    <3>2. Mail(u, c) = Chosen(<<>>, Messages)
      BY <3>1 DEF Mail
    <3> QED
      BY <3>2, ChosenEmpty
  <2> QED
    BY <1>4, <1>5, <1>7, <2>3, <2>4 DEF Connected, ConnOf, AskedBy, ToldTo
<1> QED
  BY <1>15, <1>16, <1>17 DEF ClientStep

-----------------------------------------------------------------------------
(* Every step of the server and of its clients is one that IpcService has. *)

LEMMA ReadableStep ==
    ASSUME Inv(s), NEW c \in Clients, Readable(c) \/ Writable(c)
    PROVE  Inv(s') /\ OneServed(s, s')
<1>1. s.conn[c] = "open" /\ (s' \in HandleReadable(s, c) \/ s' \in HandleWritable(s, c))
  BY DEF Readable, Writable, BecomesOneOf
<1> QED
  BY <1>1, HandleReadableStep, HandleWritableStep

LEMMA ServerActions ==
    ASSUME Inv(s),
           \/ \E e \in Events \ {"tick", "shutdown"} : Event(e)
           \/ TermSignal \/ (\E b \in s.batch : Nested(b)) \/ ExitDone \/ Shutdown
    PROVE  Inv(s') /\ OneServed(s, s')
<1>1. ASSUME NEW e \in Events \ {"tick", "shutdown"}, Event(e)
      PROVE  Inv(s') /\ OneServed(s, s')
  <2>1. s.news < MaxNews /\ s' = SendEvent([s EXCEPT !.news = @ + 1], e)
    BY <1>1 DEF Event, Becomes
  <2> QED
    BY <2>1, EventStep
<1>2. CASE TermSignal
  <2>1. s.news < MaxNews /\ s.phase = "run" /\ s' = Terminate([s EXCEPT !.news = @ + 1], NIL)
    BY <1>2 DEF TermSignal, Becomes, Listening
  <2> QED
    BY <2>1, TermSignalStep
<1>3. ASSUME NEW b \in s.batch, Nested(b) PROVE Inv(s') /\ OneServed(s, s')
  <2>1. LET v == [s EXCEPT !.batch = @ \ {b}]
        IN s' \in IF b[2] = "in" THEN HandleReadable(v, b[1]) ELSE HandleWritable(v, b[1])
    BY <1>3 DEF Nested, BecomesOneOf
  <2> QED
    BY <2>1, NestedStep
<1>4. CASE ExitDone
  <2>1. s' = IF s.exiting = NIL THEN Flushed(s, "stop")
             ELSE Reply(Flushed(s, "stop"), s.exiting, "exit")
    BY <1>4 DEF ExitDone, Becomes, Flushed
  <2> QED
    BY <2>1, ExitDoneStep
<1>5. CASE Shutdown
  <2>1. /\ s.phase = "stop"
        /\ s' = Repeated([t \in States |-> LastRemoved(t)],
                         [s EXCEPT !.phase = "down"], Len(s.list))
    BY <1>5 DEF Shutdown, Becomes
  <2>2. Len(s.list) \in Nat
    BY DEF Inv, States
  <2> QED
    BY <2>1, <2>2, ShutdownStep
<1> QED
  BY <1>1, <1>2, <1>3, <1>4, <1>5

LEMMA StartAction ==
    ASSUME Inv(s), NEW c \in Clients, NEW k \in Sends[c], Start(c, k)
    PROVE  Inv(s') /\ ClientStep(s, s')
<1>1. k \in Types \cup {"garbage"}
  BY IpcAssumption
<1>2. Live(c) /\ s.todo[c] = <<>> /\ s.sent < MaxCommands
  BY DEF Start
<1>3. MayBegin(s, k)
  BY Zenon DEF Start, MayBegin
<1>4. Becomes(WithBegun(s, c, k))
  BY Zenon DEF Start, WithBegun
<1>5. s' = WithBegun(s, c, k)
  BY <1>4 DEF Becomes
<1> QED
  BY <1>1, <1>2, <1>3, <1>5, StartStep DEF Live

LEMMA ClientActions ==
    ASSUME Inv(s), NEW c \in Clients,
           Connect(c) \/ Push(c) \/ ClientRead(c) \/ Quit(c) \/ \E k \in Sends[c] : Start(c, k)
    PROVE  Inv(s') /\ ClientStep(s, s')
<1>1. CASE Connect(c)
  <2>1. s.phase = "run" /\ s.conn[c] = "new" /\ s' = WithConnected(s, c)
    BY <1>1 DEF Connect, Listening, Becomes, WithConnected
  <2> QED
    BY <2>1, ConnectStep
<1>2. CASE Push(c)
  <2>1. /\ s.conn[c] = "open" /\ c \notin s.quit /\ s.todo[c] # <<>>
        /\ s' = WithPushed(s, c)
    BY <1>2 DEF Push, Live, Becomes, WithPushed
  <2> QED
    BY <2>1, PushStep
<1>3. CASE ClientRead(c)
  <2>1. c \notin s.quit /\ s.wire[c] # <<>> /\ s' = [s EXCEPT !.wire[c] = Tail(@)]
    BY <1>3 DEF ClientRead, Becomes
  <2> QED
    BY <2>1, ClientReadStep
<1>4. CASE Quit(c)
  <2>1. s.conn[c] = "open" /\ c \notin s.quit /\ s' = WithLeft(s, c)
    BY <1>4 DEF Quit, Live, Becomes, WithLeft
  <2> QED
    BY <2>1, QuitStep
<1>5. ASSUME NEW k \in Sends[c], Start(c, k) PROVE Inv(s') /\ ClientStep(s, s')
  BY <1>5, StartAction
<1> QED
  BY <1>1, <1>2, <1>3, <1>4, <1>5

LEMMA InitInv ==
    ASSUME Init
    PROVE  Inv(s) /\ Service!Init
<1>1. NIL \notin Types \cup Clients /\ MaxCommands \in Nat /\ MaxNews \in Nat /\ Capacity \in Nat
  BY IpcAssumption
<1>2. /\ <<>> \in Seq(Units) /\ <<>> \in Seq(Buffered) /\ <<>> \in Seq(Clients) /\ Len(<<>>) = 0
      /\ <<>> \o <<>> = <<>>
  BY NothingSequence, NothingBefore
<1>3. /\ s.conn = Each("new") /\ s.quit = {} /\ s.todo = Each(<<>>) /\ s.inbox = Each(<<>>)
      /\ s.wire = Each(<<>>) /\ s.list = <<>> /\ s.pending = Each(NIL) /\ s.subs = Each({})
      /\ s.out = Each(<<>>) /\ s.size = Each(0) /\ s.phase = "run" /\ s.exiting = NIL
      /\ s.batch = {} /\ s.sent = 0 /\ s.news = 0 /\ s.crash = FALSE
  BY DEF Init
<1>4. s \in States
  <2>1. /\ Each("new") \in [Clients -> {"new", "open", "gone"}]
        /\ Each(<<>>) \in [Clients -> Seq(Units)] /\ Each(<<>>) \in [Clients -> Seq(Buffered)]
        /\ Each(NIL) \in [Clients -> Types \cup {NIL}]
        /\ Each({}) \in [Clients -> SUBSET Events] /\ Each(0) \in [Clients -> Nat]
    BY <1>2 DEF Each
  <2> QED
    BY <1>1, <1>2, <2>1 DEF Init, States
<1>5. \A c \in Clients : /\ s.conn[c] = "new" /\ s.pending[c] = NIL /\ s.todo[c] = <<>>
                         /\ s.inbox[c] = <<>> /\ s.wire[c] = <<>> /\ s.out[c] = <<>>
  BY <1>3 DEF Each
<1>6. \A c \in Clients : Stream(s, c) = <<>>
  BY <1>4, <1>5, NoStream
<1>7. Listed(s)
  <2>1. ToSet(<<>>) = {} /\ IsInjective(<<>>)
    BY DEF ToSet, IsInjective
  <2> QED
    BY <1>3, <1>5, <2>1 DEF Listed
<1>8. Roomy(s)
  BY <1>1, <1>2, <1>5 DEF Roomy
<1>9. \A c \in Clients : Dormant(s, c)
  BY <1>3, <1>5 DEF Dormant, Unused
<1>10. \A c \in Clients : WellFormed(s, c)
  BY <1>5, <1>6, NothingWellFormed
<1>11. OneExit(s)
  <2>1. \A c \in Clients : \A i \in Nat : ~ ExitAt(s, c, i)
    BY <1>2, <1>6 DEF ExitAt
  <2> QED
    BY <1>3, <2>1 DEF OneExit
<1>12. Inv(s)
  BY <1>3, <1>4, <1>7, <1>8, <1>9, <1>10, <1>11 DEF Inv
<1>13. Conn = [c \in Clients |-> "new"]
  BY <1>3, <1>5 DEF Conn
<1>14. Asked = [c \in Clients |-> <<>>] /\ Told = [c \in Clients |-> <<>>]
  BY <1>5 DEF Asked, Told
<1> QED
  BY <1>12, <1>13, <1>14 DEF Service!Init

-----------------------------------------------------------------------------
(* The steps, seen as IpcService sees them.                                *)

LEMMA Views ==
    /\ Conn = [c \in Clients |-> ConnOf(s, c)] /\ Conn' = [c \in Clients |-> ConnOf(s', c)]
    /\ Asked = [c \in Clients |-> AskedBy(s, c)] /\ Asked' = [c \in Clients |-> AskedBy(s', c)]
    /\ Told = [c \in Clients |-> ToldTo(s, c)] /\ Told' = [c \in Clients |-> ToldTo(s', c)]
<1>1. Conn = [c \in Clients |-> ConnOf(s, c)] /\ Conn' = [c \in Clients |-> ConnOf(s', c)]
  BY DEF Conn, ConnOf
<1>2. /\ Asked = [c \in Clients |-> AskedBy(s, c)]
      /\ Asked' = [c \in Clients |-> AskedBy(s', c)]
  BY DEF Asked, AskedBy, AskedOf
<1>3. Told = [c \in Clients |-> ToldTo(s, c)] /\ Told' = [c \in Clients |-> ToldTo(s', c)]
  BY DEF Told, ToldTo, Mail
<1> QED
  BY <1>1, <1>2, <1>3

LEMMA ViewOf ==
    ASSUME NEW c \in Clients
    PROVE  /\ Conn[c] = ConnOf(s, c) /\ Conn'[c] = ConnOf(s', c)
           /\ Asked[c] = AskedBy(s, c) /\ Asked'[c] = AskedBy(s', c)
           /\ Told[c] = ToldTo(s, c) /\ Told'[c] = ToldTo(s', c)
BY Views

LEMMA ViewDomains ==
    DOMAIN Conn' = Clients /\ DOMAIN Asked' = Clients /\ DOMAIN Told' = Clients
BY Views

(* An open client, as seen from outside.                                   *)
LEMMA ViewOpen ==
    ASSUME NEW t, NEW c, t.conn[c] = "open", c \notin t.quit
    PROVE  ConnOf(t, c) = "open" /\ AskedBy(t, c) = AskedOf(t, c) /\ ToldTo(t, c) = Mail(t, c)
BY DEF ConnOf, AskedBy, ToldTo

LEMMA AnsweredImplements ==
    ASSUME NEW c \in Clients, s.conn[c] = "open", c \notin s.quit, c \notin s'.quit,
           AnsweredOf(s, s', c)
    PROVE  Service!Answered(c)
<1>1. s'.conn[c] = "open"
  BY DEF AnsweredOf
<1>2. Conn'[c] = "open" /\ Asked[c] = AskedOf(s, c) /\ Asked'[c] = AskedOf(s', c)
      /\ Told[c] = Mail(s, c) /\ Told'[c] = Mail(s', c)
  BY <1>1, ViewOf, ViewOpen
<1> QED
  BY <1>2 DEF AnsweredOf, Service!Answered

LEMMA NoticedImplements ==
    ASSUME NEW c \in Clients, s.conn[c] = "open", c \notin s.quit, c \notin s'.quit,
           NoticedOf(s, s', c)
    PROVE  Service!Noticed(c)
<1>1. s'.conn[c] = "open"
  BY DEF NoticedOf
<1>2. Conn'[c] = "open" /\ Asked[c] = AskedOf(s, c) /\ Asked'[c] = AskedOf(s', c)
      /\ Told[c] = Mail(s, c) /\ Told'[c] = Mail(s', c)
  BY <1>1, ViewOf, ViewOpen
<1> QED
  BY <1>2 DEF NoticedOf, Service!Noticed

LEMMA SameCardinality == \A S : Service!Cardinality(S) = Cardinality(S)
BY DEF Service!Cardinality, Cardinality

LEMMA ServeImplements ==
    ASSUME OneServed(s, s')
    PROVE  Service!Serve
<1>1. PICK S \in SUBSET Clients : Cardinality(S) <= 1 /\ ServerStep(s, s', S)
  BY DEF OneServed
<1>2. s'.quit = s.quit
  BY <1>1 DEF ServerStep
<1>3. ASSUME NEW c \in Clients
      PROVE  IF Conn[c] # "open" THEN Service!Unserved(c)
             ELSE Service!Dropped(c) \/ IF c \in S THEN Service!Answered(c)
                                        ELSE Service!Noticed(c)
  <2>1. CASE c \in s.quit
    BY <1>2, <2>1, ViewOf DEF ConnOf, AskedBy, ToldTo, Service!Unserved
  <2>2. CASE c \notin s.quit /\ s.conn[c] # "open"
    <3>1. s'.conn[c] = s.conn[c]
      BY <1>1, <2>2 DEF ServerStep, SameClient
    <3> QED
      BY <1>2, <2>2, <3>1, ViewOf DEF ConnOf, AskedBy, ToldTo, Service!Unserved
  <2>3. CASE c \notin s.quit /\ s.conn[c] = "open" /\ s'.conn[c] = "gone"
    <3>1. Conn[c] = "open" /\ Conn'[c] = "gone" /\ Asked'[c] = <<>> /\ Told'[c] = <<>>
      BY <1>2, <2>3, ViewOf DEF ConnOf, AskedBy, ToldTo
    <3> QED
      BY <3>1 DEF Service!Dropped
  <2>4. CASE c \notin s.quit /\ s.conn[c] = "open" /\ s'.conn[c] # "gone"
    <3>1. IF c \in S THEN AnsweredOf(s, s', c) ELSE NoticedOf(s, s', c)
      BY <1>1, <2>4 DEF ServerStep
    <3>2. Conn[c] = "open"
      BY <2>4, ViewOf, ViewOpen
    <3> QED
      BY <1>2, <2>4, <3>1, <3>2, AnsweredImplements, NoticedImplements
  <2> QED
    BY <2>1, <2>2, <2>3, <2>4
<1> QED
  BY <1>1, <1>3, ViewDomains, SameCardinality DEF Service!Serve

LEMMA NoNews ==
    ASSUME Inv(s), NEW c \in Clients
    PROVE  ToldTo(s, c) = ToldTo(s, c) \o <<>> /\ <<>> \in Service!News
<1>1. s \in States
  BY DEF Inv
<1>2. PICK m \in Seq(Buffered) : m = ToldTo(s, c)
  <2>1. Mail(s, c) \in Seq(Buffered) /\ <<>> \in Seq(Buffered)
    BY <1>1, MailType, NothingSequence
  <2> QED
    BY <2>1 DEF ToldTo
<1>3. m = m \o <<>>
  BY NothingBefore
<1> QED
  BY <1>2, <1>3 DEF Service!News

(* A client that goes is one the server no longer serves.                  *)
LEMMA LeftImplements ==
    ASSUME Inv(s), NEW c \in Clients, OthersSame(s, s', c), HasLeft(s, s', c)
    PROVE  Service!Serve
<1>1. Cardinality({}) <= 1
  BY FewServed
<1>2. ASSUME NEW d \in Clients
      PROVE  IF Conn[d] # "open" THEN Service!Unserved(d)
             ELSE Service!Dropped(d) \/ Service!Noticed(d)
  <2>1. CASE d = c
    <3>1. Conn[c] = "open" /\ Service!Dropped(c)
      BY ViewOf DEF HasLeft, Service!Dropped
    <3> QED
      BY <2>1, <3>1
  <2>2. CASE d # c
    <3>1. Conn'[d] = Conn[d] /\ Asked'[d] = Asked[d] /\ Told'[d] = Told[d]
      BY <2>2, ViewOf DEF OthersSame, SameView
    <3>2. Told[d] = Told[d] \o <<>> /\ <<>> \in Service!News
      BY NoNews, ViewOf
    <3> QED
      BY <3>1, <3>2 DEF Service!Unserved, Service!Noticed
  <2> QED
    BY <2>1, <2>2
<1>3. \E served \in SUBSET Clients :
         /\ Cardinality(served) <= 1
         /\ \A d \in Clients :
               IF Conn[d] # "open" THEN Service!Unserved(d)
               ELSE Service!Dropped(d) \/ IF d \in served THEN Service!Answered(d)
                                          ELSE Service!Noticed(d)
  BY <1>1, <1>2
<1> QED
  BY <1>3, ViewDomains, SameCardinality DEF Service!Serve

LEMMA ClientImplements ==
    ASSUME Inv(s), ClientStep(s, s')
    PROVE  [Service!Next]_(Service!vars)
<1>1. CASE AllSame(s, s')
  <2>1. Conn' = Conn /\ Asked' = Asked /\ Told' = Told
    BY <1>1, Views DEF AllSame, SameView
  <2> QED
    BY <2>1 DEF Service!vars
<1>2. ASSUME NEW c \in Clients, OthersSame(s, s', c), Connected(s, s', c)
      PROVE  Service!Connect(c)
  <2>1. Conn[c] = "new" /\ Conn' = [Conn EXCEPT ![c] = "open"]
    BY <1>2, Views DEF OthersSame, SameView, Connected
  <2>2. Asked' = Asked /\ Told' = Told
    BY <1>2, Views DEF OthersSame, SameView, Connected
  <2> QED
    BY <2>1, <2>2 DEF Service!Connect
<1>3. ASSUME NEW c \in Clients, OthersSame(s, s', c), HasAsked(s, s', c)
      PROVE  \E k \in Service!Commands : Service!Ask(c, k)
  <2>1. PICK k \in Types : AskedBy(s', c) = Append(AskedBy(s, c), k)
    BY <1>3 DEF HasAsked
  <2>2. Conn[c] = "open" /\ Conn' = Conn /\ Told' = Told
    BY <1>3, Views DEF OthersSame, SameView, HasAsked
  <2>3. Asked' = [Asked EXCEPT ![c] = Append(@, k)]
    BY <1>3, <2>1, Views DEF OthersSame, SameView
  <2>4. k \in Service!Commands
    BY DEF Service!Commands, Types
  <2> QED
    BY <2>2, <2>3, <2>4 DEF Service!Ask
<1>4. ASSUME NEW c \in Clients, OthersSame(s, s', c), HasReceived(s, s', c)
      PROVE  Service!Receive(c)
  <2>1. Conn' = Conn /\ Asked' = Asked
    BY <1>4, Views DEF OthersSame, SameView, HasReceived
  <2>2. Told[c] # <<>> /\ Told' = [Told EXCEPT ![c] = Tail(@)]
    BY <1>4, Views DEF OthersSame, SameView, HasReceived
  <2> QED
    BY <2>1, <2>2 DEF Service!Receive
<1>5. ASSUME NEW c \in Clients, OthersSame(s, s', c), HasLeft(s, s', c)
      PROVE  Service!Serve
  BY <1>5, LeftImplements
<1> QED
  BY <1>1, <1>2, <1>3, <1>4, <1>5 DEF ClientStep, Service!Next

-----------------------------------------------------------------------------
(* The invariance of Inv, and what follows from it.                        *)

IInv == Inv(s)

LEMMA NextInv ==
    ASSUME Inv(s), Next
    PROVE  Inv(s') /\ (OneServed(s, s') \/ ClientStep(s, s'))
<1>1. ASSUME NEW c \in Clients,
             \/ Connect(c) \/ Readable(c) \/ Writable(c) \/ Push(c) \/ ClientRead(c) \/ Quit(c)
             \/ \E k \in Sends[c] : Start(c, k)
      PROVE  Inv(s') /\ (OneServed(s, s') \/ ClientStep(s, s'))
  <2>1. CASE Readable(c) \/ Writable(c)
    BY <2>1, ReadableStep
  <2>2. CASE \/ Connect(c) \/ Push(c) \/ ClientRead(c) \/ Quit(c)
             \/ \E k \in Sends[c] : Start(c, k)
    BY <2>2, ClientActions
  <2> QED
    BY <1>1, <2>1, <2>2
<1>2. CASE \/ \E e \in Events \ {"tick", "shutdown"} : Event(e)
           \/ TermSignal \/ (\E b \in s.batch : Nested(b)) \/ ExitDone \/ Shutdown
  BY <1>2, ServerActions
<1> QED
  BY <1>1, <1>2 DEF Next

(* For every set of clients and every size of the buffers, IInv holds: the *)
(* list has the open clients once each, no buffer is full, a removed       *)
(* client leaves nothing behind, what a client has sent is a row of whole  *)
(* commands, and one command to exit at most is under way                  *)
(* (ipc_handle_connection, ipc_client_handle_readable, ipc_send_reply,     *)
(* ipc_client_disconnect).                                                 *)
THEOREM Invariance == Spec => []IInv
<1>1. Init => IInv
  BY InitInv DEF IInv
<1>2. IInv /\ [Next]_s => IInv'
  <2> SUFFICES ASSUME IInv, [Next]_s PROVE Inv(s')
    BY DEF IInv
  <2>1. CASE Next
    BY <2>1, NextInv DEF IInv
  <2>2. CASE s' = s
    BY <2>2 DEF IInv
  <2> QED
    BY <2>1, <2>2
<1> QED
  BY <1>1, <1>2, PTL DEF Spec

LEMMA InvTypeOK ==
    ASSUME Inv(s)
    PROVE  TypeOK
<1>1. s \in States /\ Listed(s) /\ Roomy(s)
  BY DEF Inv
<1>2. \A c \in ToSet(s.list) : c \in Clients /\ s.conn[c] = "open"
  BY <1>1 DEF Listed
<1> QED
  BY <1>1, <1>2 DEF TypeOK, Listed, Roomy

(* The server has a record of a client exactly while the client is in its  *)
(* list, and its write buffer is never full nor larger than the limit      *)
(* (ipc_client_list, ipc_send_reply).                                      *)
THEOREM TypeOKCorrect == Spec => []TypeOK
<1>1. IInv => TypeOK
  BY InvTypeOK DEF IInv
<1> QED
  BY <1>1, Invariance, PTL

(* Whatever the sizes of the buffers and however commands and replies are  *)
(* cut into pieces, every command is answered once and in order, and no    *)
(* message is cut, repeated or mixed with another: the server implements   *)
(* IpcService (ipc_client_handle_readable, ipc_client_handle_writable,     *)
(* ipc_send_reply).                                                        *)
THEOREM ServesInOrderCorrect == Spec => ServesInOrder
<1>1. Init => Service!Init
  BY InitInv
<1>2. IInv /\ [Next]_s => [Service!Next]_(Service!vars)
  <2> SUFFICES ASSUME Inv(s), [Next]_s PROVE [Service!Next]_(Service!vars)
    BY DEF IInv
  <2>1. CASE Next
    <3>1. CASE OneServed(s, s')
      BY <3>1, ServeImplements DEF Service!Next
    <3>2. CASE ClientStep(s, s')
      BY <3>2, ClientImplements
    <3> QED
      BY <2>1, <3>1, <3>2, NextInv
  <2>2. CASE s' = s
    BY <2>2, Views DEF Service!vars
  <2> QED
    BY <2>1, <2>2
<1> QED
  BY <1>1, <1>2, Invariance, TypeOKCorrect, PTL DEF Spec, ServesInOrder, Service!Spec

LEMMA EventReaches ==
    ASSUME Inv(s), NEW e \in Events, Event(e), NEW c \in ToSet(s.list), s'.conn[c] = "open"
    PROVE  s'.out[c] = s.out[c] \o (IF e \in s.subs[c] THEN Pieces(<<"event", e>>) ELSE <<>>)
<1> DEFINE v == [s EXCEPT !.news = @ + 1]
<1>1. s.news < MaxNews /\ s' = SendEvent(v, e)
  BY DEF Event, Becomes
<1>2. /\ Inv(v) /\ v.out = s.out /\ v.subs = s.subs
      /\ \A d \in Clients : SameClient(s, v, d)
  BY <1>1, NewsCounted
<1> HIDE DEF v
<1>3. c \in Clients /\ s.conn[c] = "open" /\ v.conn[c] = "open"
  BY <1>2 DEF Inv, Listed, SameClient
<1>4. Notified(v, s', c, e)
  <2>1. LET r == SendEvent(v, e)
        IN  r.conn[c] = "gone" \/ Notified(v, r, c, e)
    BY <1>2, <1>3, SendEventInv
  <2> QED
    BY <1>1, <2>1
<1>5. PICK q \in Seq(Buffered) : q = s.out[c]
  BY <1>3 DEF Inv, States
<1>6. q \o <<>> = q
  BY NothingBefore
<1> QED
  BY <1>2, <1>3, <1>4, <1>5, <1>6 DEF Notified, Sent, SameClient

(* An event is put, whole, in the buffer of every client that asked for it *)
(* and of no other, also when sending it removes clients from the list     *)
(* that is being walked, for a list of any length (ipc_send_event).        *)
THEOREM EveryListenerToldCorrect == Spec => EveryListenerTold
<1> DEFINE Reaches == \A e \in Events : Event(e) =>
                     \A c \in ToSet(s.list) : s'.conn[c] = "open" =>
                       s'.out[c] = s.out[c]
                         \o (IF e \in s.subs[c] THEN Pieces(<<"event", e>>) ELSE <<>>)
<1>1. IInv /\ [Next]_s => [s'.news # s.news => Reaches]_s
  BY EventReaches DEF IInv
<1> QED
  BY <1>1, Invariance, PTL DEF Spec, EveryListenerTold
=============================================================================
