-------------------------- MODULE SequenceLemmas --------------------------
(***************************************************************************)
(* Facts about the operators on sequences that the models use and the      *)
(* library proves nothing about: the first element that is in a set, and   *)
(* a sequence without an element.  Induction is by the least natural of a  *)
(* set, which needs no operator as a parameter.                            *)
(***************************************************************************)
EXTENDS Integers, SequencesExt, SequenceTheorems, WellFoundedInduction, TLAPS

LEMMA LeastNatural ==
    ASSUME NEW T, T \subseteq Nat, T # {}
    PROVE  \E n \in T : \A m \in T : n <= m
<1> DEFINE R == OpToRel(<, Nat)
<1>1. IsWellFoundedOn(R, Nat)
  BY NatLessThanWellFounded
<1>2. \A x, y \in Nat : <<y, x>> \in R <=> y < x
  BY DEF OpToRel
<1> HIDE DEF R
<1>3. PICK x \in T : \A y \in T : ~ (<<y, x>> \in R)
  BY <1>1, WFMin
<1>4. \A y \in T : ~(y < x)
  BY <1>2, <1>3
<1>5. x \in Nat /\ \A y \in T : y \in Nat
  OBVIOUS
<1> QED
  BY <1>4, <1>5

(* The index SelectInSeq returns is that of the first element in P.        *)
LEMMA SelectFirst ==
    ASSUME NEW S, NEW q \in Seq(S), NEW P
    PROVE  LET i == SelectInSeq(q, LAMBDA x : x \in P)
           IN  \/ i = 0 /\ \A j \in 1..Len(q) : q[j] \notin P
               \/ i \in 1..Len(q) /\ q[i] \in P /\ \A j \in 1..(i-1) : q[j] \notin P
<1> DEFINE I == {j \in 1..Len(q) : q[j] \in P}
           i == SelectInSeq(q, LAMBDA x : x \in P)
<1>1. CASE I = {}
  <2>1. i = 0
    BY <1>1 DEF SelectInSeq
  <2> QED
    BY <2>1, <1>1
<1>2. CASE I # {}
  <2>0. I \subseteq Nat
    OBVIOUS
  <2>1. PICK k \in I : \A m \in I : k <= m
    <3> HIDE DEF I
    <3> QED
      BY <1>2, <2>0, LeastNatural
  <2>2. i \in I /\ \A m \in I : i <= m
    BY <1>2, <2>1 DEF SelectInSeq, Min
  <2>3. i \in 1..Len(q) /\ q[i] \in P /\ Len(q) \in Nat
    BY <2>2
  <2>4. \A j \in 1..(i-1) : j \in 1..Len(q) /\ ~(i <= j)
    BY <2>3
  <2> QED
    BY <2>2, <2>3, <2>4
<1> QED
  BY <1>1, <1>2

LEMMA SelectFirstUnique ==
    ASSUME NEW S, NEW q \in Seq(S), NEW P, NEW k \in 1..Len(q),
           q[k] \in P, \A j \in 1..(k-1) : q[j] \notin P
    PROVE  SelectInSeq(q, LAMBDA x : x \in P) = k
<1> DEFINE i == SelectInSeq(q, LAMBDA x : x \in P)
<1>1. \/ i = 0 /\ \A j \in 1..Len(q) : q[j] \notin P
      \/ i \in 1..Len(q) /\ q[i] \in P /\ \A j \in 1..(i-1) : q[j] \notin P
  BY SelectFirst
<1> HIDE DEF i
<1>2. i # 0 /\ Len(q) \in Nat
  BY <1>1
<1>3. i \in 1..Len(q) /\ ~(k \in 1..(i-1)) /\ ~(i \in 1..(k-1))
  BY <1>1, <1>2
<1> QED
  BY <1>3 DEF i

(* RemoveAt leaves the other elements in their order.                      *)
LEMMA RemoveAtShifts ==
    ASSUME NEW S, NEW q \in Seq(S), NEW i \in 1..Len(q)
    PROVE  LET r == RemoveAt(q, i)
           IN  /\ r \in Seq(S) /\ Len(r) = Len(q) - 1
               /\ \A j \in 1..Len(r) : r[j] = IF j < i THEN q[j] ELSE q[j + 1]
<1> DEFINE a == SubSeq(q, 1, i-1)
           b == SubSeq(q, i+1, Len(q))
           r == RemoveAt(q, i)
<1>1. Len(q) \in Nat /\ i \in Nat /\ 1 <= i /\ i <= Len(q)
  OBVIOUS
<1>2. r = a \o b
  BY DEF RemoveAt
<1> HIDE DEF r
<1>3. a \in Seq(S) /\ Len(a) = i - 1 /\ \A j \in 1..(i-1) : a[j] = q[j]
  BY <1>1
<1>4. b \in Seq(S) /\ Len(b) = Len(q) - i /\ \A j \in 1..(Len(q)-i) : b[j] = q[i + j]
  <2>1. i + 1 \in Int /\ Len(q) \in Int /\ \A j \in (i + 1)..Len(q) : q[j] \in S
    BY <1>1
  <2>2. /\ b \in Seq(S)
        /\ Len(b) = IF i + 1 <= Len(q) THEN Len(q) - (i + 1) + 1 ELSE 0
        /\ \A j \in 1..(Len(q) - (i + 1) + 1) : b[j] = q[(i + 1) + j - 1]
    BY <2>1, SubSeqProperties
  <2> HIDE DEF b
  <2>3. Len(b) = Len(q) - i /\ Len(q) - (i + 1) + 1 = Len(q) - i
    <3>1. Len(b) = IF i + 1 <= Len(q) THEN Len(q) - (i + 1) + 1 ELSE 0
      BY <2>2
    <3> QED
      BY <1>1, <3>1
  <2>4. \A j \in 1..(Len(q)-i) : (i + 1) + j - 1 = i + j
    BY <1>1
  <2> QED
    BY <2>2, <2>3, <2>4
<1> HIDE DEF a, b
<1>5. r \in Seq(S) /\ Len(r) = Len(q) - 1
  <2>1. r \in Seq(S) /\ Len(r) = Len(a) + Len(b)
    BY <1>2, <1>3, <1>4, ConcatProperties
  <2> QED
    BY <2>1, <1>1, <1>3, <1>4
<1>6. ASSUME NEW j \in 1..Len(r)
      PROVE  r[j] = IF j < i THEN q[j] ELSE q[j + 1]
  <2>1. CASE j < i
    BY <2>1, <1>1, <1>2, <1>3, <1>4, <1>5
  <2>2. CASE ~(j < i)
    <3>1. r[j] = b[j - (i - 1)] /\ j - (i - 1) \in 1..(Len(q)-i)
      BY <2>2, <1>1, <1>2, <1>3, <1>4, <1>5
    <3>2. b[j - (i - 1)] = q[i + (j - (i - 1))] /\ i + (j - (i - 1)) = j + 1
      BY <3>1, <1>1, <1>4
    <3> QED
      BY <2>2, <3>1, <3>2
  <2> QED
    BY <2>1, <2>2
<1> QED
  BY <1>5, <1>6 DEF r

(* RemoveFirst leaves the other elements in their order.                   *)
LEMMA RemoveFirstShifts ==
    ASSUME NEW S, NEW q \in Seq(S), NEW n
    PROVE  LET r == RemoveFirst(q, n)
           IN  /\ r \in Seq(S)
               /\ n \notin ToSet(q) => r = q
               /\ n \in ToSet(q) =>
                    \E i \in 1..Len(q) :
                       /\ q[i] = n /\ Len(r) = Len(q) - 1
                       /\ \A j \in 1..Len(r) : r[j] = IF j < i THEN q[j] ELSE q[j + 1]
<1>1. DOMAIN q = 1..Len(q) /\ Len(q) \in Nat
  OBVIOUS
<1>2. CASE n \notin ToSet(q)
  <2>1. ~ \E i \in 1..Len(q) : q[i] = n
    BY <1>1, <1>2 DEF ToSet
  <2> QED
    BY <1>2, <2>1 DEF RemoveFirst
<1>3. CASE n \in ToSet(q)
  <2> DEFINE i == SelectInSeq(q, LAMBDA v : v = n)
             r == RemoveFirst(q, n)
  <2>1. i = SelectInSeq(q, LAMBDA v : v \in {n})
    BY DEF SelectInSeq
  <2>2. PICK k \in 1..Len(q) : q[k] = n
    BY <1>1, <1>3 DEF ToSet
  <2>3. i \in 1..Len(q) /\ q[i] = n
    <3>1. ~ \A j \in 1..Len(q) : q[j] \notin {n}
      BY <2>2
    <3>2. i \in 1..Len(q) /\ q[i] \in {n}
      BY <2>1, <3>1, SelectFirst
    <3> QED
      BY <3>2
  <2>4. r = RemoveAt(q, i)
    BY <2>3 DEF RemoveFirst
  <2> HIDE DEF i, r
  <2>5. /\ r \in Seq(S) /\ Len(r) = Len(q) - 1
        /\ \A j \in 1..Len(r) : r[j] = IF j < i THEN q[j] ELSE q[j + 1]
    BY <2>3, <2>4, RemoveAtShifts
  <2>6. \E l \in 1..Len(q) :
            /\ q[l] = n /\ Len(r) = Len(q) - 1
            /\ \A j \in 1..Len(r) : r[j] = IF j < l THEN q[j] ELSE q[j + 1]
    BY <2>3, <2>5
  <2> QED
    BY <1>3, <2>5, <2>6 DEF r
<1> QED
  BY <1>2, <1>3

(* The index SelectLastInSeq returns is that of the last element in P.     *)
LEMMA SelectLast ==
    ASSUME NEW S, NEW q \in Seq(S), NEW P
    PROVE  LET i == SelectLastInSeq(q, LAMBDA x : x \in P)
           IN  \/ i = 0 /\ \A j \in 1..Len(q) : q[j] \notin P
               \/ i \in 1..Len(q) /\ q[i] \in P /\ \A j \in (i+1)..Len(q) : q[j] \notin P
<1> DEFINE I == {j \in 1..Len(q) : q[j] \in P}
           i == SelectLastInSeq(q, LAMBDA x : x \in P)
           T == {Len(q) - j : j \in I}
<1>1. Len(q) \in Nat
  OBVIOUS
<1>2. CASE I = {}
  <2>1. i = 0
    BY <1>2 DEF SelectLastInSeq
  <2> QED
    BY <2>1, <1>2
<1>3. CASE I # {}
  <2>1. I \subseteq 1..Len(q)
    OBVIOUS
  <2>2. PICK k \in I : \A m \in I : m <= k
    <3> HIDE DEF I
    <3>1. T \subseteq Nat /\ T # {}
      <4>1. \A j \in I : j \in 1..Len(q)
        BY <2>1
      <4>2. \A j \in I : Len(q) - j \in Nat
        BY <4>1, <1>1
      <4>3. PICK j \in I : TRUE
        BY <1>3
      <4>4. Len(q) - j \in T
        BY <4>3
      <4> QED
        BY <4>2, <4>4
    <3>2. PICK t \in T : \A m \in T : t <= m
      <4> HIDE DEF T
      <4> QED
        BY <3>1, LeastNatural
    <3>3. PICK k \in I : t = Len(q) - k
      OBVIOUS
    <3>4. \A m \in I : Len(q) - k <= Len(q) - m
      BY <3>2, <3>3
    <3> QED
      BY <3>4, <1>1, <2>1
  <2>3. i \in I /\ \A m \in I : i >= m
    <3>1. k \in I /\ \A m \in I : k >= m
      BY <2>1, <2>2
    <3> QED
      BY <1>3, <3>1 DEF SelectLastInSeq, Max
  <2>4. i \in 1..Len(q) /\ q[i] \in P
    BY <2>3
  <2>5. \A j \in (i+1)..Len(q) : j \in 1..Len(q) /\ ~(i >= j)
    BY <1>1, <2>4
  <2> QED
    BY <2>3, <2>4, <2>5
<1> QED
  BY <1>2, <1>3
=============================================================================
