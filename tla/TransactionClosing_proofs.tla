--------------------- MODULE TransactionClosing_proofs ---------------------
(***************************************************************************)
(* What happens to windows that close, for any sets of nodes and views: a  *)
(* view is freed after all its former containers, and the last frame of a  *)
(* closing window is not traded for a blank one.  Both need to know in     *)
(* which order the instructions of a transaction are destroyed, and that   *)
(* a container being destroyed does not get dirty again.                   *)
(***************************************************************************)
EXTENDS Transaction_proofs

(* A former container of a view, not yet released: the view has been       *)
(* mapped again, or its last container is gone.                            *)
Former(s, c) ==
    /\ c \in Containers
    /\ s.life[c] = "destroying"
    /\ s.container[s.view[c]] # c

Index(t, n) == t.instructions[n].index

(* The indexes of the pending transaction leave room for what is appended. *)
Bounded(s) == \A n \in P(s) : Index(s.pending_transaction, n) <= Cardinality(P(s))

(* A former container is no longer dirty, and comes before the container   *)
(* d of its view wherever both are.                                        *)
Precedes(s, c, d) ==
    /\ d \in Q(s) => /\ c \in Q(s) /\ c \notin P(s)
                     /\ Index(s.queued_transaction, c) < Index(s.queued_transaction, d)
    /\ d \in P(s) /\ c \in P(s) =>
           Index(s.pending_transaction, c) < Index(s.pending_transaction, d)

Ordered(s) ==
    /\ Bounded(s)
    /\ \A c \in Containers : Former(s, c) =>
           c \notin Dirty(s) /\ Precedes(s, c, s.container[s.view[c]])

(* S are the views that are mapped, or will be when the handler ends. *)
Owned(s, S) ==
    /\ \A c \in Containers : s.life[c] = "live" =>
           s.view[c] \in S /\ s.container[s.view[c]] = c
    /\ \A v \in Views \ S :
           s.container[v] \in Containers => s.life[s.container[v]] = "destroying"
    /\ \A v \in Views : s.vlife[v] = "destroying" =>
           v \notin S /\ s.container[v] \in Containers

(* A view with one container, which is closing, stays frozen as long as a  *)
(* transaction is going to freeze the views of its container.              *)
Leaving(s, v) ==
    /\ \A c, d \in Containers : s.view[c] = v /\ s.view[d] = v => c = d
    /\ \A c \in Containers : s.view[c] = v =>
           /\ s.life[c] \in {"destroying", "freed"}
           /\ c \notin Dirty(s)
           /\ c \in P(s) => v \in s.saved

(* The frame of v on screen, if any, was copied from a living surface. *)
Kept(s, v) == v \notin s.blank /\ (v \in s.mapped \/ Leaving(s, v))

(* K are views whose frames are kept. *)
Good(s, S, K) == Ordered(s) /\ Owned(s, S) /\ \A v \in K : Kept(s, v)

(* Between two handlers no container that is being destroyed is dirty.     *)
Clean(s) == \A c \in Dirty(s) \cap Containers : s.life[c] # "destroying"

(* The frames that ClosingFrameKept is about. *)
Frames(s) == {v \in s.saved \ s.blank :
                 Cardinality({c \in Containers : s.view[c] = v}) <= 1}

CInv ==
    /\ Inv
    /\ Ordered(server)
    /\ Owned(server, server.mapped)
    /\ Clean(server)

-----------------------------------------------------------------------------
(* The order of the instructions. *)

LEMMA PosInDirtyType ==
    ASSUME NEW s \in Servers, NEW n \in Dirty(s)
    PROVE  PosInDirty(s, n) \in Nat
<1>1. s.dirty_nodes \in Seq(Nodes)
  BY DEF Servers
<1>2. DOMAIN s.dirty_nodes = 1 .. Len(s.dirty_nodes) /\ Len(s.dirty_nodes) \in Nat
  BY <1>1
<1>3. \E i \in DOMAIN s.dirty_nodes : s.dirty_nodes[i] = n
  BY DEF Dirty, Range
<1>4. PosInDirty(s, n) \in DOMAIN s.dirty_nodes
  BY <1>3 DEF PosInDirty
<1> QED
  BY <1>2, <1>4

(***************************************************************************)
(* transaction_add_node appends: a node that t holds keeps its place, and  *)
(* a new one comes after all of these.                                     *)
(***************************************************************************)
LEMMA AddNodesAppends ==
    ASSUME NEW s \in Servers, NEW t \in Transactions, NEW r \in BOOLEAN,
           \A n \in NodesOf(t) : Index(t, n) <= Cardinality(NodesOf(t))
    PROVE  LET a == AddNodes(s, t, r)
           IN  /\ \A n \in NodesOf(t) : Index(a, n) = Index(t, n)
               /\ \A n \in Dirty(s) \ NodesOf(t) : Cardinality(NodesOf(t)) < Index(a, n)
               /\ \A n \in NodesOf(a) : Index(a, n) <= Cardinality(NodesOf(a))
<1> DEFINE known == NodesOf(t)
           new == Dirty(s) \ known
           before(n) == {m \in new : PosInDirty(s, m) <= PosInDirty(s, n)}
           Place(n) == Cardinality(known) + Cardinality(before(n))
           State(n) == s.pending[n]
           Asked(n) == r \/ (n \in known /\ t.instructions[n].server_request)
           Add(n) == [index |-> IF n \in known THEN Index(t, n) ELSE Place(n),
                      state |-> State(n),
                      serial |-> 0,
                      server_request |-> Asked(n),
                      waiting |-> FALSE]
           instructions == [n \in Nodes |-> IF n \in Dirty(s) THEN Add(n)
                                            ELSE t.instructions[n]]
           a == AddNodes(s, t, r)
<1>1. known \subseteq Nodes /\ Dirty(s) \subseteq Nodes
  BY DEF NodesOf, Dirty, Range, Servers
<1>2. a.instructions = instructions
  BY DEF AddNodes, Index, Transactions
<1>3. NodesOf(a) = known \cup new
  BY AddNodesType
<1> HIDE DEF a, State, Asked
<1>4. \A n \in Nodes : Index(a, n) = IF n \in new THEN Place(n) ELSE Index(t, n)
  <2> TAKE n \in Nodes
  <2>1. Index(a, n) = IF n \in Dirty(s) THEN Add(n).index ELSE Index(t, n)
    BY <1>2 DEF Index
  <2>2. Add(n).index = IF n \in known THEN Index(t, n) ELSE Place(n)
    OBVIOUS
  <2> HIDE DEF Add
  <2> QED
    BY <2>1, <2>2
<1> HIDE DEF instructions
<1>5. /\ IsFiniteSet(known) /\ IsFiniteSet(new)
      /\ Cardinality(known) \in Nat /\ Cardinality(new) \in Nat
      /\ Cardinality(known \cup new) = Cardinality(known) + Cardinality(new)
  <2>1. /\ known \in SUBSET Nodes /\ new \in SUBSET Nodes /\ known \cap new = {}
        /\ Cardinality({}) = 0
    BY <1>1, FS_EmptySet
  <2> HIDE DEF known, new
  <2>2. /\ IsFiniteSet(known) /\ IsFiniteSet(new)
        /\ Cardinality(known) \in Nat /\ Cardinality(new) \in Nat
    BY <2>1, SubsetCardinality
  <2>3. Cardinality(known \cup new)
            = Cardinality(known) + Cardinality(new) - Cardinality(known \cap new)
    BY <2>2, FS_Union
  <2>4. Cardinality(known \cap new) = 0
    BY <2>1
  <2> QED
    BY <2>2, <2>3, <2>4
<1>6. \A n \in new : /\ Cardinality(before(n)) \in Nat
                     /\ 1 <= Cardinality(before(n))
                     /\ Cardinality(before(n)) <= Cardinality(new)
  <2> TAKE n \in new
  <2>1. n \in before(n)
    BY PosInDirtyType
  <2>2. before(n) \subseteq new
    OBVIOUS
  <2> HIDE DEF before
  <2>3. IsFiniteSet(before(n)) /\ Cardinality(before(n)) <= Cardinality(new)
    BY <1>5, <2>2, FS_Subset
  <2>4. Cardinality(before(n)) \in Nat /\ Cardinality(before(n)) # 0
    BY <2>1, <2>3, FS_CardinalityType, FS_EmptySet
  <2> QED
    BY <2>3, <2>4
<1> HIDE DEF before
<1>7. \A n \in new : /\ Cardinality(known) < Index(a, n)
                     /\ Index(a, n) <= Cardinality(known) + Cardinality(new)
  BY <1>1, <1>4, <1>5, <1>6
<1>8. \A n \in known : Index(a, n) = Index(t, n)
  BY <1>1, <1>4
<1>9. \A n \in known : Index(t, n) \in Nat
  BY DEF Index, NodesOf, Transactions, Instruction
<1> HIDE DEF known, new
<1>10. \A n \in known \cup new : Index(a, n) <= Cardinality(known \cup new)
  <2>1. ASSUME NEW n \in known PROVE Index(a, n) <= Cardinality(known \cup new)
    <3>1. Index(t, n) <= Cardinality(known)
      BY DEF known
    <3> QED
      BY <1>5, <1>8, <1>9, <3>1
  <2> QED
    BY <1>5, <1>7, <2>1
<1> QED
  BY <1>3, <1>7, <1>8, <1>10 DEF a, known, new

-----------------------------------------------------------------------------
(* The functions of transaction.c. *)

LEMMA CommitGood ==
    ASSUME NEW s, Consistent(s), Q(s) = {}, NEW timer \in BOOLEAN,
           NEW S, NEW K, Good(s, S, K)
    PROVE  Good(Committed(s, timer), S, K)
<1> DEFINE r == Committed(s, timer)
<1>1. /\ r.pending_transaction = NoTxn
      /\ r.dirty_nodes = s.dirty_nodes /\ r.life = s.life /\ r.view = s.view
      /\ r.container = s.container /\ r.mapped = s.mapped /\ r.vlife = s.vlife
      /\ r.saved = s.saved \cup Exposed(s)
      /\ r.blank = s.blank \cup ((Exposed(s) \ s.saved) \ s.mapped)
      /\ Q(r) = P(s) /\ Sends(s, r)
  BY CommitType
<1> HIDE DEF r
<1>2. P(r) = {} /\ Dirty(r) = Dirty(s)
  BY <1>1, NoTxnType DEF P, Dirty
<1>3. \A n \in P(s) : Index(r.queued_transaction, n) = Index(s.pending_transaction, n)
  BY <1>1 DEF Sends, Index
<1>4. Ordered(r)
  <2>1. Bounded(r)
    BY <1>2 DEF Bounded
  <2>2. ASSUME NEW c \in Containers, Former(r, c)
        PROVE  c \notin Dirty(r) /\ Precedes(r, c, r.container[r.view[c]])
    <3> DEFINE d == s.container[s.view[c]]
    <3>1. Former(s, c)
      BY <1>1, <2>2 DEF Former
    <3>2. c \notin Dirty(s) /\ Precedes(s, c, d)
      BY <3>1 DEF Good, Ordered
    <3>3. c \in P(s)
      BY <3>1, <3>2 DEF Former, Consistent, Doomed, Nodes
    <3>4. d \in Q(r) => c \in Q(r) /\ c \notin P(r)
                          /\ Index(r.queued_transaction, c) < Index(r.queued_transaction, d)
      BY <1>1, <1>2, <1>3, <3>2, <3>3 DEF Precedes
    <3> QED
      BY <1>1, <1>2, <3>2, <3>4 DEF Precedes
  <2> QED
    BY <2>1, <2>2 DEF Ordered
<1>5. Owned(r, S)
  BY <1>1 DEF Good, Owned
<1>6. ASSUME NEW v \in K
      PROVE  Kept(r, v)
  <2>1. Kept(s, v)
    BY DEF Good
  <2>2. CASE v \in s.mapped
    BY <1>1, <2>1, <2>2 DEF Kept
  <2>3. CASE v \notin s.mapped
    <3>1. Leaving(s, v) /\ v \notin s.blank
      BY <2>1, <2>3 DEF Kept
    <3>2. v \in Exposed(s) => v \in s.saved
      BY <3>1 DEF Leaving, Exposed, ViewsOf
    <3>3. Leaving(r, v)
      BY <1>1, <1>2, <3>1 DEF Leaving
    <3> QED
      BY <1>1, <3>1, <3>2, <3>3 DEF Kept
  <2> QED
    BY <2>2, <2>3
<1> QED
  BY <1>4, <1>5, <1>6 DEF Good, r

LEMMA FinishGood ==
    ASSUME NEW s, Consistent(s), NEW S, NEW K, Good(s, S, K)
    PROVE  Good(Destroy(Apply(s)), S, K)
<1> DEFINE r == Destroy(Apply(s))
           released == {n \in Q(s) : /\ s.life[n] = "destroying"
                                     /\ s.ntxnrefs[n] = 1
                                     /\ n \notin Dirty(s)}
           thawed == {n \in Q(s) : s.life[n] # "destroying" \/ s.ntxnrefs[n] = 1}
<1>1. /\ r.dirty_nodes = s.dirty_nodes
      /\ r.view = s.view /\ r.mapped = s.mapped
      /\ r.pending_transaction = s.pending_transaction
      /\ r.queued_transaction = NoTxn
      /\ r.saved = s.saved \ ViewsOf(s, thawed)
      /\ r.blank = s.blank \ ViewsOf(s, thawed)
  BY FinishEffect
<1>2. /\ \A n \in Nodes : r.life[n] = IF n \in released THEN "freed" ELSE s.life[n]
      /\ \A v \in Views : r.container[v] = IF s.container[v] \in released THEN NULL
                                           ELSE s.container[v]
      /\ \A v \in Views : r.vlife[v] =
             IF s.container[v] \in released /\ s.vlife[v] = "destroying"
             THEN "freed" ELSE s.vlife[v]
  BY FinishEffect
<1> HIDE DEF r
<1>3. Q(r) = {} /\ P(r) = P(s) /\ Dirty(r) = Dirty(s)
  BY <1>1, NoTxnType DEF Q, P, Dirty
<1>4. s \in Servers /\ Containers \subseteq Nodes /\ NULL \notin Containers
  BY ConstantsAssumption DEF Consistent, Nodes
<1>5. \A c \in Containers : s.life[c] # "unborn" => s.view[c] \in Views
  BY DEF Consistent, Viewed
<1>6. Ordered(r)
  <2>1. Bounded(r)
    BY <1>1, <1>3 DEF Good, Ordered, Bounded
  <2>2. ASSUME NEW c \in Containers, Former(r, c)
        PROVE  c \notin Dirty(r) /\ Precedes(r, c, r.container[r.view[c]])
    <3> DEFINE v == s.view[c]
    <3>1. c \in Nodes /\ c \notin released /\ s.life[c] = "destroying" /\ v \in Views
      BY <1>2, <1>4, <1>5, <2>2 DEF Former
    <3>2. r.container[v] # c /\ r.container[v] \in {s.container[v], NULL}
      BY <1>1, <1>2, <2>2, <3>1 DEF Former
    <3>3. s.container[v] # c
      BY <1>2, <3>1, <3>2
    <3>4. c \notin Dirty(s) /\ Precedes(s, c, s.container[v])
      BY <3>1, <3>3 DEF Good, Ordered, Former
    <3>5. NULL \notin P(s)
      BY ConstantsAssumption DEF P, NodesOf
    <3> QED
      BY <1>1, <1>3, <3>2, <3>4, <3>5 DEF Precedes
  <2> QED
    BY <2>1, <2>2 DEF Ordered
<1>7. Owned(r, S)
  <2>1. ASSUME NEW c \in Containers, r.life[c] = "live"
        PROVE  r.view[c] \in S /\ r.container[r.view[c]] = c
    <3>1. s.life[c] = "live" /\ c \notin released
      BY <1>2, <1>4, <2>1
    <3>2. s.view[c] \in S /\ s.container[s.view[c]] = c /\ s.view[c] \in Views
      BY <1>5, <3>1 DEF Good, Owned
    <3> QED
      BY <1>1, <1>2, <3>1, <3>2
  <2>2. ASSUME NEW v \in Views \ S, r.container[v] \in Containers
        PROVE  r.life[r.container[v]] = "destroying"
    <3>1. r.container[v] = s.container[v] /\ s.container[v] \notin released
      BY <1>2, <1>4, <2>2
    <3> QED
      BY <1>2, <1>4, <2>2, <3>1 DEF Good, Owned
  <2>3. ASSUME NEW v \in Views, r.vlife[v] = "destroying"
        PROVE  v \notin S /\ r.container[v] \in Containers
    <3>1. s.vlife[v] = "destroying" /\ s.container[v] \notin released
      BY <1>2, <2>3
    <3> QED
      BY <1>2, <3>1 DEF Good, Owned
  <2> QED
    BY <2>1, <2>2, <2>3 DEF Owned
<1>8. ASSUME NEW v \in K
      PROVE  Kept(r, v)
  <2>1. Kept(s, v)
    BY DEF Good
  <2>2. CASE v \in s.mapped
    BY <1>1, <2>1, <2>2 DEF Kept
  <2>3. CASE v \notin s.mapped
    <3>1. Leaving(s, v) /\ v \notin s.blank
      BY <2>1, <2>3 DEF Kept
    <3>2. ASSUME NEW c \in Containers, s.view[c] = v
          PROVE  /\ r.life[c] \in {"destroying", "freed"}
                 /\ c \notin Dirty(r)
                 /\ c \in P(r) => v \in r.saved
      <4>1. /\ s.life[c] \in {"destroying", "freed"} /\ c \notin Dirty(s)
            /\ c \in P(s) => v \in s.saved
        BY <3>1, <3>2 DEF Leaving
      <4>2. v \in ViewsOf(s, thawed) => c \in thawed
        BY <3>1, <3>2 DEF Leaving, ViewsOf
      <4>3. c \in thawed => c \notin P(s)
        <5>1. c \in Q(s) => s.life[c] = "destroying"
          BY <4>1 DEF Consistent, Reachable
        <5>2. c \in Q(s) /\ c \in P(s) => s.ntxnrefs[c] = 2
          BY <1>4 DEF Consistent, Counted
        <5> QED
          BY <5>1, <5>2
      <4> QED
        BY <1>1, <1>2, <1>3, <1>4, <4>1, <4>2, <4>3
    <3>3. Leaving(r, v)
      BY <1>1, <3>1, <3>2 DEF Leaving
    <3> QED
      BY <1>1, <3>1, <3>3 DEF Kept
  <2> QED
    BY <2>2, <2>3
<1> QED
  BY <1>6, <1>7, <1>8 DEF Good, r

LEMMA EnqueuedGood ==
    ASSUME NEW s, Consistent(s), NEW server_request \in BOOLEAN,
           NEW S, NEW K, Good(s, S, K)
    PROVE  Good(Enqueued(s, server_request), S, K)
<1> DEFINE r == Enqueued(s, server_request)
           t == s.pending_transaction
           a == AddNodes(s, t, server_request)
<1>1. s \in Servers /\ t \in Transactions
  BY DEF Consistent, Servers
<1>2. /\ r.pending_transaction = a /\ r.queued_transaction = s.queued_transaction
      /\ P(r) = P(s) \cup Dirty(s) /\ Dirty(r) = {} /\ r \in Servers
  BY EnqueuedConsistent DEF Consistent
<1>3. /\ r.life = s.life /\ r.view = s.view /\ r.container = s.container
      /\ r.mapped = s.mapped /\ r.vlife = s.vlife
      /\ r.saved = s.saved /\ r.blank = s.blank
  BY <1>1 DEF Enqueued, Servers
<1>4. Q(r) = Q(s)
  BY <1>2 DEF Q
<1>5. \A n \in P(s) : Index(t, n) <= Cardinality(P(s))
  BY DEF Good, Ordered, Bounded
<1>6. /\ \A n \in P(s) : Index(a, n) = Index(t, n)
      /\ \A n \in Dirty(s) \ P(s) : Cardinality(P(s)) < Index(a, n)
      /\ \A n \in NodesOf(a) : Index(a, n) <= Cardinality(NodesOf(a))
  BY <1>1, <1>5, AddNodesAppends DEF P
<1>7. NodesOf(a) = P(r)
  BY <1>2 DEF P
<1> HIDE DEF r
<1>8. /\ Cardinality(P(s)) \in Nat
      /\ \A n \in P(s) : Index(t, n) \in Nat
      /\ \A n \in P(r) : Index(a, n) \in Nat
  <2>1. P(s) \in SUBSET Nodes
    BY DEF P, NodesOf
  <2>2. a \in Transactions
    BY <1>2 DEF Servers
  <2> HIDE DEF a
  <2> QED
    BY <1>1, <1>7, <2>1, <2>2, SubsetCardinality
       DEF P, NodesOf, Index, Transactions, Instruction
<1> HIDE DEF a, t
<1>9. Ordered(r)
  <2>1. Bounded(r)
    BY <1>2, <1>6, <1>7 DEF Bounded
  <2>2. ASSUME NEW c \in Containers, Former(r, c)
        PROVE  c \notin Dirty(r) /\ Precedes(r, c, r.container[r.view[c]])
    <3> DEFINE d == s.container[s.view[c]]
    <3>1. c \notin Dirty(s) /\ Precedes(s, c, d)
      BY <1>3, <2>2 DEF Former, Good, Ordered
    <3> HIDE DEF d
    <3>2. ASSUME d \in P(r), c \in P(r)
          PROVE  Index(a, c) < Index(a, d)
      <4>1. c \in P(s) /\ Index(a, c) = Index(t, c)
        BY <1>2, <1>6, <3>1, <3>2
      <4>2. CASE d \in P(s)
        BY <1>6, <3>1, <4>1, <4>2 DEF Precedes, t
      <4>3. CASE d \notin P(s)
        <5>1. Cardinality(P(s)) < Index(a, d)
          BY <1>2, <1>6, <3>2, <4>3
        <5> QED
          BY <1>5, <1>8, <3>2, <4>1, <5>1
      <4> QED
        BY <4>2, <4>3
    <3>3. d \in Q(s) => /\ c \in Q(s) /\ c \notin P(r)
                        /\ Index(s.queued_transaction, c) < Index(s.queued_transaction, d)
      BY <1>2, <3>1 DEF Precedes
    <3>4. Precedes(r, c, d)
      BY <1>2, <1>4, <3>2, <3>3 DEF Precedes
    <3> QED
      BY <1>2, <1>3, <3>4 DEF d
  <2> QED
    BY <2>1, <2>2 DEF Ordered
<1>10. Owned(r, S)
  BY <1>3 DEF Good, Owned
<1>11. ASSUME NEW v \in K
       PROVE  Kept(r, v)
  BY <1>2, <1>3 DEF Good, Kept, Leaving
<1> QED
  BY <1>9, <1>10, <1>11 DEF Good, r

LEMMA CommitPendingGood ==
    ASSUME NEW s, Consistent(s), NEW timer \in BOOLEAN, NEW S, NEW K, Good(s, S, K)
    PROVE  Good(CommitPending(s, timer), S, K)
<1> DEFINE r == CommitPending(s, timer)
           c == Committed(s, timer)
           d == Destroy(Apply(c))
<1>1. CASE Q(s) # {}
  BY <1>1 DEF CommitPending, IsNull, Q
<1>2. CASE Q(s) = {}
  <2>1. r = c \/ r = d
    BY <1>2 DEF CommitPending, Committed, IsNull, Q
  <2>2. Consistent(c) /\ Good(c, S, K)
    BY <1>2, CommitConsistent, CommitGood
  <2> HIDE DEF c
  <2>3. Good(d, S, K)
    BY <2>2, FinishGood
  <2> QED
    BY <2>1, <2>2, <2>3
<1> QED
  BY <1>1, <1>2

LEMMA ProgressGood ==
    ASSUME NEW s, Consistent(s), NEW timer \in BOOLEAN, NEW S, NEW K, Good(s, S, K)
    PROVE  Good(Progress(s, timer), S, K)
<1> DEFINE d == Destroy(Apply(s))
           c == CommitPending(d, timer)
<1>1. Progress(s, timer) \in {s, d, c}
  BY DEF Progress
<1>2. Consistent(d) /\ Good(d, S, K)
  BY FinishConsistent, FinishGood
<1> HIDE DEF d
<1>3. Good(c, S, K)
  BY <1>2, CommitPendingGood
<1> QED
  BY <1>1, <1>2, <1>3

LEMMA CommitDirtyGood ==
    ASSUME NEW s, Consistent(s), NEW server_request \in BOOLEAN, NEW timer \in BOOLEAN,
           NEW S, NEW K, Good(s, S, K)
    PROVE  Good(CommitDirty(s, server_request, timer), S, K)
<1> DEFINE e == Enqueued(s, server_request)
           c == CommitPending(e, timer)
<1>1. CommitDirty(s, server_request, timer) \in {s, c}
  BY DEF CommitDirty, Enqueued
<1>2. Consistent(e) /\ Good(e, S, K)
  BY EnqueuedConsistent, EnqueuedGood
<1> HIDE DEF e
<1>3. Good(c, S, K)
  BY <1>2, CommitPendingGood
<1> QED
  BY <1>1, <1>3

-----------------------------------------------------------------------------
(* What the handlers do before they commit. *)

SameOrder(s, r) ==
    /\ r.view = s.view /\ r.container = s.container /\ r.vlife = s.vlife
    /\ r.mapped = s.mapped /\ r.saved = s.saved /\ r.blank = s.blank
    /\ r.pending_transaction = s.pending_transaction
    /\ r.queued_transaction.instructions = s.queued_transaction.instructions
    /\ \A c \in Containers : r.life[c] = s.life[c]
    /\ \A c \in Dirty(r) \cap Containers : c \in Dirty(s) \/ s.life[c] # "destroying"

LEMMA SameGood ==
    ASSUME NEW s, Consistent(s), NEW r, SameOrder(s, r), NEW S, NEW K, Good(s, S, K),
           \A c \in Dirty(r) \cap Containers : c \in Dirty(s) \/ s.life[c] = "live"
    PROVE  Good(r, S, K)
<1>1. Q(r) = Q(s) /\ P(r) = P(s)
  BY DEF Q, P, NodesOf, SameOrder
<1>2. \A n : Index(r.queued_transaction, n) = Index(s.queued_transaction, n)
  BY DEF SameOrder, Index
<1>3. ASSUME NEW c \in Containers, Former(r, c)
      PROVE  c \notin Dirty(r) /\ Precedes(r, c, r.container[r.view[c]])
  <2>1. Former(s, c)
    BY <1>3 DEF Former, SameOrder
  <2>2. c \notin Dirty(s) /\ Precedes(s, c, s.container[s.view[c]])
    BY <2>1 DEF Good, Ordered
  <2>3. c \notin Dirty(r)
    BY <2>1, <2>2 DEF Former
  <2> QED
    BY <1>1, <1>2, <2>2, <2>3 DEF Precedes, SameOrder
<1>4. Bounded(r)
  BY <1>1 DEF Good, Ordered, Bounded, SameOrder
<1>5. Owned(r, S)
  BY DEF Good, Owned, SameOrder
<1>6. ASSUME NEW v \in K
      PROVE  Kept(r, v)
  <2>1. Kept(s, v)
    BY DEF Good
  <2>2. Leaving(s, v) => Leaving(r, v)
    BY <1>1 DEF Leaving, SameOrder
  <2> QED
    BY <2>1, <2>2 DEF Kept, SameOrder
<1> QED
  BY <1>3, <1>4, <1>5, <1>6 DEF Good, Ordered

LEMMA SameClean ==
    ASSUME NEW s, NEW r, SameOrder(s, r), Clean(s)
    PROVE  Clean(r)
BY DEF Clean, SameOrder

LEMMA FreesClean ==
    ASSUME NEW s, NEW r, Frees(s, r), Dirty(r) \subseteq Dirty(s), Clean(s)
    PROVE  Clean(r)
BY DEF Clean, Frees, Nodes

LEMMA NodeSetDirtyGood ==
    ASSUME NEW s, Consistent(s), NEW n \in Nodes, s.life[n] \in {"live", "destroying"},
           NEW S, NEW K, Good(s, S, K)
    PROVE  LET r == NodeSetDirty(s, n)
           IN  Good(r, S, K) /\ SameOrder(s, r)
<1> DEFINE r == NodeSetDirty(s, n)
<1>1. /\ Dirty(r) = Dirty(s) \cup (IF s.life[n] = "destroying" THEN {} ELSE {n})
      /\ r = [s EXCEPT !.dirty_nodes = r.dirty_nodes]
      /\ s \in Servers
  BY NodeSetDirtyEffect DEF Consistent
<1> HIDE DEF r
<1>2. /\ r.view = s.view /\ r.container = s.container /\ r.vlife = s.vlife
      /\ r.mapped = s.mapped /\ r.saved = s.saved /\ r.blank = s.blank
      /\ r.pending_transaction = s.pending_transaction
      /\ r.queued_transaction = s.queued_transaction
      /\ r.life = s.life
  BY <1>1 DEF Servers
<1>3. \A c \in Dirty(r) \cap Containers : c \in Dirty(s) \/ s.life[c] = "live"
  BY <1>1
<1>4. SameOrder(s, r)
  BY <1>2, <1>3 DEF SameOrder
<1>5. Good(r, S, K)
  BY <1>3, <1>4, SameGood
<1> QED
  BY <1>4, <1>5 DEF r

LEMMA ModifyGood ==
    ASSUME NEW s, Consistent(s), NEW n \in Nodes, s.life[n] = "live",
           NEW b \in NodeState, NEW S, NEW K, Good(s, S, K)
    PROVE  LET r == Modify(s, n, b)
           IN  Good(r, S, K) /\ (Clean(s) => Clean(r))
<1> DEFINE m == [s EXCEPT !.pending[n] = IF IsView(n) THEN b ELSE @]
           r == NodeSetDirty(m, n)
<1>1. s \in Servers
  BY DEF Consistent
<1>2. /\ m \in Servers /\ Same(s, m) /\ SameOrder(s, m) /\ m.life = s.life
      /\ Dirty(m) = Dirty(s)
  BY <1>1 DEF Servers, Same, SameOrder, Dirty
<1>3. Modify(s, n, b) = r
  BY DEF Modify
<1> HIDE DEF m
<1>4. Consistent(m) /\ Good(m, S, K) /\ m.life[n] = "live"
  BY <1>2, SameConsistent, SameGood
<1>5. Good(r, S, K) /\ SameOrder(m, r)
  BY <1>4, NodeSetDirtyGood
<1> HIDE DEF r
<1>6. Clean(s) => Clean(r)
  BY <1>2, <1>5, SameClean
<1> QED
  BY <1>3, <1>5, <1>6

LEMMA OtherDestroyingGood ==
    ASSUME NEW s, Consistent(s), NEW o \in Others, s.life[o] = "live",
           NEW S, NEW K, Good(s, S, K)
    PROVE  LET r == [NodeSetDirty(s, o) EXCEPT !.life[o] = "destroying"]
           IN  Good(r, S, K) /\ (Clean(s) => Clean(r))
<1> DEFINE d == NodeSetDirty(s, o)
           r == [d EXCEPT !.life[o] = "destroying"]
<1>1. o \in Nodes /\ o \notin Containers
  BY ConstantsAssumption DEF Nodes
<1>2. Consistent(d) /\ Good(d, S, K) /\ SameOrder(s, d)
  BY <1>1, NodeSetDirtyConsistent, NodeSetDirtyGood
<1>3. Clean(s) => Clean(d)
  BY <1>2, SameClean
<1> HIDE DEF d
<1>4. d \in Servers
  BY <1>2 DEF Consistent
<1>5. SameOrder(d, r) /\ Dirty(r) = Dirty(d)
  BY <1>1, <1>4 DEF Servers, SameOrder, Dirty, Nodes
<1> HIDE DEF r
<1>6. Good(r, S, K) /\ (Clean(d) => Clean(r))
  BY <1>2, <1>5, SameGood, SameClean
<1> QED
  BY <1>3, <1>6 DEF r, d

(* The container of a mapped view is not a former one. *)
LEMMA ContainerBeginDestroyGood ==
    ASSUME NEW s, Consistent(s), Shown(s, s.mapped), NEW v \in s.mapped,
           NEW K, Good(s, s.mapped, K)
    PROVE  Good(ContainerBeginDestroy(s, s.container[v]), s.mapped \ {v}, K)
<1> DEFINE c == s.container[v]
           d == NodeSetDirty(s, c)
           r == [d EXCEPT !.life[c] = "destroying"]
           S == s.mapped \ {v}
<1>1. /\ s \in Servers /\ c \in Containers /\ c \in Nodes /\ v \in Views
      /\ s.life[c] = "live" /\ s.view[c] = v
  BY DEF Consistent, Servers, Shown, Nodes
<1>2. ContainerBeginDestroy(s, c) = r
  BY DEF ContainerBeginDestroy
<1> HIDE DEF c
<1>3. Consistent(d) /\ Good(d, s.mapped, K) /\ SameOrder(s, d)
  BY <1>1, NodeSetDirtyConsistent, NodeSetDirtyGood
<1>4. d.life = s.life
  BY <1>1, NodeSetDirtyKeeps
<1> HIDE DEF d
<1>5. d \in Servers
  BY <1>3 DEF Consistent
<1>6. /\ r.view = d.view /\ r.container = d.container /\ r.vlife = d.vlife
      /\ r.mapped = d.mapped /\ r.saved = d.saved /\ r.blank = d.blank
      /\ r.pending_transaction = d.pending_transaction
      /\ r.queued_transaction = d.queued_transaction
      /\ r.dirty_nodes = d.dirty_nodes
      /\ \A n \in Nodes : r.life[n] = IF n = c THEN "destroying" ELSE d.life[n]
  BY <1>5 DEF Servers
<1> HIDE DEF r
<1>7. Q(r) = Q(d) /\ P(r) = P(d) /\ Dirty(r) = Dirty(d)
  BY <1>6 DEF Q, P, Dirty
<1>8. /\ d.view = s.view /\ d.container = s.container /\ d.mapped = s.mapped
      /\ d.container[v] = c /\ d.view[c] = v
  BY <1>1, <1>3 DEF SameOrder, c
<1>9. ASSUME NEW k \in Containers, Former(r, k)
      PROVE  k \notin Dirty(r) /\ Precedes(r, k, r.container[r.view[k]])
  <2>1. k # c
    BY <1>6, <1>8, <1>9 DEF Former
  <2>2. Former(d, k)
    BY <1>6, <1>9, <2>1 DEF Former, Nodes
  <2>3. k \notin Dirty(d) /\ Precedes(d, k, d.container[d.view[k]])
    BY <1>3, <2>2 DEF Good, Ordered
  <2> QED
    BY <1>6, <1>7, <2>3 DEF Precedes
<1>10. Bounded(r)
  BY <1>3, <1>6, <1>7 DEF Good, Ordered, Bounded
<1>11. Owned(r, S)
  <2>1. Owned(d, s.mapped)
    BY <1>3 DEF Good
  <2>2. ASSUME NEW k \in Containers, r.life[k] = "live"
        PROVE  r.view[k] \in S /\ r.container[r.view[k]] = k
    <3>1. k # c /\ d.life[k] = "live"
      BY <1>6, <2>2 DEF Nodes
    <3>2. d.view[k] \in s.mapped /\ d.container[d.view[k]] = k
      BY <2>1, <3>1 DEF Owned
    <3> QED
      BY <1>6, <1>8, <3>1, <3>2
  <2>3. ASSUME NEW u \in Views \ S, r.container[u] \in Containers
        PROVE  r.life[r.container[u]] = "destroying"
    <3>1. CASE u = v
      BY <1>1, <1>6, <1>8, <3>1
    <3>2. CASE u # v
      BY <1>6, <2>1, <2>3, <3>2 DEF Owned, Nodes
    <3> QED
      BY <3>1, <3>2
  <2>4. \A u \in Views : r.vlife[u] = "destroying" => u \notin S /\ r.container[u] \in Containers
    BY <1>6, <2>1 DEF Owned
  <2> QED
    BY <2>2, <2>3, <2>4 DEF Owned
<1>12. ASSUME NEW u \in K
       PROVE  Kept(r, u)
  <2>1. Kept(d, u)
    BY <1>3 DEF Good
  <2>2. Leaving(d, u) => Leaving(r, u)
    BY <1>6, <1>7 DEF Leaving, Nodes
  <2> QED
    BY <1>6, <2>1, <2>2 DEF Kept
<1> QED
  BY <1>2, <1>9, <1>10, <1>11, <1>12 DEF Good, Ordered, c

(***************************************************************************)
(* A new container takes over a view: the one before it, which is no       *)
(* longer dirty, becomes a former one.                                     *)
(***************************************************************************)
LEMMA CreatedGood ==
    ASSUME NEW s, Consistent(s), AtRest(s), Shown(s, s.mapped), Clean(s),
           NEW v \in Views, NEW c \in Containers, NEW b \in Boxes,
           s.life[c] = "unborn", v \notin s.mapped, s.vlife[v] = "live",
           NEW K, Good(s, s.mapped, K),
           NEW r, r = Created(s, v, c, b),
           NEW S, S = s.mapped \cup {v}
    PROVE  Good(r, S, K) /\ Clean(r)
<1>1. /\ s \in Servers /\ c \in Nodes /\ Containers \subseteq Nodes
  BY DEF Consistent, Nodes
<1>2. /\ r.dirty_nodes = s.dirty_nodes
      /\ r.queued_transaction = s.queued_transaction
      /\ r.pending_transaction = s.pending_transaction
      /\ r.saved = s.saved /\ r.blank = s.blank /\ r.vlife = s.vlife
      /\ r.mapped = S
      /\ \A n \in Nodes : r.life[n] = IF n = c THEN "live" ELSE s.life[n]
      /\ \A k \in Containers : r.view[k] = IF k = c THEN v ELSE s.view[k]
      /\ \A u \in Views : r.container[u] = IF u = v THEN c ELSE s.container[u]
  BY <1>1 DEF Servers, Nodes, Created
<1>3. Q(r) = Q(s) /\ P(r) = P(s) /\ Dirty(r) = Dirty(s)
  BY <1>2 DEF Q, P, Dirty
<1>4. c \notin Dirty(s) \cup Q(s) \cup P(s)
  BY <1>1 DEF Consistent, Reachable
<1>5. \A k \in Containers : s.life[k] # "unborn" => s.view[k] \in Views
  BY DEF Consistent, Viewed
<1>6. Owned(s, s.mapped) /\ Ordered(s) /\ Bounded(s)
  BY DEF Good, Ordered
<1>7. Clean(r)
  BY <1>1, <1>2, <1>3, <1>4 DEF Clean
<1>8. ASSUME NEW k \in Containers, Former(r, k)
      PROVE  k \notin Dirty(r) /\ Precedes(r, k, r.container[r.view[k]])
  <2>1. k # c /\ s.life[k] = "destroying" /\ s.view[k] \in Views
    BY <1>1, <1>2, <1>5, <1>8 DEF Former
  <2>2. k \notin Dirty(r)
    BY <1>3, <2>1 DEF Clean
  <2>3. CASE s.view[k] = v
    <3>1. r.container[r.view[k]] = c
      BY <1>2, <2>1, <2>3
    <3> QED
      BY <1>3, <1>4, <2>2, <3>1 DEF Precedes
  <2>4. CASE s.view[k] # v
    <3>1. r.view[k] = s.view[k] /\ r.container[r.view[k]] = s.container[s.view[k]]
      BY <1>2, <2>1, <2>4
    <3>2. Former(s, k)
      BY <1>8, <2>1, <3>1 DEF Former
    <3>3. Precedes(s, k, s.container[s.view[k]])
      BY <1>6, <3>2 DEF Ordered
    <3> QED
      BY <1>2, <1>3, <2>2, <3>1, <3>3 DEF Precedes
  <2> QED
    BY <2>3, <2>4
<1>9. Bounded(r)
  BY <1>2, <1>3, <1>6 DEF Bounded
<1>10. Owned(r, S)
  <2>1. ASSUME NEW k \in Containers, r.life[k] = "live"
        PROVE  r.view[k] \in S /\ r.container[r.view[k]] = k
    <3>1. CASE k = c
      BY <1>2, <3>1
    <3>2. CASE k # c
      <4>1. s.life[k] = "live"
        BY <1>1, <1>2, <2>1, <3>2
      <4>2. s.view[k] \in s.mapped /\ s.container[s.view[k]] = k /\ s.view[k] \in Views
        BY <1>5, <1>6, <4>1 DEF Owned
      <4> QED
        BY <1>2, <3>2, <4>2
    <3> QED
      BY <3>1, <3>2
  <2>2. ASSUME NEW u \in Views \ S, r.container[u] \in Containers
        PROVE  r.life[r.container[u]] = "destroying"
    <3>1. u # v /\ r.container[u] = s.container[u] /\ u \notin s.mapped
      BY <1>2, <2>2
    <3>2. s.life[s.container[u]] = "destroying"
      BY <1>6, <2>2, <3>1 DEF Owned
    <3> QED
      BY <1>1, <1>2, <2>2, <3>1, <3>2
  <2>3. ASSUME NEW u \in Views, r.vlife[u] = "destroying"
        PROVE  u \notin S /\ r.container[u] \in Containers
    <3>1. s.vlife[u] = "destroying" /\ u # v
      BY <1>2, <2>3
    <3> QED
      BY <1>2, <1>6, <3>1 DEF Owned
  <2> QED
    BY <2>1, <2>2, <2>3 DEF Owned
<1>11. ASSUME NEW u \in K
       PROVE  Kept(r, u)
  <2>1. Kept(s, u)
    BY DEF Good
  <2>2. CASE u \in S
    BY <1>2, <2>1, <2>2 DEF Kept
  <2>3. CASE u \notin S
    <3>1. Leaving(s, u) /\ u # v
      BY <2>1, <2>3 DEF Kept
    <3>2. \A k \in Containers : r.view[k] = u => k # c /\ s.view[k] = u
      BY <1>2, <3>1
    <3>3. Leaving(r, u)
      BY <1>1, <1>2, <1>3, <3>1, <3>2 DEF Leaving
    <3> QED
      BY <1>2, <2>1, <3>3 DEF Kept
  <2> QED
    BY <2>2, <2>3
<1> QED
  BY <1>6, <1>7, <1>8, <1>9, <1>10, <1>11 DEF Good, Ordered

(* The end of most handlers. *)
LEMMA EndsGood ==
    ASSUME NEW s, Consistent(s), AtRest(s), NEW S, NEW K, Good(s, S, K),
           NEW visible \in SUBSET Views, NEW r \in BOOLEAN, NEW timer \in TimerOutcomes
    PROVE  LET e == CommitDirty([s EXCEPT !.visible = visible], r, timer)
           IN  Good(e, S, K) /\ Clean(e) /\ e.mapped = s.mapped
<1> DEFINE h == [s EXCEPT !.visible = visible]
           e == CommitDirty(h, r, timer)
<1>1. s \in Servers /\ timer \in BOOLEAN
  BY ConstantsAssumption DEF Consistent
<1>2. h \in Servers /\ Same(s, h) /\ SameOrder(s, h) /\ Dirty(h) = Dirty(s)
  BY <1>1 DEF Servers, Same, SameOrder, Dirty
<1> HIDE DEF h
<1>3. Consistent(h) /\ AtRest(h) /\ Good(h, S, K)
  BY <1>2, SameConsistent, SameGood
<1>4. Good(e, S, K) /\ Dirty(e) = {} /\ Frees(h, e)
  BY <1>1, <1>3, CommitDirtyGood, CommitDirtyConsistent
<1> HIDE DEF e
<1>5. Clean(e) /\ e.mapped = s.mapped
  BY <1>2, <1>4 DEF Clean, Frees, SameOrder
<1> QED
  BY <1>4, <1>5 DEF e, h

LEMMA AtMostOne ==
    ASSUME NEW X, IsFiniteSet(X), Cardinality(X) <= 1, NEW c \in X, NEW d \in X
    PROVE  c = d
<1> SUFFICES ASSUME c # d PROVE FALSE
  OBVIOUS
<1>1. IsFiniteSet({c}) /\ Cardinality({c}) = 1
  BY FS_Singleton
<1> DEFINE C == {c}
<1>2. d \notin C /\ C \cup {d} \subseteq X
  OBVIOUS
<1> HIDE DEF C
<1>3. IsFiniteSet(C) /\ Cardinality(C) = 1
  BY <1>1 DEF C
<1>4. Cardinality(C \cup {d}) = Cardinality(C) + 1
  BY <1>2, <1>3, FS_AddElement
<1>5. Cardinality(C \cup {d}) <= Cardinality(X)
  BY <1>2, FS_Subset
<1> QED
  BY <1>3, <1>4, <1>5, FS_CardinalityType

(* Between two handlers the frames on screen are kept. *)
LEMMA FramesKept ==
    ASSUME CInv
    PROVE  Good(server, server.mapped, Frames(server))
<1> DEFINE s == server
<1>1. /\ s \in Servers /\ Containers \subseteq Nodes /\ IsFiniteSet(Containers)
      /\ Consistent(s) /\ Clean(s) /\ Owned(s, s.mapped)
  BY ConstantsAssumption DEF CInv, Inv, Consistent, Nodes
<1> SUFFICES ASSUME NEW v \in Frames(s), v \notin s.mapped
             PROVE  Leaving(s, v)
  BY DEF Good, Kept, Frames, CInv
<1> DEFINE X == {c \in Containers : s.view[c] = v}
<1>2. v \in s.saved /\ Cardinality(X) <= 1 /\ IsFiniteSet(X)
  BY <1>1, FS_Subset DEF Frames
<1>3. \A c, d \in X : c = d
  BY <1>2, AtMostOne
<1>4. PICK c \in X : c \in Q(s) \cup P(s)
  BY <1>1, <1>2 DEF Consistent, Frozen, ViewsOf
<1>5. s.life[c] \in {"live", "destroying"}
  BY <1>1, <1>4 DEF Consistent, Reachable
<1>6. s.life[c] = "destroying"
  BY <1>1, <1>5 DEF Owned
<1>7. c \notin Dirty(s)
  BY <1>1, <1>6 DEF Clean
<1>8. \A d \in Containers : s.view[d] = v => d = c
  BY <1>3
<1> HIDE DEF s
<1> QED
  BY <1>2, <1>3, <1>6, <1>7, <1>8 DEF Leaving

-----------------------------------------------------------------------------
(* The handlers. *)

(* What a handler leaves, if K were the frames on screen before it. *)
Done(r, K) ==
    /\ Ordered(r) /\ Owned(r, r.mapped) /\ Clean(r)
    /\ \A v \in K : v \notin r.blank

LEMMA GoodDone ==
    ASSUME NEW r, NEW K, Good(r, r.mapped, K), Clean(r)
    PROVE  Done(r, K)
BY DEF Good, Done, Kept

LEMMA RelayoutDone ==
    ASSUME CInv, NEW n \in Nodes, NEW b \in Boxes, Relayout(n, b)
    PROVE  Done(server', Frames(server))
<1> DEFINE K == Frames(server)
           m == Modify(server, n, b)
<1>1. /\ Inv /\ server \in Servers /\ server.life[n] = "live" /\ b \in NodeState
      /\ Good(server, server.mapped, K)
  BY BoxesType, FramesKept DEF CInv, Inv, Consistent, Relayout, Live
<1>2. PICK visible \in Visibilities(server), timer \in TimerOutcomes :
          server' = CommitDirty([m EXCEPT !.visible = visible], TRUE, timer)
  BY DEF Relayout
<1>3. visible \in SUBSET Views
  BY <1>1 DEF Visibilities, Servers
<1> HIDE DEF K
<1>4. /\ Consistent(m) /\ AtRest(m) /\ Good(m, server.mapped, K)
      /\ m.mapped = server.mapped
  BY <1>1, ModifyConsistent, ModifyKeeps, ModifyGood DEF Inv
<1> HIDE DEF m
<1>5. /\ Good(server', server.mapped, K) /\ Clean(server')
      /\ server'.mapped = server.mapped
  BY <1>2, <1>3, <1>4, EndsGood, ZenonT(40)
<1> QED
  BY <1>5, GoodDone DEF K

LEMMA RelayoutUncommittedDone ==
    ASSUME CInv, NEW n \in Nodes, NEW b \in Boxes, RelayoutUncommitted(n, b)
    PROVE  Done(server', Frames(server))
<1> DEFINE K == Frames(server)
           m == Modify(server, n, b)
<1>1. /\ Inv /\ server \in Servers /\ server.life[n] = "live" /\ b \in NodeState
      /\ Clean(server) /\ Good(server, server.mapped, K)
  BY BoxesType, FramesKept DEF CInv, Inv, Consistent, RelayoutUncommitted, Live
<1> HIDE DEF K
<1>2. Good(m, server.mapped, K) /\ Clean(m) /\ m.mapped = server.mapped
  BY <1>1, ModifyKeeps, ModifyGood DEF Inv
<1>3. server' = m
  BY DEF RelayoutUncommitted
<1> HIDE DEF m
<1> QED
  BY <1>2, <1>3, GoodDone DEF K

LEMMA OtherBeginDestroyUncommittedDone ==
    ASSUME CInv, NEW o \in Others, OtherBeginDestroyUncommitted(o)
    PROVE  Done(server', Frames(server))
<1> DEFINE K == Frames(server)
           r == [NodeSetDirty(server, o) EXCEPT !.life[o] = "destroying"]
<1>1. /\ Inv /\ Consistent(server) /\ Clean(server) /\ Good(server, server.mapped, K)
      /\ server.life[o] = "live" /\ server' = r
  BY FramesKept
     DEF CInv, Inv, OtherBeginDestroyUncommitted, OtherDestroying, LiveOthers
<1> HIDE DEF K
<1>2. Good(r, server.mapped, K) /\ Clean(r)
  BY <1>1, OtherDestroyingGood
<1>3. r.mapped = server.mapped
  BY <1>1 DEF NodeSetDirty, Consistent, Servers
<1> HIDE DEF r
<1> QED
  BY <1>1, <1>2, <1>3, GoodDone DEF K

LEMMA OtherBeginDestroyDone ==
    ASSUME CInv, NEW o \in Others, OtherBeginDestroy(o)
    PROVE  Done(server', Frames(server))
<1> DEFINE K == Frames(server)
           d == [NodeSetDirty(server, o) EXCEPT !.life[o] = "destroying"]
<1>1. /\ Consistent(server) /\ Good(server, server.mapped, K)
      /\ server.life[o] = "live" /\ o \in Nodes
  BY FramesKept DEF CInv, Inv, OtherBeginDestroy, LiveOthers, Nodes
<1>2. PICK timer \in TimerOutcomes : server' = CommitDirty(d, TRUE, timer)
  BY DEF OtherBeginDestroy, OtherDestroying
<1> HIDE DEF K
<1>3. Good(d, server.mapped, K)
  BY <1>1, OtherDestroyingGood
<1>4. \A v \in server.mapped : server.container[v] # o
  BY ConstantsAssumption DEF CInv, Inv, Shown
<1>5. Consistent(d) /\ d.mapped = server.mapped /\ AtRest(d)
  BY <1>1, <1>4, BeginDestroyConsistent, BeginDestroyShown DEF CInv, Inv
<1> HIDE DEF d
<1>6. timer \in BOOLEAN
  BY ConstantsAssumption
<1>7. Good(server', server.mapped, K) /\ Dirty(server') = {} /\ Frees(d, server')
  BY <1>2, <1>3, <1>5, <1>6, CommitDirtyGood, CommitDirtyConsistent
<1>8. Clean(server') /\ server'.mapped = server.mapped
  BY <1>5, <1>7 DEF Clean, Frees
<1> QED
  BY <1>7, <1>8, GoodDone DEF K

LEMMA MapDone ==
    ASSUME CInv, NEW v \in Views, NEW c \in Containers, NEW b \in Boxes,
           NEW o \in Others, Map(v, c, b, o)
    PROVE  Done(server', Frames(server))
<1> DEFINE s == server
           K == Frames(s)
           created == Created(s, v, c, b)
           S == s.mapped \cup {v}
           m == Modify(created, c, b)
           d == NodeSetDirty(m, o)
<1>1. /\ s \in Servers /\ b \in NodeState
      /\ s.life[c] = "unborn" /\ s.life[o] = "live" /\ v \notin s.mapped
      /\ s.vlife[v] = "live"
      /\ c \in Nodes /\ o \in Nodes /\ c # o
      /\ Consistent(s) /\ AtRest(s) /\ Shown(s, s.mapped) /\ Clean(s)
      /\ Good(s, s.mapped, K)
  BY BoxesType, ConstantsAssumption, FramesKept
     DEF CInv, Inv, Consistent, Servers, Map, LiveOthers, Nodes
<1>2. PICK visible \in SUBSET Views, timer \in TimerOutcomes :
          server' = CommitDirty([d EXCEPT !.visible = visible], TRUE, timer)
  BY <1>1 DEF Map, Servers, Created
<1> HIDE DEF K
<1>3. /\ Consistent(created) /\ AtRest(created) /\ created.mapped = S
      /\ \A n \in Nodes : created.life[n] = IF n = c THEN "live" ELSE s.life[n]
      /\ Good(created, S, K)
  <2>1. created = Created(s, v, c, b) /\ S = s.mapped \cup {v}
    OBVIOUS
  <2> HIDE DEF s, created, S
  <2>2. /\ Consistent(created) /\ AtRest(created) /\ created.mapped = S
        /\ \A n \in Nodes : created.life[n] = IF n = c THEN "live" ELSE s.life[n]
    BY <1>1, <2>1, CreatedConsistent
  <2>3. Good(created, S, K)
    BY <1>1, <2>1, CreatedGood
  <2> QED
    BY <2>2, <2>3
<1>4. created \in Servers
  BY <1>3 DEF Consistent
<1> HIDE DEF created, S
<1>5. /\ Consistent(m) /\ AtRest(m) /\ Good(m, S, K)
      /\ m.mapped = S /\ m.life[o] = "live"
  BY <1>1, <1>3, <1>4, ModifyConsistent, ModifyKeeps, ModifyGood
<1> HIDE DEF m
<1>6. /\ Consistent(d) /\ AtRest(d) /\ Good(d, S, K) /\ d.mapped = S
  BY <1>1, <1>5, NodeSetDirtyConsistent, NodeSetDirtyKeeps, NodeSetDirtyGood DEF Consistent
<1> HIDE DEF d
<1>7. Good(server', S, K) /\ Clean(server') /\ server'.mapped = S
  BY <1>2, <1>6, EndsGood, ZenonT(40)
<1> QED
  BY <1>7, GoodDone DEF K

LEMMA UnmapDone ==
    ASSUME CInv, NEW v \in Views, NEW o \in Others, Unmap(v, o)
    PROVE  Done(server', Frames(server))
<1> DEFINE s == server
           K == Frames(s)
           c == s.container[v]
           S == s.mapped \ {v}
           begun == ContainerBeginDestroy(s, c)
           d == NodeSetDirty(begun, o)
<1>1. /\ s \in Servers /\ v \in s.mapped
      /\ c \in Containers /\ s.life[c] = "live"
      /\ s.life[o] = "live" /\ o \in Nodes /\ c \in Nodes /\ o # c
      /\ Consistent(s) /\ AtRest(s) /\ Shown(s, s.mapped) /\ Good(s, s.mapped, K)
  BY ConstantsAssumption, FramesKept
     DEF CInv, Inv, Consistent, Servers, Shown, Unmap, LiveOthers, Nodes
<1>2. PICK timer \in TimerOutcomes :
          server' = [CommitDirty([d EXCEPT !.visible = @ \ {v}], TRUE, timer)
                     EXCEPT !.mapped = @ \ {v}]
  BY DEF Unmap
<1> HIDE DEF K
<1>3. Good(begun, S, K)
  BY <1>1, ContainerBeginDestroyGood
<1>4. begun = [NodeSetDirty(s, c) EXCEPT !.life[c] = "destroying"]
  BY DEF ContainerBeginDestroy
<1> HIDE DEF begun
<1>5. Shown(s, S) /\ \A u \in S : s.container[u] # c
  BY <1>1 DEF Shown
<1> HIDE DEF c
<1>6. /\ Consistent(begun) /\ AtRest(begun) /\ begun.mapped = s.mapped
      /\ begun.life[o] = "live"
  <2>1. Consistent(begun)
    BY <1>1, <1>4, BeginDestroyConsistent
  <2>2. AtRest(begun) /\ begun.mapped = s.mapped
    BY <1>1, <1>4, <1>5, BeginDestroyShown
  <2>3. begun.life[o] = s.life[o]
    BY <1>1, <1>4, <1>5, BeginDestroyShown
  <2> QED
    BY <1>1, <2>1, <2>2, <2>3
<1>7. Consistent(d) /\ AtRest(d) /\ Good(d, S, K) /\ d.mapped = s.mapped
  BY <1>1, <1>3, <1>6, NodeSetDirtyConsistent, NodeSetDirtyKeeps, NodeSetDirtyGood
     DEF Consistent
<1> HIDE DEF d
<1> DEFINE visible == d.visible \ {v}
           e == CommitDirty([d EXCEPT !.visible = visible], TRUE, timer)
           r == [e EXCEPT !.mapped = @ \ {v}]
<1>8. server' = r
  BY <1>2
<1>9. visible \in SUBSET Views
  BY <1>7 DEF Consistent, Servers
<1>10. Good(e, S, K) /\ Clean(e) /\ e.mapped = s.mapped
  BY <1>7, <1>9, EndsGood, ZenonT(40)
<1>11. Consistent(e)
  <2>1. {} \in SUBSET Views /\ Shown(d, {})
    BY DEF Shown
  <2> HIDE DEF visible
  <2> QED
    BY <1>7, <1>9, <2>1, CommitEndsHandler
<1> HIDE DEF e
<1>12. e \in Servers
  BY <1>11 DEF Consistent
<1>13. /\ r.view = e.view /\ r.container = e.container /\ r.vlife = e.vlife
       /\ r.life = e.life /\ r.dirty_nodes = e.dirty_nodes /\ r.blank = e.blank
       /\ r.pending_transaction = e.pending_transaction
       /\ r.queued_transaction = e.queued_transaction
       /\ r.mapped = S
  BY <1>10, <1>12 DEF Servers
<1> HIDE DEF r
<1>14. Q(r) = Q(e) /\ P(r) = P(e) /\ Dirty(r) = Dirty(e)
  BY <1>13 DEF Q, P, Dirty
<1>15. Ordered(r)
  <2>1. Ordered(e)
    BY <1>10 DEF Good
  <2> QED
    BY <1>13, <1>14, <2>1 DEF Ordered, Bounded, Former, Precedes
<1>16. Owned(r, r.mapped) /\ Clean(r)
  BY <1>10, <1>13, <1>14 DEF Good, Owned, Clean
<1>17. \A u \in K : u \notin r.blank
  BY <1>10, <1>13 DEF Good, Kept
<1> QED
  BY <1>8, <1>15, <1>16, <1>17 DEF Done, K

LEMMA ViewBeginDestroyDone ==
    ASSUME CInv, NEW v \in Views, ViewBeginDestroy(v)
    PROVE  Done(server', Frames(server))
<1> DEFINE s == server
           K == Frames(s)
           life == IF s.container[v] = NULL THEN "freed" ELSE "destroying"
           r == [s EXCEPT !.vlife[v] = life]
<1>1. /\ s \in Servers /\ v \notin s.mapped /\ Clean(s) /\ Good(s, s.mapped, K)
      /\ server' = r
  BY FramesKept DEF CInv, Inv, Consistent, ViewBeginDestroy
<1>2. life = "destroying" => s.container[v] \in Containers
  BY <1>1 DEF Servers
<1> HIDE DEF K, life
<1>3. /\ r.view = s.view /\ r.container = s.container
      /\ r.life = s.life /\ r.dirty_nodes = s.dirty_nodes /\ r.blank = s.blank
      /\ r.pending_transaction = s.pending_transaction
      /\ r.queued_transaction = s.queued_transaction
      /\ r.mapped = s.mapped
      /\ \A u \in Views : r.vlife[u] = IF u = v THEN life ELSE s.vlife[u]
  BY <1>1 DEF Servers
<1> HIDE DEF r
<1>4. Q(r) = Q(s) /\ P(r) = P(s) /\ Dirty(r) = Dirty(s)
  BY <1>3 DEF Q, P, Dirty
<1>5. Ordered(r)
  <2>1. Ordered(s)
    BY <1>1 DEF Good
  <2> QED
    BY <1>3, <1>4, <2>1 DEF Ordered, Bounded, Former, Precedes
<1>6. Owned(r, r.mapped) /\ Clean(r)
  BY <1>1, <1>2, <1>3, <1>4 DEF Good, Owned, Clean
<1>7. \A u \in K : u \notin r.blank
  BY <1>1, <1>3 DEF Good, Kept
<1> QED
  BY <1>1, <1>5, <1>6, <1>7 DEF Done, K

LEMMA AdoptSizeGood ==
    ASSUME NEW s, Consistent(s), AtRest(s), Shown(s, s.mapped), Clean(s),
           NEW v \in s.mapped, NEW w \in Widths, NEW timer \in TimerOutcomes,
           NEW K, Good(s, s.mapped, K)
    PROVE  LET r == AdoptSize(s, v, w, timer)
           IN  Good(r, s.mapped, K) /\ Clean(r)
<1> DEFINE c == s.container[v]
           told == IF ToplevelSetSize(s, v, w)
                   THEN [s EXCEPT !.configures[v] = @ + 1, !.configured[v].w = w]
                   ELSE s
           resized == [told EXCEPT !.geometry = Drawn(s, v, w)]
           box == [s.pending[c] EXCEPT !.w = w]
           m == Modify(resized, c, box)
           e == CommitDirty(m, FALSE, timer)
<1>1. /\ s \in Servers /\ v \in Views /\ timer \in BOOLEAN
      /\ c \in Nodes /\ s.life[c] = "live"
  BY ConstantsAssumption DEF Consistent, Servers, Shown, Nodes
<1>2. box \in NodeState
  BY <1>1, BoxesType DEF Servers
<1>3. told \in Servers /\ Same(s, told) /\ SameOrder(s, told) /\ told.dirty_nodes = s.dirty_nodes
  <2>1. [s.configured[v] EXCEPT !.w = w] \in NodeState
    BY <1>1, BoxesType DEF Servers
  <2> DEFINE configures == [s.configures EXCEPT ![v] = @ + 1]
             configured == [s.configured EXCEPT ![v] = [s.configured[v] EXCEPT !.w = w]]
             t == [s EXCEPT !.configures = configures, !.configured = configured]
  <2>2. configures \in [Views -> Nat] /\ configured \in [Views -> NodeState]
    BY <1>1, <2>1 DEF Servers
  <2>3. t = [s EXCEPT !.configures[v] = @ + 1, !.configured[v].w = w]
    BY <1>1 DEF Servers
  <2> HIDE DEF configures, configured
  <2>4. t \in Servers /\ Same(s, t) /\ SameOrder(s, t) /\ t.dirty_nodes = s.dirty_nodes
    BY <1>1, <2>2 DEF Servers, Same, SameOrder, Dirty
  <2>5. Same(s, s) /\ SameOrder(s, s)
    BY DEF Same, SameOrder
  <2> QED
    BY <1>1, <2>3, <2>4, <2>5
<1>4. AdoptSize(s, v, w, timer) = IF AdoptsSize(s, v, w) THEN e ELSE resized
  BY DEF AdoptSize
<1>5. Drawn(s, v, w) \in [FloatingViews -> Widths \cup {0}]
  BY <1>1 DEF Drawn, Servers
<1> HIDE DEF told, box, c
<1>6. /\ resized \in Servers /\ Same(s, resized) /\ SameOrder(s, resized)
      /\ Dirty(resized) = Dirty(s)
  BY <1>3, <1>5 DEF Servers, Same, SameOrder, Dirty
<1> HIDE DEF resized
<1>7. /\ Consistent(resized) /\ Good(resized, s.mapped, K) /\ Clean(resized)
      /\ resized.life[c] = "live"
  BY <1>1, <1>6, SameConsistent, SameGood, SameClean DEF Same
<1>8. Consistent(m) /\ Good(m, s.mapped, K)
  BY <1>1, <1>2, <1>6, <1>7, ModifyConsistent, ModifyGood
<1>9. AtRest(m)
  BY <1>1, <1>2, <1>6, SameConsistent, ModifyKeeps
<1> HIDE DEF m
<1>10. Good(e, s.mapped, K) /\ Dirty(e) = {}
  BY <1>1, <1>8, <1>9, CommitDirtyGood, CommitDirtyConsistent
<1> HIDE DEF e
<1>11. Clean(e)
  BY <1>10 DEF Clean
<1> QED
  BY <1>4, <1>7, <1>10, <1>11

LEMMA SetInstructionReadyGood ==
    ASSUME NEW s, Consistent(s), AtRest(s), NEW n \in s.instruction, NEW timer \in BOOLEAN,
           NEW S, NEW K, Good(s, S, K)
    PROVE  Good(SetInstructionReady(s, n, timer), S, K)
<1> DEFINE q == s.queued_transaction
           k == IF q.instructions[n].waiting /\ q.num_waiting > 0
                THEN q.num_waiting - 1 ELSE q.num_waiting
           i == [s EXCEPT !.queued_transaction.num_waiting = k, !.instruction = @ \ {n}]
           r == Progress(i, timer)
<1>1. SetInstructionReady(s, n, timer) = r
  BY DEF SetInstructionReady
<1>2. Consistent(i)
  BY SetInstructionReadyCounts
<1>3. s \in Servers /\ q \in Transactions
  BY DEF Consistent, Servers
<1> HIDE DEF k
<1>4. SameOrder(s, i) /\ Dirty(i) = Dirty(s)
  <2>1. i.queued_transaction = [q EXCEPT !.num_waiting = k]
    BY <1>3 DEF Servers
  <2>2. i.queued_transaction.instructions = q.instructions
    BY <1>3, <2>1 DEF Transactions
  <2>3. /\ i.view = s.view /\ i.container = s.container /\ i.vlife = s.vlife
        /\ i.mapped = s.mapped /\ i.saved = s.saved /\ i.blank = s.blank
        /\ i.pending_transaction = s.pending_transaction
        /\ i.life = s.life /\ i.dirty_nodes = s.dirty_nodes
    BY <1>3 DEF Servers
  <2> HIDE DEF i
  <2> QED
    BY <2>2, <2>3 DEF SameOrder, Dirty
<1> HIDE DEF i
<1>5. Good(i, S, K)
  BY <1>4, SameGood
<1> QED
  BY <1>1, <1>2, <1>5, ProgressGood

LEMMA ClientCommitDone ==
    ASSUME CInv, NEW v \in Views, NEW k \in 1 .. MaxSerial, NEW w \in Widths,
           ClientCommit(v, k, w)
    PROVE  Done(server', Frames(server))
<1> DEFINE s == server
           K == Frames(s)
<1>1. /\ v \in s.mapped /\ s.mapped \in SUBSET Views
      /\ Consistent(s) /\ AtRest(s) /\ Shown(s, s.mapped) /\ Clean(s)
      /\ Good(s, s.mapped, K)
  BY FramesKept DEF ClientCommit, CInv, Inv, Consistent, Servers
<1>2. PICK timer \in TimerOutcomes :
          LET a == AdoptSize(server, v, w, timer)
              c == a.container[v]
          IN  server' = IF c \in a.instruction /\ IsReady(a, v, k, w)
                        THEN SetInstructionReady(a, c, timer) ELSE a
  BY DEF ClientCommit
<1>3. timer \in BOOLEAN
  BY ConstantsAssumption
<1> DEFINE a == AdoptSize(s, v, w, timer)
           c == a.container[v]
           r == SetInstructionReady(a, c, timer)
<1>4. server' = a \/ (c \in a.instruction /\ server' = r)
  <2>1. server' = IF c \in a.instruction /\ IsReady(a, v, k, w) THEN r ELSE a
    BY <1>2
  <2> HIDE DEF a, c, r
  <2> QED
    BY <2>1
<1> HIDE DEF s, K
<1>5. Consistent(a) /\ AtRest(a) /\ a.mapped = s.mapped
  BY <1>1, AdoptSizeConsistent
<1>6. Good(a, s.mapped, K) /\ Clean(a)
  BY <1>1, AdoptSizeGood
<1> HIDE DEF a, c
<1>7. CASE server' = a
  BY <1>5, <1>6, <1>7, GoodDone DEF K, s
<1>8. CASE c \in a.instruction /\ server' = r
  <2>1. Good(r, s.mapped, K)
    BY <1>3, <1>5, <1>6, <1>8, SetInstructionReadyGood
  <2>2. Frees(a, r) /\ Dirty(r) = Dirty(a)
    BY <1>3, <1>5, <1>8, SetInstructionReadyConsistent
  <2> HIDE DEF r
  <2>3. Clean(r) /\ r.mapped = s.mapped
    BY <1>5, <1>6, <2>2, FreesClean DEF Frees
  <2> QED
    BY <1>8, <2>1, <2>3, GoodDone DEF K, s
<1> QED
  BY <1>4, <1>7, <1>8

LEMMA ToldSameOrder ==
    ASSUME NEW s \in Servers, NEW v \in Views, NEW b \in NodeState
    PROVE  LET r == Told(s, v, b)
           IN  SameOrder(s, r) /\ Dirty(r) = Dirty(s)
BY DEF Told, Servers, SameOrder, Dirty

LEMMA FloatingRequestDone ==
    ASSUME CInv, NEW v \in Views, NEW b \in Boxes, FloatingRequest(v, b)
    PROVE  Done(server', Frames(server))
<1> DEFINE K == Frames(server)
           t == Told(server, v, b)
           c == server.container[v]
           m == Modify(t, c, b)
<1>1. /\ server \in Servers /\ b \in NodeState /\ Consistent(server) /\ Clean(server)
      /\ c \in Nodes /\ server.life[c] = "live" /\ Good(server, server.mapped, K)
  BY BoxesType, FramesKept DEF CInv, Inv, Consistent, Shown, FloatingRequest, Nodes
<1>2. /\ t \in Servers /\ Same(server, t) /\ t.mapped = server.mapped
      /\ SameOrder(server, t) /\ Dirty(t) = Dirty(server)
  BY <1>1, ToldSame, ToldSameOrder
<1>3. server' = m
  BY DEF FloatingRequest
<1> HIDE DEF K, t, c
<1>4. /\ Consistent(t) /\ t.life[c] = "live" /\ Good(t, server.mapped, K) /\ Clean(t)
  BY <1>1, <1>2, SameConsistent, SameGood, SameClean DEF Same
<1>5. Good(m, server.mapped, K) /\ Clean(m) /\ m.mapped = server.mapped
  BY <1>1, <1>2, <1>4, ModifyKeeps, ModifyGood
<1> HIDE DEF m
<1> QED
  BY <1>3, <1>5, GoodDone DEF K

LEMMA TiledRequestDone ==
    ASSUME CInv, NEW v \in Views, TiledRequest(v)
    PROVE  Done(server', Frames(server))
<1> DEFINE K == Frames(server)
           b == server.current[server.container[v]]
           t == Told(server, v, b)
<1>1. /\ server \in Servers /\ b \in NodeState /\ Consistent(server) /\ Clean(server)
      /\ Good(server, server.mapped, K)
  BY FramesKept DEF CInv, Inv, Consistent, Shown, TiledRequest, Servers, Nodes
<1>2. server' = t
  BY DEF TiledRequest
<1> HIDE DEF K, b
<1>3. t.mapped = server.mapped /\ SameOrder(server, t) /\ Dirty(t) = Dirty(server)
  BY <1>1, ToldSame, ToldSameOrder
<1> HIDE DEF t
<1>4. Good(t, server.mapped, K) /\ Clean(t)
  BY <1>1, <1>3, SameGood, SameClean
<1> QED
  BY <1>2, <1>3, <1>4, GoodDone DEF K

LEMMA TimeoutDone ==
    ASSUME CInv, Timeout
    PROVE  Done(server', Frames(server))
<1> DEFINE K == Frames(server)
           i == [server EXCEPT !.queued_transaction.num_waiting = 0]
<1>1. PICK timer \in TimerOutcomes : server' = Progress(i, timer)
  BY DEF Timeout
<1>2. /\ server \in Servers /\ timer \in BOOLEAN
      /\ server.queued_transaction \in Transactions
      /\ Consistent(server) /\ Clean(server) /\ Good(server, server.mapped, K)
  BY ConstantsAssumption, FramesKept DEF Timeout, CInv, Inv, Consistent, Servers
<1>3. Consistent(i) /\ i.mapped = server.mapped /\ (P(i) # {} => Q(i) # {})
  BY TimedOutConsistent DEF CInv, Inv
<1>4. SameOrder(server, i) /\ Dirty(i) = Dirty(server)
  <2>1. i.queued_transaction = [server.queued_transaction EXCEPT !.num_waiting = 0]
    BY <1>2 DEF Servers
  <2>2. i.queued_transaction.instructions = server.queued_transaction.instructions
    BY <1>2, <2>1 DEF Transactions
  <2>3. /\ i.view = server.view /\ i.container = server.container
        /\ i.vlife = server.vlife /\ i.mapped = server.mapped
        /\ i.saved = server.saved /\ i.blank = server.blank
        /\ i.pending_transaction = server.pending_transaction
        /\ i.life = server.life /\ i.dirty_nodes = server.dirty_nodes
    BY <1>2 DEF Servers
  <2> HIDE DEF i
  <2> QED
    BY <2>2, <2>3 DEF SameOrder, Dirty
<1> HIDE DEF i, K
<1>5. Good(i, server.mapped, K) /\ Clean(i)
  BY <1>2, <1>4, SameGood, SameClean
<1>6. Good(server', server.mapped, K)
  BY <1>1, <1>2, <1>3, <1>5, ProgressGood
<1>7. Frees(i, server') /\ Dirty(server') = Dirty(i)
  BY <1>1, <1>2, <1>3, ProgressConsistent
<1>8. Clean(server') /\ server'.mapped = server.mapped
  BY <1>3, <1>5, <1>7, FreesClean DEF Frees
<1> QED
  BY <1>6, <1>8, GoodDone DEF K

-----------------------------------------------------------------------------
LEMMA InitCInv == Init => CInv
<1> SUFFICES ASSUME Init PROVE CInv
  OBVIOUS
<1>1. /\ server.dirty_nodes = << >> /\ server.mapped = {}
      /\ server.pending_transaction = NoTxn
      /\ \A n \in Nodes : server.life[n] \in {"live", "unborn"}
      /\ \A c \in Containers : server.life[c] = "unborn"
      /\ \A v \in Views : server.container[v] = NULL /\ server.vlife[v] = "live"
  BY ConstantsAssumption DEF Init, Nodes
<1>2. Dirty(server) = {} /\ P(server) = {} /\ NULL \notin Containers
  BY <1>1, NoTxnType, ConstantsAssumption DEF Dirty, P, Range, Nodes
<1>3. Ordered(server)
  BY <1>1, <1>2 DEF Ordered, Bounded, Former
<1>4. Owned(server, server.mapped)
  BY <1>1, <1>2 DEF Owned
<1>5. Clean(server)
  BY <1>2 DEF Clean
<1> QED
  BY <1>3, <1>4, <1>5, InitInv DEF CInv

(* What every step keeps of the views that must not lose their frame.      *)
FramesDone == Done(server', Frames(server))

LEMMA NextDone == CInv /\ [Next]_vars => FramesDone
<1> SUFFICES ASSUME CInv, [Next]_vars PROVE FramesDone
  OBVIOUS
<1>1. ASSUME NEW n \in Nodes, NEW b \in Boxes, Relayout(n, b) PROVE FramesDone
  BY <1>1, RelayoutDone DEF FramesDone
<1>2. ASSUME NEW n \in Nodes, NEW b \in Boxes, RelayoutUncommitted(n, b) PROVE FramesDone
  BY <1>2, RelayoutUncommittedDone DEF FramesDone
<1>3. ASSUME NEW o \in Others, OtherBeginDestroyUncommitted(o) PROVE FramesDone
  BY <1>3, OtherBeginDestroyUncommittedDone DEF FramesDone
<1>4. ASSUME NEW v \in Views, NEW c \in Containers, NEW b \in Boxes, NEW o \in Others,
             Map(v, c, b, o)
      PROVE  FramesDone
  BY <1>4, MapDone DEF FramesDone
<1>5. ASSUME NEW v \in Views, NEW o \in Others, Unmap(v, o) PROVE FramesDone
  BY <1>5, UnmapDone DEF FramesDone
<1>6. ASSUME NEW v \in Views, ViewBeginDestroy(v) PROVE FramesDone
  BY <1>6, ViewBeginDestroyDone DEF FramesDone
<1>7. ASSUME NEW o \in Others, OtherBeginDestroy(o) PROVE FramesDone
  BY <1>7, OtherBeginDestroyDone DEF FramesDone
<1>8. ASSUME NEW v \in Views, NEW k \in 1 .. MaxSerial, NEW w \in Widths,
             ClientCommit(v, k, w)
      PROVE  FramesDone
  BY <1>8, ClientCommitDone DEF FramesDone
<1>9. ASSUME NEW v \in Views, NEW b \in Boxes, FloatingRequest(v, b) PROVE FramesDone
  BY <1>9, FloatingRequestDone DEF FramesDone
<1>10. ASSUME NEW v \in Views, TiledRequest(v) PROVE FramesDone
  BY <1>10, TiledRequestDone DEF FramesDone
<1>11. CASE Timeout
  BY <1>11, TimeoutDone DEF FramesDone
<1>12. CASE UNCHANGED vars
  BY <1>12 DEF vars, CInv, FramesDone, Done, Frames
<1> QED
  BY <1>1, <1>2, <1>3, <1>4, <1>5, <1>6, <1>7, <1>8, <1>9, <1>10, <1>11, <1>12 DEF Next

LEMMA NextCInv == CInv /\ [Next]_vars => CInv'
<1> SUFFICES ASSUME CInv, [Next]_vars PROVE CInv'
  OBVIOUS
<1>1. Inv'
  BY NextInv DEF CInv
<1>2. Done(server', Frames(server))
  BY NextDone DEF FramesDone
<1> QED
  BY <1>1, <1>2 DEF CInv, Done

THEOREM CInvariance == Spec => []CInv
BY InitCInv, NextCInv, PTL DEF Spec

(* The container that would free a view comes after the former ones.       *)
LEMMA FormerFirst ==
    ASSUME CInv, NEW v \in Views, server.vlife[v] = "destroying",
           NEW c \in Containers, server.view[c] = v, c # server.container[v],
           server.life[c] = "destroying"
    PROVE  DestroyedBefore(c, server.container[v])
<1> DEFINE d == server.container[v]
<1>1. Queued = Q(server) /\ Pending = P(server)
  BY DEF Queued, Pending, Q, P
<1>2. Former(server, c)
  BY DEF Former
<1>3. c \notin Dirty(server) /\ Precedes(server, c, d)
  BY <1>2 DEF CInv, Ordered
<1>4. d \in Containers /\ server.life[d] = "destroying"
  BY DEF CInv, Owned
<1>5. d \notin Dirty(server)
  BY <1>4 DEF CInv, Clean
<1> HIDE DEF d
<1>6. c \in Q(server) \cup P(server) /\ d \in Q(server) \cup P(server)
  BY <1>3, <1>4, <1>5 DEF CInv, Inv, Consistent, Doomed, Nodes
<1>7. CASE d \in Q(server)
  BY <1>1, <1>3, <1>7 DEF DestroyedBefore, Precedes, Index, d
<1>8. CASE d \notin Q(server)
  BY <1>1, <1>3, <1>6, <1>8 DEF DestroyedBefore, Precedes, Index, d
<1> QED
  BY <1>7, <1>8

(***************************************************************************)
(* transaction_destroy frees a view with its last container, after every   *)
(* former container of it: none is left with a dangling view pointer.      *)
(***************************************************************************)
THEOREM ViewFreedLastCorrect == Spec => ViewFreedLast
<1> DEFINE A == \A v \in Views : server.vlife[v] = "destroying" /\ server'.vlife[v] = "freed" =>
                   \A c \in Containers :
                       /\ server.view[c] = v /\ c # server.container[v]
                       /\ server.life[c] = "destroying"
                       => DestroyedBefore(c, server.container[v])
<1>1. CInv /\ [Next]_vars => [A]_vars
  BY FormerFirst
<1>2. ViewFreedLast <=> [][A]_vars
  BY DEF ViewFreedLast
<1> HIDE DEF A
<1> QED
  BY <1>1, <1>2, CInvariance, PTL DEF Spec

(***************************************************************************)
(* transaction_commit never saves the buffer of a closing window again:    *)
(* the frame on screen is the last one its surface had.                    *)
(***************************************************************************)
THEOREM ClosingFrameKeptCorrect == Spec => ClosingFrameKept
<1> DEFINE A == \A v \in server.saved \ server.blank :
                   v \in server'.blank =>
                       Cardinality({c \in Containers : server.view[c] = v}) > 1
<1>1. CInv /\ [Next]_vars => [A]_vars
  <2> SUFFICES ASSUME CInv, [Next]_vars,
                      NEW v \in server.saved \ server.blank, v \in server'.blank
               PROVE  Cardinality({c \in Containers : server.view[c] = v}) > 1
    OBVIOUS
  <2> DEFINE X == {c \in Containers : server.view[c] = v}
  <2>1. v \notin Frames(server)
    BY NextDone DEF FramesDone, Done
  <2>2. ~(Cardinality(X) <= 1)
    BY <2>1 DEF Frames
  <2>3. IsFiniteSet(X)
    BY ConstantsAssumption, FS_Subset
  <2>4. Cardinality(X) \in Nat
    BY <2>3, FS_CardinalityType
  <2> HIDE DEF X
  <2>5. Cardinality(X) > 1
    BY <2>2, <2>4
  <2> QED
    BY <2>5 DEF X
<1>2. ClosingFrameKept <=> [][A]_vars
  BY DEF ClosingFrameKept
<1> HIDE DEF A
<1> QED
  BY <1>1, <1>2, CInvariance, PTL DEF Spec
=============================================================================
