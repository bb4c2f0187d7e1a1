------------------------ MODULE Transaction_proofs ------------------------
(***************************************************************************)
(* Proofs about the layout transactions, for any sets of nodes and views   *)
(* and any bounds.  The functions of transaction.c are operators from a    *)
(* state record to a state record; each gets one lemma for what it         *)
(* preserves, and an action combines the lemmas of the functions it calls. *)
(* First the queue of transactions, then that it implements AtomicLayout.  *)
(***************************************************************************)
EXTENDS Transaction, FiniteSetTheorems, TLAPS

-----------------------------------------------------------------------------
(* Types. *)

LEMMA NoTxnType == NoTxn \in Transactions /\ NodesOf(NoTxn) = {}
BY DEF NoTxn, Transactions, NodesOf

LEMMA NodeSetDirtyType ==
    ASSUME NEW s \in Servers, NEW n \in Nodes
    PROVE  NodeSetDirty(s, n) \in Servers
<1>1. s.dirty_nodes \in Seq(Nodes)
  BY DEF Servers
<1>2. Append(s.dirty_nodes, n) \in Seq(Nodes)
  BY <1>1
<1>3. [s EXCEPT !.dirty_nodes = Append(@, n)] \in Servers
  BY <1>2 DEF Servers
<1> QED
  BY <1>3 DEF NodeSetDirty

LEMMA ModifyType ==
    ASSUME NEW s \in Servers, NEW n \in Nodes, NEW b \in NodeState
    PROVE  Modify(s, n, b) \in Servers
<1> DEFINE m == [s EXCEPT !.pending[n] = IF IsView(n) THEN b ELSE @]
<1>1. m \in Servers
  BY DEF Servers
<1> QED
  BY <1>1, NodeSetDirtyType DEF Modify

LEMMA NodesFinite == IsFiniteSet(Nodes)
BY ConstantsAssumption, FS_Union DEF Nodes

LEMMA SubsetCardinality ==
    ASSUME NEW S \in SUBSET Nodes
    PROVE  IsFiniteSet(S) /\ Cardinality(S) \in Nat
BY NodesFinite, FS_Subset, FS_CardinalityType

LEMMA InstructionNotNull == \A i \in Instruction : i # NULL
BY ConstantsAssumption

(***************************************************************************)
(* What transaction_add_node makes of t, and which nodes it holds then.    *)
(***************************************************************************)
LEMMA AddNodesType ==
    ASSUME NEW s \in Servers, NEW t \in Transactions, NEW r \in BOOLEAN
    PROVE  /\ AddNodes(s, t, r) \in Transactions
           /\ NodesOf(AddNodes(s, t, r)) = NodesOf(t) \cup Dirty(s)
           /\ \A n \in Dirty(s) : AddNodes(s, t, r).instructions[n].state = s.pending[n]
           /\ \A n \in Nodes \ Dirty(s) :
                  AddNodes(s, t, r).instructions[n] = t.instructions[n]
<1> DEFINE known == NodesOf(t)
           new == Dirty(s) \ known
           Index(n) == Cardinality(known)
                         + Cardinality({m \in new : PosInDirty(s, m) <= PosInDirty(s, n)})
           Add(n) == [index |-> IF n \in known THEN t.instructions[n].index ELSE Index(n),
                      state |-> s.pending[n],
                      serial |-> 0,
                      server_request |-> \/ r
                                         \/ n \in known /\ t.instructions[n].server_request,
                      waiting |-> FALSE]
           added == [t EXCEPT !.instructions =
                        [n \in Nodes |-> IF n \in Dirty(s) THEN Add(n) ELSE @[n]]]
<1>1. Dirty(s) \subseteq Nodes
  BY DEF Dirty, Servers, Range
<1>2. \A n \in Nodes : Index(n) \in Nat
  <2> TAKE n \in Nodes
  <2>1. Cardinality(known) \in Nat
    BY SubsetCardinality DEF NodesOf
  <2>2. {m \in new : PosInDirty(s, m) <= PosInDirty(s, n)} \in SUBSET Nodes
    BY <1>1
  <2>3. Cardinality({m \in new : PosInDirty(s, m) <= PosInDirty(s, n)}) \in Nat
    BY <2>2, SubsetCardinality
  <2> QED
    BY <2>1, <2>3
<1>3. \A n \in known : t.instructions[n] \in Instruction
  BY DEF NodesOf, Transactions
<1> HIDE DEF Index, known
<1>4. \A n \in Nodes : Add(n) \in Instruction
  <2> TAKE n \in Nodes
  <2>1. (IF n \in known THEN t.instructions[n].index ELSE Index(n)) \in Nat
    BY <1>2, <1>3 DEF Instruction
  <2>2. s.pending[n] \in NodeState
    BY DEF Servers
  <2>3. (r \/ (n \in known /\ t.instructions[n].server_request)) \in BOOLEAN
    OBVIOUS
  <2> QED
    BY <2>1, <2>2, <2>3 DEF Instruction
<1>5. AddNodes(s, t, r) = added
  BY DEF AddNodes, known, Index
<1>6. \A n \in Nodes : /\ n \in Dirty(s) => Add(n).state = s.pending[n]
                       /\ Add(n) # NULL
  BY <1>4, InstructionNotNull
<1> HIDE DEF Add
<1>7. added \in Transactions
  BY <1>4 DEF Transactions
<1>8. \A n \in Nodes : added.instructions[n] = IF n \in Dirty(s) THEN Add(n)
                                                ELSE t.instructions[n]
  BY DEF Transactions
<1>9. NodesOf(added) = NodesOf(t) \cup Dirty(s)
  BY <1>1, <1>6, <1>8 DEF NodesOf
<1> QED
  BY <1>1, <1>5, <1>6, <1>7, <1>8, <1>9

-----------------------------------------------------------------------------
(***************************************************************************)
(* The inductive invariant.  Consistent holds of the state record between  *)
(* any two functions of transaction.c; AtRest, which says that the queue   *)
(* has progressed as far as it can, and Shown, which ties the views that   *)
(* are mapped to their containers, hold between two handlers only.         *)
(***************************************************************************)
Q(s) == NodesOf(s.queued_transaction)
P(s) == NodesOf(s.pending_transaction)

(* ntxnrefs counts the transactions that hold the node. *)
Counted(s) ==
    \A n \in Nodes : s.ntxnrefs[n] = (IF n \in Q(s) THEN 1 ELSE 0)
                                       + (IF n \in P(s) THEN 1 ELSE 0)

(* What transactions and the dirty list point to has not been freed. *)
Reachable(s) ==
    \A n \in Dirty(s) \cup Q(s) \cup P(s) : s.life[n] \in {"live", "destroying"}

(* Instruction pointers point into the queued transaction. *)
Instructed(s) == s.instruction \subseteq Q(s)

(* A container is born with its view. *)
Viewed(s) == \A c \in Containers : s.life[c] # "unborn" => s.view[c] \in Views

(* Destructions will be completed. *)
Doomed(s) ==
    \A n \in Nodes : s.life[n] = "destroying" => n \in Dirty(s) \cup Q(s) \cup P(s)

(* The transaction that is next to be applied thaws all that is frozen. *)
Frozen(s) == s.saved \subseteq ViewsOf(s, IF Q(s) = {} THEN P(s) ELSE Q(s))

AwaitedFrozen(s) ==
    \A c \in Q(s) : s.queued_transaction.instructions[c].waiting
                        => c \in Containers /\ s.view[c] \in s.saved

Silent(s) == {n \in Q(s) : s.queued_transaction.instructions[n].waiting
                                /\ n \in s.instruction}

Awaits(s) == s.queued_transaction.num_waiting \in {0, Cardinality(Silent(s))}

Consistent(s) ==
    /\ s \in Servers
    /\ Counted(s)
    /\ Reachable(s)
    /\ Instructed(s)
    /\ Viewed(s)
    /\ Doomed(s)
    /\ Frozen(s)
    /\ AwaitedFrozen(s)
    /\ Awaits(s)

AtRest(s) ==
    /\ Q(s) # {} => s.queued_transaction.num_waiting > 0
    /\ P(s) # {} => Q(s) # {}

Shown(s, S) ==
    \A v \in S : /\ s.container[v] \in Containers
                 /\ s.life[s.container[v]] = "live"
                 /\ s.view[s.container[v]] = v

(***************************************************************************)
(* What the functions of transaction.c may do to the tree: free nodes that *)
(* are being destroyed.                                                    *)
(***************************************************************************)
Frees(s, r) ==
    /\ r.view = s.view
    /\ r.mapped = s.mapped
    /\ r.pending = s.pending
    /\ \A n \in Nodes : r.life[n] \in {s.life[n]} \cup
                            (IF s.life[n] = "destroying" THEN {"freed"} ELSE {})
    /\ \A v \in Views : s.container[v] \in Containers
                          /\ s.life[s.container[v]] = "live"
                            => r.container[v] = s.container[v]

LEMMA FreesTrans ==
    ASSUME NEW a \in Servers, NEW b \in Servers, NEW c \in Servers,
           Frees(a, b), Frees(b, c)
    PROVE  Frees(a, c)
BY DEF Frees, Servers, Nodes

LEMMA FreesShown ==
    ASSUME NEW a \in Servers, NEW b \in Servers, Frees(a, b),
           NEW S \in SUBSET Views, Shown(a, S)
    PROVE  Shown(b, S)
BY DEF Frees, Shown, Servers, Nodes

-----------------------------------------------------------------------------
(* Marking nodes dirty. *)

LEMMA NodeSetDirtyEffect ==
    ASSUME NEW s \in Servers, NEW n \in Nodes
    PROVE  LET r == NodeSetDirty(s, n)
           IN  /\ r \in Servers
               /\ Dirty(r) = Dirty(s) \cup (IF s.life[n] = "destroying" THEN {} ELSE {n})
               /\ r = [s EXCEPT !.dirty_nodes = r.dirty_nodes]
<1> DEFINE d == Append(s.dirty_nodes, n)
           r == [s EXCEPT !.dirty_nodes = d]
<1>1. s.dirty_nodes \in Seq(Nodes)
  BY DEF Servers
<1>2. Range(d) = Range(s.dirty_nodes) \cup {n}
  <2>1. /\ Len(d) = Len(s.dirty_nodes) + 1
        /\ \A i \in 1 .. Len(s.dirty_nodes) : d[i] = s.dirty_nodes[i]
        /\ d[Len(s.dirty_nodes) + 1] = n
        /\ Len(s.dirty_nodes) \in Nat
    BY <1>1
  <2>2. DOMAIN d = 1 .. Len(s.dirty_nodes) + 1 /\ DOMAIN s.dirty_nodes = 1 .. Len(s.dirty_nodes)
    BY <1>1, <2>1
  <2> HIDE DEF d
  <2>3. \A i \in 1 .. Len(s.dirty_nodes) + 1 :
            i \in 1 .. Len(s.dirty_nodes) \/ i = Len(s.dirty_nodes) + 1
    BY <2>1
  <2>4. \A i \in 1 .. Len(s.dirty_nodes) : i \in 1 .. Len(s.dirty_nodes) + 1
    BY <2>1
  <2>5. Len(s.dirty_nodes) + 1 \in 1 .. Len(s.dirty_nodes) + 1
    BY <2>1
  <2> QED
    BY <2>1, <2>2, <2>3, <2>4, <2>5 DEF Range
<1>3. r.dirty_nodes = d
  BY DEF Servers
<1>4. CASE n \in Dirty(s) \/ Destroying(s, n)
  <2>1. NodeSetDirty(s, n) = s
    BY <1>4 DEF NodeSetDirty
  <2>2. s = [s EXCEPT !.dirty_nodes = s.dirty_nodes]
    BY DEF Servers
  <2> QED
    BY <1>4, <2>1, <2>2 DEF Destroying
<1>5. CASE ~(n \in Dirty(s) \/ Destroying(s, n))
  <2>1. NodeSetDirty(s, n) = r
    BY <1>5 DEF NodeSetDirty
  <2>2. Dirty(r) = Dirty(s) \cup {n}
    BY <1>2, <1>3 DEF Dirty
  <2> QED
    BY <1>3, <1>5, <2>1, <2>2, NodeSetDirtyType DEF Destroying
<1> QED
  BY <1>4, <1>5

LEMMA NodeSetDirtyConsistent ==
    ASSUME NEW s, Consistent(s), NEW n \in Nodes, s.life[n] \in {"live", "destroying"}
    PROVE  Consistent(NodeSetDirty(s, n))
<1> DEFINE r == NodeSetDirty(s, n)
<1>0. s \in Servers
  BY DEF Consistent
<1>1. /\ r \in Servers
      /\ Dirty(s) \subseteq Dirty(r)
      /\ Dirty(r) \subseteq Dirty(s) \cup {n}
      /\ r = [s EXCEPT !.dirty_nodes = r.dirty_nodes]
  BY <1>0, NodeSetDirtyEffect
<1> HIDE DEF r
<1>2. /\ r.queued_transaction = s.queued_transaction
      /\ r.pending_transaction = s.pending_transaction
      /\ r.life = s.life /\ r.ntxnrefs = s.ntxnrefs /\ r.instruction = s.instruction
      /\ r.view = s.view /\ r.saved = s.saved
  BY <1>0, <1>1 DEF Servers
<1> QED
  BY <1>1, <1>2 DEF Consistent, Counted, Reachable, Instructed, Viewed, Doomed,
     Frozen, AwaitedFrozen, Awaits, Silent, Q, P, ViewsOf, r

LEMMA ModifyConsistent ==
    ASSUME NEW s, Consistent(s), NEW n \in Nodes, NEW b \in NodeState,
           s.life[n] = "live"
    PROVE  /\ Consistent(Modify(s, n, b))
           /\ n \in Dirty(Modify(s, n, b))
<1> DEFINE m == [s EXCEPT !.pending[n] = IF IsView(n) THEN b ELSE @]
<1>1. s \in Servers /\ m \in Servers
  BY DEF Consistent, Servers
<1>2. /\ m.queued_transaction = s.queued_transaction
      /\ m.pending_transaction = s.pending_transaction
      /\ m.life = s.life /\ m.ntxnrefs = s.ntxnrefs /\ m.instruction = s.instruction
      /\ m.view = s.view /\ m.saved = s.saved /\ m.dirty_nodes = s.dirty_nodes
  BY <1>1 DEF Servers
<1>3. Modify(s, n, b) = NodeSetDirty(m, n)
  BY DEF Modify
<1> HIDE DEF m
<1>4. Consistent(m)
  BY <1>1, <1>2 DEF Consistent, Counted, Reachable, Instructed, Viewed, Doomed,
     Frozen, AwaitedFrozen, Awaits, Silent, Q, P, ViewsOf, Dirty
<1>5. m.life[n] = "live"
  BY <1>2
<1> QED
  BY <1>1, <1>3, <1>4, <1>5, NodeSetDirtyConsistent, NodeSetDirtyEffect

(***************************************************************************)
(* A node is marked dirty, then destroying: it is sure to be committed.    *)
(***************************************************************************)
LEMMA BeginDestroyConsistent ==
    ASSUME NEW s, Consistent(s), NEW n \in Nodes, s.life[n] = "live"
    PROVE  Consistent([NodeSetDirty(s, n) EXCEPT !.life[n] = "destroying"])
<1> DEFINE d == NodeSetDirty(s, n)
           r == [d EXCEPT !.life[n] = "destroying"]
<1>1. Consistent(d) /\ n \in Dirty(d) /\ d \in Servers
  BY NodeSetDirtyConsistent, NodeSetDirtyEffect DEF Consistent
<1>2. d.life = s.life
  BY DEF NodeSetDirty, Consistent, Servers
<1> HIDE DEF d
<1>3. r \in Servers
  BY <1>1 DEF Servers, NodeLife
<1>4. /\ r.queued_transaction = d.queued_transaction
      /\ r.pending_transaction = d.pending_transaction
      /\ r.ntxnrefs = d.ntxnrefs /\ r.instruction = d.instruction
      /\ r.view = d.view /\ r.saved = d.saved /\ r.dirty_nodes = d.dirty_nodes
      /\ \A m \in Nodes : r.life[m] = IF m = n THEN "destroying" ELSE d.life[m]
  BY <1>1 DEF Servers
<1> HIDE DEF r
<1>5. /\ Q(r) = Q(d) /\ P(r) = P(d) /\ Dirty(r) = Dirty(d) /\ Silent(r) = Silent(d)
      /\ ViewsOf(r, Q(r)) = ViewsOf(d, Q(d)) /\ ViewsOf(r, P(r)) = ViewsOf(d, P(d))
  BY <1>4 DEF Q, P, Dirty, Silent, ViewsOf
<1>6. Dirty(d) \cup Q(d) \cup P(d) \subseteq Nodes
  BY <1>1 DEF Q, P, NodesOf, Dirty, Range, Servers
<1>7. Counted(r) /\ Instructed(r) /\ Frozen(r) /\ AwaitedFrozen(r) /\ Awaits(r)
  BY <1>1, <1>4, <1>5 DEF Consistent, Counted, Instructed, Frozen, AwaitedFrozen, Awaits
<1>8. Reachable(r) /\ Doomed(r)
  BY <1>1, <1>4, <1>5, <1>6 DEF Consistent, Reachable, Doomed
<1>9. Viewed(r)
  BY <1>1, <1>2, <1>4 DEF Consistent, Viewed, Nodes
<1> QED
  BY <1>3, <1>7, <1>8, <1>9 DEF Consistent, r, d

-----------------------------------------------------------------------------
(***************************************************************************)
(* transaction_commit, of the pending transaction when none is queued.     *)
(***************************************************************************)
Committed(s, timer) ==
    Commit([s EXCEPT !.pending_transaction = NoTxn], s.pending_transaction, timer)

(* The views on screen whose containers the pending transaction holds. *)
Exposed(s) == ViewsOf(s, {n \in P(s) : ~Hidden(s, n)})

(* A transaction keeps its states and their order when it is committed,    *)
(* and awaits only views on screen.                                        *)
Sends(s, r) ==
    \A n \in P(s) :
        LET t == s.pending_transaction
            q == r.queued_transaction
        IN  /\ q.instructions[n].state = t.instructions[n].state
            /\ q.instructions[n].index = t.instructions[n].index
            /\ q.instructions[n].waiting => n \in Containers /\ ~Hidden(s, n)

LEMMA CommitType ==
    ASSUME NEW s, Consistent(s), Q(s) = {}, NEW timer \in BOOLEAN
    PROVE  LET r == Committed(s, timer)
               q == r.queued_transaction
           IN  /\ r \in Servers
               /\ r.pending_transaction = NoTxn
               /\ r.dirty_nodes = s.dirty_nodes /\ r.life = s.life
               /\ r.ntxnrefs = s.ntxnrefs /\ r.pending = s.pending
               /\ r.current = s.current /\ r.view = s.view
               /\ r.container = s.container /\ r.mapped = s.mapped
               /\ r.vlife = s.vlife
               /\ r.instruction = s.instruction \cup P(s)
               /\ r.saved = s.saved \cup Exposed(s)
               /\ r.blank = s.blank \cup ((Exposed(s) \ s.saved) \ s.mapped)
               /\ Q(r) = P(s)
               /\ Sends(s, r)
               /\ q.num_waiting =
                      IF timer THEN Cardinality({n \in P(s) : q.instructions[n].waiting}) ELSE 0
<1> DEFINE t == s.pending_transaction
           s0 == [s EXCEPT !.pending_transaction = NoTxn]
           configured == {n \in P(s) : ShouldConfigure(s0, t, n)}
           awaited == {n \in P(s) : ShouldConfigure(s0, t, n) /\ ~Hidden(s0, n)}
           Box(v) == t.instructions[CHOOSE n \in configured : s0.view[n] = v].state
           frozen == ViewsOf(s0, {n \in P(s) : ~Hidden(s0, n)}) \ s0.saved
           Sent(n) == [t.instructions[n] EXCEPT
                          !.serial = IF n \in configured
                                     THEN ConfigureSerial(s0, s0.view[n]) ELSE 0,
                          !.waiting = n \in awaited]
           q == [instructions |-> [n \in Nodes |-> IF n \in P(s) THEN Sent(n) ELSE NULL],
                 num_waiting |-> IF timer THEN Cardinality(awaited) ELSE 0]
           configures == [v \in Views |->
               IF v \in ViewsOf(s0, configured) /\ IsEvent(s0, v, Box(v))
               THEN s0.configures[v] + 1 ELSE s0.configures[v]]
           boxes == [v \in Views |->
               IF v \in ViewsOf(s0, configured) THEN Box(v) ELSE s0.configured[v]]
           r == [s0 EXCEPT !.queued_transaction = q,
                           !.configures = configures,
                           !.configured = boxes,
                           !.saved = @ \cup frozen,
                           !.blank = @ \cup (frozen \ s0.mapped),
                           !.instruction = @ \cup P(s)]
<1>1. /\ s \in Servers /\ s0 \in Servers /\ t \in Transactions
      /\ s0.view = s.view /\ s0.saved = s.saved /\ s0.instruction = s.instruction
      /\ s0.mapped = s.mapped /\ s0.visible = s.visible /\ s0.life = s.life
      /\ s0.configures = s.configures /\ s0.configured = s.configured
      /\ s0.blank = s.blank
      /\ s0.pending_transaction = NoTxn
  BY NoTxnType DEF Consistent, Servers
<1>2. P(s) \subseteq Nodes /\ \A n \in P(s) : t.instructions[n] \in Instruction
  BY <1>1 DEF P, NodesOf, Transactions
<1>3. \A n \in P(s) \cap Containers : s.view[n] \in Views
  BY <1>2 DEF Consistent, Reachable, Viewed
<1>4. configured \subseteq P(s) \cap Containers /\ awaited \subseteq configured
  BY DEF ShouldConfigure, IsView
<1>5. Committed(s, timer) = r
  BY DEF Committed, Commit, Awaited, P
<1> HIDE DEF s0, configured, awaited
<1>6. \A n \in P(s) : /\ Sent(n) \in Instruction
                      /\ Sent(n).state = t.instructions[n].state
                      /\ Sent(n).index = t.instructions[n].index
                      /\ Sent(n).waiting = (n \in awaited)
  <2> TAKE n \in P(s)
  <2>1. (IF n \in configured THEN ConfigureSerial(s0, s0.view[n]) ELSE 0) \in Nat
    BY <1>1, <1>3, <1>4 DEF ConfigureSerial, Servers
  <2>2. (n \in awaited) \in BOOLEAN
    OBVIOUS
  <2> QED
    BY <1>2, <2>1, <2>2 DEF Instruction
<1>7. \A v \in ViewsOf(s0, configured) : Box(v) \in NodeState
  <2> TAKE v \in ViewsOf(s0, configured)
  <2>1. \E n \in configured : s0.view[n] = v
    BY DEF ViewsOf
  <2>2. (CHOOSE n \in configured : s0.view[n] = v) \in configured
    BY <2>1
  <2> QED
    BY <1>2, <1>4, <2>2 DEF Instruction
<1>8. frozen \subseteq Views
  BY <1>1, <1>2, <1>3 DEF ViewsOf
<1>9. Cardinality(awaited) \in Nat
  BY <1>2, <1>4, SubsetCardinality
<1> HIDE DEF Sent, Box, frozen
<1>10. q \in Transactions
  BY <1>2, <1>6, <1>9 DEF Transactions
<1>11. configures \in [Views -> Nat]
  BY <1>1 DEF Servers
<1>12. boxes \in [Views -> NodeState]
  BY <1>1, <1>7 DEF Servers
<1>13. \A n \in Nodes : q.instructions[n] = IF n \in P(s) THEN Sent(n) ELSE NULL
  OBVIOUS
<1>14. q.num_waiting = IF timer THEN Cardinality(awaited) ELSE 0
  OBVIOUS
<1> HIDE DEF q, configures, boxes
<1>15. r \in Servers
  BY <1>1, <1>2, <1>8, <1>10, <1>11, <1>12 DEF Servers
<1>16. /\ r.queued_transaction = q /\ r.pending_transaction = NoTxn
       /\ r.configures = configures /\ r.configured = boxes
       /\ r.saved = s.saved \cup frozen
       /\ r.blank = s.blank \cup (frozen \ s.mapped)
       /\ r.instruction = s.instruction \cup P(s)
  BY <1>1 DEF Servers
<1>17. /\ r.dirty_nodes = s.dirty_nodes /\ r.life = s.life
       /\ r.ntxnrefs = s.ntxnrefs /\ r.pending = s.pending
       /\ r.current = s.current /\ r.view = s.view
       /\ r.container = s.container /\ r.mapped = s.mapped /\ r.vlife = s.vlife
  BY <1>1 DEF Servers, s0
<1> HIDE DEF r
<1>a. frozen = Exposed(s) \ s.saved
  BY <1>1 DEF frozen, Exposed, ViewsOf, Hidden, Destroying
<1>18. /\ r.saved = s.saved \cup Exposed(s)
       /\ r.blank = s.blank \cup ((Exposed(s) \ s.saved) \ s.mapped)
  BY <1>16, <1>a
<1>19. Q(r) = P(s)
  BY <1>2, <1>6, <1>13, <1>16, InstructionNotNull DEF Q, NodesOf
<1>20. \A n \in P(s) : /\ q.instructions[n].state = t.instructions[n].state
                       /\ q.instructions[n].index = t.instructions[n].index
                       /\ q.instructions[n].waiting = (n \in awaited)
  BY <1>2, <1>6, <1>13
<1>21. {n \in P(s) : q.instructions[n].waiting} = awaited
  BY <1>4, <1>20
<1>22. \A n \in awaited : n \in Containers /\ ~Hidden(s, n)
  BY <1>1, <1>4 DEF awaited, Hidden, Destroying
<1>23. Sends(s, r)
  BY <1>16, <1>20, <1>21, <1>22 DEF Sends
<1> QED
  BY <1>5, <1>14, <1>15, <1>16, <1>17, <1>18, <1>19, <1>21, <1>23

LEMMA CommitConsistent ==
    ASSUME NEW s, Consistent(s), Q(s) = {}, NEW timer \in BOOLEAN
    PROVE  LET r == Committed(s, timer)
           IN  /\ Consistent(r)
               /\ Frees(s, r)
               /\ Dirty(r) = Dirty(s) /\ Q(r) = P(s) /\ P(r) = {}
               /\ r.current = s.current
<1> DEFINE r == Committed(s, timer)
<1>1. /\ s \in Servers /\ r \in Servers
      /\ r.pending_transaction = NoTxn
      /\ r.saved = s.saved \cup Exposed(s)
      /\ r.instruction = s.instruction \cup P(s)
      /\ Q(r) = P(s)
  BY CommitType DEF Consistent
<1>2. /\ r.dirty_nodes = s.dirty_nodes /\ r.life = s.life /\ r.ntxnrefs = s.ntxnrefs
      /\ r.pending = s.pending /\ r.current = s.current /\ r.view = s.view
      /\ r.container = s.container /\ r.mapped = s.mapped
  BY CommitType
<1>a. \A n \in P(s) : r.queued_transaction.instructions[n].waiting =>
                           n \in Containers /\ ~Hidden(s, n)
  BY CommitType DEF Sends
<1>b. r.queued_transaction.num_waiting =
          IF timer
          THEN Cardinality({n \in P(s) : r.queued_transaction.instructions[n].waiting})
          ELSE 0
  BY CommitType
<1> HIDE DEF r
<1>3. Dirty(r) = Dirty(s) /\ P(r) = {}
  BY <1>1, <1>2, NoTxnType DEF Dirty, P
<1>4. s.instruction = {}
  BY DEF Consistent, Instructed
<1>5. Counted(r)
  BY <1>1, <1>2, <1>3 DEF Consistent, Counted
<1>6. Reachable(r) /\ Instructed(r) /\ Viewed(r) /\ Doomed(r)
  BY <1>1, <1>2, <1>3, <1>4 DEF Consistent, Reachable, Instructed, Viewed, Doomed
<1>7. Frozen(r)
  BY <1>1, <1>2, <1>3 DEF Consistent, Frozen, Exposed, ViewsOf
<1>8. AwaitedFrozen(r)
  BY <1>1, <1>2, <1>a DEF AwaitedFrozen, Exposed, ViewsOf
<1>9. Silent(r) = {n \in P(s) : r.queued_transaction.instructions[n].waiting}
  BY <1>1 DEF Silent
<1>10. Awaits(r)
  BY <1>b, <1>9 DEF Awaits
<1>11. Frees(s, r)
  BY <1>1, <1>2 DEF Frees
<1> QED
  BY <1>1, <1>2, <1>3, <1>5, <1>6, <1>7, <1>8, <1>10, <1>11 DEF Consistent, r

-----------------------------------------------------------------------------
(***************************************************************************)
(* transaction_apply followed by transaction_destroy.                      *)
(***************************************************************************)
LEMMA FinishEffect ==
    ASSUME NEW s, Consistent(s)
    PROVE  LET r == Destroy(Apply(s))
               released == {n \in Q(s) : /\ s.life[n] = "destroying"
                                         /\ s.ntxnrefs[n] = 1
                                         /\ n \notin Dirty(s)}
               thawed == {n \in Q(s) : s.life[n] # "destroying" \/ s.ntxnrefs[n] = 1}
           IN  /\ r \in Servers
               /\ r.dirty_nodes = s.dirty_nodes /\ r.pending = s.pending
               /\ r.view = s.view /\ r.mapped = s.mapped
               /\ r.pending_transaction = s.pending_transaction
               /\ r.queued_transaction = NoTxn
               /\ r.instruction = s.instruction \ Q(s)
               /\ r.saved = s.saved \ ViewsOf(s, thawed)
               /\ r.blank = s.blank \ ViewsOf(s, thawed)
               /\ r.current = Overwrite(s.current, s.queued_transaction)
               /\ \A n \in Nodes : r.ntxnrefs[n] = IF n \in Q(s) THEN s.ntxnrefs[n] - 1
                                                   ELSE s.ntxnrefs[n]
               /\ \A n \in Nodes : r.life[n] = IF n \in released THEN "freed" ELSE s.life[n]
               /\ \A v \in Views : r.container[v] = IF s.container[v] \in released THEN NULL
                                                    ELSE s.container[v]
               /\ \A v \in Views : r.vlife[v] =
                      IF s.container[v] \in released /\ s.vlife[v] = "destroying"
                      THEN "freed" ELSE s.vlife[v]
<1> DEFINE t == s.queued_transaction
           thawed == {n \in Q(s) : s.life[n] # "destroying" \/ s.ntxnrefs[n] = 1}
           released == {n \in Q(s) : /\ s.life[n] = "destroying"
                                     /\ s.ntxnrefs[n] = 1
                                     /\ n \notin Dirty(s)}
           shown == [n \in Nodes |-> IF n \in Q(s) THEN t.instructions[n].state
                                     ELSE s.current[n]]
           a == [s EXCEPT !.current = shown,
                          !.saved = @ \ ViewsOf(s, thawed),
                          !.blank = @ \ ViewsOf(s, thawed),
                          !.instruction = @ \ Q(s)]
           refs == [n \in Nodes |-> IF n \in Q(s) THEN a.ntxnrefs[n] - 1 ELSE a.ntxnrefs[n]]
           life == [n \in Nodes |-> IF n \in released THEN "freed" ELSE a.life[n]]
           lost == {v \in Views : a.container[v] \in released}
           container == [v \in Views |-> IF v \in lost THEN NULL ELSE a.container[v]]
           vlife == [v \in Views |-> IF v \in lost /\ a.vlife[v] = "destroying"
                                     THEN "freed" ELSE a.vlife[v]]
           r == [a EXCEPT !.ntxnrefs = refs, !.life = life, !.container = container,
                          !.vlife = vlife, !.queued_transaction = NoTxn]
<1>1. s \in Servers /\ t \in Transactions
  BY DEF Consistent, Servers
<1>2. Q(s) \subseteq Nodes /\ \A n \in Q(s) : t.instructions[n] \in Instruction
  BY <1>1 DEF Q, NodesOf, Transactions
<1>3. Apply(s) = a
  <2>1. Thawed(s) = thawed
    BY DEF Thawed, Q, Destroying
  <2> QED
    BY <1>1, <2>1 DEF Apply, Q, Servers
<1>4. shown \in [Nodes -> NodeState]
  BY <1>1, <1>2 DEF Instruction, Servers
<1>5. shown = Overwrite(s.current, s.queued_transaction)
  BY DEF Overwrite, Q
<1> HIDE DEF shown, thawed
<1>6. /\ a \in Servers
      /\ a.queued_transaction = t /\ a.pending_transaction = s.pending_transaction
      /\ a.dirty_nodes = s.dirty_nodes /\ a.life = s.life /\ a.ntxnrefs = s.ntxnrefs
      /\ a.view = s.view /\ a.mapped = s.mapped /\ a.pending = s.pending
      /\ a.container = s.container /\ a.current = shown
      /\ a.saved = s.saved \ ViewsOf(s, thawed) /\ a.instruction = s.instruction \ Q(s)
      /\ a.blank = s.blank \ ViewsOf(s, thawed) /\ a.vlife = s.vlife
  BY <1>1, <1>4 DEF Servers
<1> HIDE DEF a
<1>7. Released(a) = released
  BY <1>6 DEF Released, Destroying, Dirty, Q
<1> HIDE DEF released
<1>8. Destroy(a) = r
  BY <1>6, <1>7 DEF Destroy, Q
<1>9. \A n \in Q(s) : s.ntxnrefs[n] - 1 \in Nat
  <2>1. \A n \in Q(s) : s.ntxnrefs[n] = 1 + (IF n \in P(s) THEN 1 ELSE 0)
    BY <1>2 DEF Consistent, Counted
  <2> QED
    BY <2>1
<1>10. refs \in [Nodes -> Nat]
  BY <1>6, <1>9 DEF Servers
<1>11. life \in [Nodes -> NodeLife]
  BY <1>6 DEF Servers, NodeLife
<1>12. container \in [Views -> Containers \cup {NULL}]
  BY <1>6 DEF Servers
<1>13. vlife \in [Views -> ViewLife]
  BY <1>6 DEF Servers, ViewLife
<1>14. /\ \A n \in Nodes : refs[n] = IF n \in Q(s) THEN s.ntxnrefs[n] - 1 ELSE s.ntxnrefs[n]
       /\ \A n \in Nodes : life[n] = IF n \in released THEN "freed" ELSE s.life[n]
       /\ \A v \in Views : container[v] = IF s.container[v] \in released THEN NULL
                                          ELSE s.container[v]
       /\ \A v \in Views : vlife[v] =
              IF s.container[v] \in released /\ s.vlife[v] = "destroying"
              THEN "freed" ELSE s.vlife[v]
  BY <1>6
<1> HIDE DEF refs, life, lost, container, vlife
<1>15. r \in Servers
  BY <1>6, <1>10, <1>11, <1>12, <1>13, NoTxnType DEF Servers
<1>16. /\ r.dirty_nodes = a.dirty_nodes /\ r.pending = a.pending
       /\ r.view = a.view /\ r.mapped = a.mapped
       /\ r.pending_transaction = a.pending_transaction
       /\ r.queued_transaction = NoTxn
       /\ r.instruction = a.instruction /\ r.saved = a.saved /\ r.current = a.current
       /\ r.ntxnrefs = refs /\ r.life = life /\ r.container = container
       /\ r.vlife = vlife /\ r.blank = a.blank
  BY <1>6 DEF Servers
<1> HIDE DEF r
<1> QED
  BY <1>3, <1>5, <1>6, <1>8, <1>14, <1>15, <1>16 DEF released, thawed

LEMMA FinishConsistent ==
    ASSUME NEW s, Consistent(s)
    PROVE  LET r == Destroy(Apply(s))
           IN  /\ Consistent(r)
               /\ Frees(s, r)
               /\ Dirty(r) = Dirty(s) /\ Q(r) = {} /\ P(r) = P(s)
<1> DEFINE r == Destroy(Apply(s))
           released == {n \in Q(s) : /\ s.life[n] = "destroying"
                                     /\ s.ntxnrefs[n] = 1
                                     /\ n \notin Dirty(s)}
           thawed == {n \in Q(s) : s.life[n] # "destroying" \/ s.ntxnrefs[n] = 1}
<1>1. /\ r \in Servers
      /\ r.dirty_nodes = s.dirty_nodes /\ r.pending = s.pending
      /\ r.view = s.view /\ r.mapped = s.mapped
      /\ r.pending_transaction = s.pending_transaction
      /\ r.queued_transaction = NoTxn
      /\ r.instruction = s.instruction \ Q(s)
      /\ r.saved = s.saved \ ViewsOf(s, thawed)
  BY FinishEffect
<1>2. /\ \A n \in Nodes : r.ntxnrefs[n] = IF n \in Q(s) THEN s.ntxnrefs[n] - 1
                                          ELSE s.ntxnrefs[n]
      /\ \A n \in Nodes : r.life[n] = IF n \in released THEN "freed" ELSE s.life[n]
      /\ \A v \in Views : r.container[v] = IF s.container[v] \in released THEN NULL
                                           ELSE s.container[v]
  BY FinishEffect
<1> HIDE DEF r
<1>3. /\ Dirty(r) = Dirty(s) /\ Q(r) = {} /\ P(r) = P(s)
  BY <1>1, NoTxnType DEF Dirty, Q, P
<1>4. Q(s) \subseteq Nodes /\ P(s) \subseteq Nodes /\ Dirty(s) \subseteq Nodes
  BY DEF Q, P, NodesOf, Dirty, Range, Consistent, Servers
<1>5. \A n \in Nodes : s.ntxnrefs[n] = (IF n \in Q(s) THEN 1 ELSE 0)
                                         + (IF n \in P(s) THEN 1 ELSE 0)
  BY DEF Consistent, Counted
<1>6. Counted(r)
  BY <1>2, <1>3, <1>5 DEF Counted
<1>7. Reachable(r)
  BY <1>2, <1>3, <1>4, <1>5 DEF Consistent, Reachable
<1>8. Instructed(r)
  BY <1>1 DEF Consistent, Instructed
<1>9. Viewed(r)
  BY <1>1, <1>2 DEF Consistent, Viewed, Nodes, Reachable
<1>10. Doomed(r)
  BY <1>2, <1>3, <1>5 DEF Consistent, Doomed
<1>11. Frozen(r)
  <2> SUFFICES ASSUME NEW v \in r.saved
               PROVE  v \in ViewsOf(r, P(r))
    BY <1>3 DEF Frozen
  <2>1. v \in ViewsOf(s, IF Q(s) = {} THEN P(s) ELSE Q(s)) /\ v \notin ViewsOf(s, thawed)
    BY <1>1 DEF Consistent, Frozen
  <2>2. CASE Q(s) = {}
    BY <1>1, <1>3, <2>1, <2>2 DEF ViewsOf
  <2>3. CASE Q(s) # {}
    <3>1. PICK c \in Q(s) \cap Containers : v = s.view[c]
      BY <2>1, <2>3 DEF ViewsOf
    <3>2. c \notin thawed
      BY <2>1, <3>1 DEF ViewsOf
    <3>3. c \in P(s)
      BY <1>4, <1>5, <3>1, <3>2
    <3> QED
      BY <1>1, <1>3, <3>1, <3>3 DEF ViewsOf
  <2> QED
    BY <2>2, <2>3
<1>12. AwaitedFrozen(r) /\ Awaits(r)
  BY <1>1, <1>3 DEF AwaitedFrozen, Awaits, NoTxn
<1>13. Frees(s, r)
  BY <1>1, <1>2 DEF Frees, Nodes
<1> QED
  BY <1>1, <1>3, <1>6, <1>7, <1>8, <1>9, <1>10, <1>11, <1>12, <1>13 DEF Consistent, r

-----------------------------------------------------------------------------
(***************************************************************************)
(* transaction_commit_pending, transaction_progress and                    *)
(* _transaction_commit_dirty leave the queue at rest.                      *)
(***************************************************************************)
LEMMA FreesRefl == ASSUME NEW s \in Servers PROVE Frees(s, s)
BY DEF Frees

LEMMA CommitPendingConsistent ==
    ASSUME NEW s, Consistent(s), NEW timer \in BOOLEAN,
           Q(s) # {} => s.queued_transaction.num_waiting > 0
    PROVE  LET r == CommitPending(s, timer)
           IN  Consistent(r) /\ AtRest(r) /\ Frees(s, r) /\ Dirty(r) = Dirty(s)
<1> DEFINE r == CommitPending(s, timer)
<1>1. CASE Q(s) # {}
  <2>1. r = s
    BY <1>1 DEF CommitPending, IsNull, Q
  <2> QED
    BY <1>1, <2>1, FreesRefl DEF AtRest, Consistent
<1>2. CASE Q(s) = {}
  <2> DEFINE c == Committed(s, timer)
  <2>1. r = IF c.queued_transaction.num_waiting > 0 THEN c ELSE Destroy(Apply(c))
    BY <1>2 DEF CommitPending, Committed, IsNull, Q
  <2>2. Consistent(c) /\ Frees(s, c) /\ Dirty(c) = Dirty(s) /\ P(c) = {}
    BY <1>2, CommitConsistent
  <2> HIDE DEF c
  <2>3. CASE c.queued_transaction.num_waiting > 0
    BY <2>1, <2>2, <2>3 DEF AtRest
  <2>4. CASE ~(c.queued_transaction.num_waiting > 0)
    <3> DEFINE d == Destroy(Apply(c))
    <3>1. Consistent(d) /\ Frees(c, d) /\ Dirty(d) = Dirty(c) /\ Q(d) = {} /\ P(d) = {}
      BY <2>2, FinishConsistent
    <3>2. r = d
      BY <2>1, <2>4
    <3> HIDE DEF d
    <3>3. Frees(s, d)
      BY <2>2, <3>1, FreesTrans DEF Consistent
    <3> QED
      BY <2>2, <3>1, <3>2, <3>3 DEF AtRest
  <2> QED
    BY <2>3, <2>4
<1> QED
  BY <1>1, <1>2

LEMMA ProgressConsistent ==
    ASSUME NEW s, Consistent(s), NEW timer \in BOOLEAN, P(s) # {} => Q(s) # {}
    PROVE  LET r == Progress(s, timer)
           IN  Consistent(r) /\ AtRest(r) /\ Frees(s, r) /\ Dirty(r) = Dirty(s)
<1> DEFINE r == Progress(s, timer)
           d == Destroy(Apply(s))
<1>1. CASE Q(s) = {} \/ s.queued_transaction.num_waiting > 0
  <2>1. r = s
    BY <1>1 DEF Progress, IsNull, Q
  <2> QED
    BY <1>1, <2>1, FreesRefl DEF AtRest, Consistent
<1>2. CASE ~(Q(s) = {} \/ s.queued_transaction.num_waiting > 0)
  <2>1. r = IF P(d) = {} THEN d ELSE CommitPending(d, timer)
    BY <1>2 DEF Progress, IsNull, Q, P
  <2>2. Consistent(d) /\ Frees(s, d) /\ Dirty(d) = Dirty(s) /\ Q(d) = {}
    BY FinishConsistent
  <2> HIDE DEF d
  <2>3. CASE P(d) = {}
    BY <2>1, <2>2, <2>3 DEF AtRest
  <2>4. CASE P(d) # {}
    <3> DEFINE c == CommitPending(d, timer)
    <3>1. Consistent(c) /\ AtRest(c) /\ Frees(d, c) /\ Dirty(c) = Dirty(d)
      BY <2>2, CommitPendingConsistent
    <3>2. r = c
      BY <2>1, <2>4
    <3> HIDE DEF c
    <3>3. Frees(s, c)
      BY <2>2, <3>1, FreesTrans DEF Consistent
    <3> QED
      BY <2>2, <3>1, <3>2, <3>3
  <2> QED
    BY <2>3, <2>4
<1> QED
  BY <1>1, <1>2

(* The dirty nodes move into the pending transaction. *)
Enqueued(s, server_request) ==
    [s EXCEPT
       !.pending_transaction = AddNodes(s, @, server_request),
       !.ntxnrefs = [n \in Nodes |->
           IF n \in Dirty(s) \ NodesOf(s.pending_transaction) THEN @[n] + 1 ELSE @[n]],
       !.dirty_nodes = << >>]

LEMMA EnqueuedConsistent ==
    ASSUME NEW s, Consistent(s), NEW server_request \in BOOLEAN
    PROVE  LET r == Enqueued(s, server_request)
           IN  /\ Consistent(r)
               /\ Frees(s, r)
               /\ Dirty(r) = {}
               /\ P(r) = P(s) \cup Dirty(s)
               /\ r.queued_transaction = s.queued_transaction
               /\ r.pending_transaction = AddNodes(s, s.pending_transaction, server_request)
               /\ r.current = s.current
<1> DEFINE refs == [n \in Nodes |->
               IF n \in Dirty(s) \ P(s) THEN s.ntxnrefs[n] + 1 ELSE s.ntxnrefs[n]]
           t == AddNodes(s, s.pending_transaction, server_request)
           r == [s EXCEPT !.pending_transaction = t, !.ntxnrefs = refs,
                          !.dirty_nodes = << >>]
<1>1. s \in Servers /\ s.pending_transaction \in Transactions
  BY DEF Consistent, Servers
<1>2. Enqueued(s, server_request) = r
  BY DEF Enqueued, P
<1>3. t \in Transactions /\ NodesOf(t) = P(s) \cup Dirty(s)
  BY <1>1, AddNodesType DEF P
<1>4. refs \in [Nodes -> Nat]
  BY <1>1 DEF Servers
<1>5. \A n \in Nodes : refs[n] = IF n \in Dirty(s) \ P(s) THEN s.ntxnrefs[n] + 1
                                 ELSE s.ntxnrefs[n]
  OBVIOUS
<1> HIDE DEF refs, t
<1>6. << >> \in Seq(Nodes) /\ Range(<< >>) = {}
  BY DEF Range
<1>7. /\ r \in Servers /\ r.dirty_nodes = << >>
      /\ r.pending_transaction = t /\ r.ntxnrefs = refs
      /\ r.queued_transaction = s.queued_transaction
      /\ r.life = s.life /\ r.instruction = s.instruction /\ r.view = s.view
      /\ r.saved = s.saved /\ r.mapped = s.mapped /\ r.pending = s.pending
      /\ r.container = s.container /\ r.current = s.current
  BY <1>1, <1>3, <1>4, <1>6 DEF Servers
<1> HIDE DEF r
<1>8. Dirty(r) = {} /\ P(r) = P(s) \cup Dirty(s) /\ Q(r) = Q(s)
  BY <1>3, <1>6, <1>7 DEF Dirty, P, Q
<1>9. Counted(r)
  <2> SUFFICES ASSUME NEW n \in Nodes
               PROVE  r.ntxnrefs[n] = (IF n \in Q(r) THEN 1 ELSE 0)
                                        + (IF n \in P(r) THEN 1 ELSE 0)
    BY DEF Counted
  <2>1. s.ntxnrefs[n] = (IF n \in Q(s) THEN 1 ELSE 0) + (IF n \in P(s) THEN 1 ELSE 0)
    BY DEF Consistent, Counted
  <2> QED
    BY <1>5, <1>7, <1>8, <2>1
<1>10. Reachable(r) /\ Instructed(r) /\ Viewed(r) /\ Doomed(r)
  BY <1>7, <1>8 DEF Consistent, Reachable, Instructed, Viewed, Doomed
<1>11. Frozen(r)
  BY <1>7, <1>8 DEF Consistent, Frozen, ViewsOf
<1>12. AwaitedFrozen(r) /\ Awaits(r)
  BY <1>7, <1>8 DEF Consistent, AwaitedFrozen, Awaits, Silent
<1>13. Frees(s, r)
  BY <1>7 DEF Frees
<1> QED
  BY <1>2, <1>7, <1>8, <1>9, <1>10, <1>11, <1>12, <1>13 DEF Consistent, t

LEMMA CommitDirtyConsistent ==
    ASSUME NEW s, Consistent(s), AtRest(s),
           NEW server_request \in BOOLEAN, NEW timer \in BOOLEAN
    PROVE  LET r == CommitDirty(s, server_request, timer)
           IN  Consistent(r) /\ AtRest(r) /\ Frees(s, r) /\ Dirty(r) = {}
<1> DEFINE r == CommitDirty(s, server_request, timer)
           e == Enqueued(s, server_request)
<1>1. CASE s.dirty_nodes = << >>
  BY <1>1, FreesRefl DEF CommitDirty, Consistent, Dirty, Range
<1>2. CASE s.dirty_nodes # << >>
  <2>1. r = CommitPending(e, timer)
    BY <1>2 DEF CommitDirty, Enqueued
  <2>2. /\ Consistent(e) /\ Frees(s, e) /\ Dirty(e) = {}
        /\ e.queued_transaction = s.queued_transaction
    BY EnqueuedConsistent
  <2>3. Q(e) # {} => e.queued_transaction.num_waiting > 0
    BY <2>2 DEF AtRest, Q
  <2> HIDE DEF e
  <2>4. /\ Consistent(r) /\ AtRest(r) /\ Frees(e, r) /\ Dirty(r) = Dirty(e)
    BY <2>1, <2>2, <2>3, CommitPendingConsistent
  <2> HIDE DEF r
  <2>5. Frees(s, r)
    BY <2>2, <2>4, FreesTrans DEF Consistent
  <2> QED
    BY <2>2, <2>4, <2>5 DEF r
<1> QED
  BY <1>1, <1>2

(***************************************************************************)
(* set_instruction_ready counts an answer once.                            *)
(***************************************************************************)
LEMMA SetInstructionReadyCounts ==
    ASSUME NEW s, Consistent(s), AtRest(s), NEW n \in s.instruction
    PROVE  LET q == s.queued_transaction
               i == [s EXCEPT
                       !.queued_transaction.num_waiting =
                           IF q.instructions[n].waiting /\ q.num_waiting > 0
                           THEN q.num_waiting - 1 ELSE q.num_waiting,
                       !.instruction = @ \ {n}]
           IN  /\ Consistent(i) /\ Frees(s, i) /\ Dirty(i) = Dirty(s)
               /\ P(i) # {} => Q(i) # {}
<1> DEFINE q == s.queued_transaction
           waiting == q.instructions[n].waiting
           num_waiting == IF waiting /\ q.num_waiting > 0 THEN q.num_waiting - 1
                          ELSE q.num_waiting
           i == [s EXCEPT !.queued_transaction.num_waiting = num_waiting,
                          !.instruction = @ \ {n}]
<1>1. s \in Servers /\ q \in Transactions /\ q.num_waiting \in Nat
  BY DEF Consistent, Servers, Transactions
<1>2. n \in Q(s) /\ Q(s) \subseteq Nodes
  BY DEF Consistent, Instructed, Q, NodesOf
<1>4. num_waiting \in Nat
  BY <1>1
<1> DEFINE k == num_waiting
<1>5. k = num_waiting
  OBVIOUS
<1> HIDE DEF k
<1>6. i.queued_transaction = [q EXCEPT !.num_waiting = k]
  BY <1>1, <1>5 DEF Servers
<1>7. /\ i.queued_transaction \in Transactions
      /\ i.queued_transaction.num_waiting = k
      /\ i.queued_transaction.instructions = q.instructions
  BY <1>1, <1>4, <1>5, <1>6 DEF Transactions
<1>8. /\ i.pending_transaction = s.pending_transaction
      /\ i.life = s.life /\ i.ntxnrefs = s.ntxnrefs /\ i.view = s.view
      /\ i.saved = s.saved /\ i.mapped = s.mapped /\ i.pending = s.pending
      /\ i.container = s.container /\ i.dirty_nodes = s.dirty_nodes
      /\ i.instruction = s.instruction \ {n}
  BY <1>1 DEF Servers
<1>9. i \in Servers
  BY <1>1, <1>5, <1>6, <1>7 DEF Servers
<1> HIDE DEF i
<1>10. Q(i) = Q(s) /\ P(i) = P(s) /\ Dirty(i) = Dirty(s)
  BY <1>7, <1>8 DEF Q, P, NodesOf, Dirty
<1>11. Silent(i) = Silent(s) \ {n}
  BY <1>7, <1>8, <1>10 DEF Silent
<1>12. waiting => n \in Silent(s)
  BY <1>2 DEF Silent
<1>13. q.num_waiting > 0 /\ q.num_waiting = Cardinality(Silent(s))
  BY <1>1, <1>2 DEF AtRest, Consistent, Awaits
<1>14. IsFiniteSet(Silent(s))
  BY <1>2, SubsetCardinality DEF Silent
<1>15. k = Cardinality(Silent(i))
  <2>1. CASE waiting
    <3>1. Cardinality(Silent(i)) = Cardinality(Silent(s)) - 1
      BY <1>11, <1>12, <1>14, <2>1, FS_RemoveElement
    <3> QED
      BY <1>5, <1>13, <2>1, <3>1
  <2>2. CASE ~waiting
    <3>1. Silent(i) = Silent(s)
      BY <1>11, <2>2 DEF Silent
    <3> QED
      BY <1>5, <1>13, <2>2, <3>1
  <2> QED
    BY <2>1, <2>2
<1>16. Awaits(i)
  BY <1>7, <1>15 DEF Awaits
<1>17. Consistent(i)
  BY <1>7, <1>8, <1>9, <1>10, <1>16 DEF Consistent, Counted, Reachable, Instructed,
     Viewed, Doomed, Frozen, AwaitedFrozen, ViewsOf
<1>18. Frees(s, i)
  BY <1>8 DEF Frees
<1>19. P(i) # {} => Q(i) # {}
  BY <1>2, <1>10
<1> QED
  BY <1>10, <1>17, <1>18, <1>19 DEF i

LEMMA SetInstructionReadyConsistent ==
    ASSUME NEW s, Consistent(s), AtRest(s), NEW n \in s.instruction, NEW timer \in BOOLEAN
    PROVE  LET r == SetInstructionReady(s, n, timer)
           IN  Consistent(r) /\ AtRest(r) /\ Frees(s, r) /\ Dirty(r) = Dirty(s)
<1> DEFINE q == s.queued_transaction
           i == [s EXCEPT
                   !.queued_transaction.num_waiting =
                       IF q.instructions[n].waiting /\ q.num_waiting > 0
                       THEN q.num_waiting - 1 ELSE q.num_waiting,
                   !.instruction = @ \ {n}]
           r == Progress(i, timer)
<1>1. SetInstructionReady(s, n, timer) = r
  BY DEF SetInstructionReady
<1>2. /\ Consistent(i) /\ Frees(s, i) /\ Dirty(i) = Dirty(s)
      /\ P(i) # {} => Q(i) # {}
  BY SetInstructionReadyCounts
<1> HIDE DEF i
<1>3. Consistent(r) /\ AtRest(r) /\ Frees(i, r) /\ Dirty(r) = Dirty(i)
  BY <1>2, ProgressConsistent
<1> HIDE DEF r
<1>4. Frees(s, r)
  BY <1>2, <1>3, FreesTrans DEF Consistent
<1> QED
  BY <1>1, <1>2, <1>3, <1>4

-----------------------------------------------------------------------------
(* The handlers. *)

Inv ==
    /\ Consistent(server)
    /\ AtRest(server)
    /\ Shown(server, server.mapped)
    /\ client \in [Views -> Nat]

LEMMA BoxesType ==
    /\ Boxes \subseteq NodeState
    /\ NoBox \in NodeState
    /\ \A s \in NodeState, w \in Widths : [s EXCEPT !.w = w] \in NodeState
<1>1. \A b \in Boxes : b \in [x : Nat, w : Nat]
  BY ConstantsAssumption
<1>2. ASSUME NEW b \in Boxes PROVE b \in NodeState
  <2>1. b.x \in {d.x : d \in Boxes} /\ b.w \in Widths
    BY DEF Widths
  <2> QED
    BY <1>1, <2>1 DEF NodeState
<1>3. NoBox \in NodeState
  BY DEF NoBox, NodeState
<1>4. \A s \in NodeState, w \in Widths : [s EXCEPT !.w = w] \in NodeState
  BY DEF NodeState
<1> QED
  BY <1>2, <1>3, <1>4

(***************************************************************************)
(* Fields that transactions do not decide on may change.                   *)
(***************************************************************************)
Same(s, r) ==
    /\ r.dirty_nodes = s.dirty_nodes
    /\ r.pending_transaction = s.pending_transaction
    /\ r.queued_transaction = s.queued_transaction
    /\ r.life = s.life /\ r.ntxnrefs = s.ntxnrefs /\ r.view = s.view
    /\ r.saved = s.saved /\ r.instruction = s.instruction

LEMMA SameConsistent ==
    ASSUME NEW s, NEW r \in Servers, Consistent(s), Same(s, r)
    PROVE  /\ Consistent(r)
           /\ AtRest(s) => AtRest(r)
BY DEF Consistent, Same, Counted, Reachable, Instructed, Viewed, Doomed, Frozen,
   AwaitedFrozen, Awaits, Silent, Q, P, ViewsOf, Dirty, AtRest

LEMMA SameShown ==
    ASSUME NEW s, NEW r, NEW S, Shown(s, S),
           r.life = s.life, r.view = s.view, r.container = s.container
    PROVE  Shown(r, S)
BY DEF Shown

LEMMA NodeSetDirtyKeeps ==
    ASSUME NEW s \in Servers, NEW n \in Nodes
    PROVE  LET r == NodeSetDirty(s, n)
           IN  /\ r.life = s.life /\ r.view = s.view /\ r.container = s.container
               /\ r.mapped = s.mapped /\ r.pending = s.pending /\ r.current = s.current
               /\ r.queued_transaction = s.queued_transaction
               /\ r.pending_transaction = s.pending_transaction
               /\ AtRest(s) => AtRest(r)
BY DEF NodeSetDirty, Servers, AtRest, Q, P

LEMMA ModifyKeeps ==
    ASSUME NEW s \in Servers, NEW n \in Nodes, NEW b \in NodeState
    PROVE  LET r == Modify(s, n, b)
           IN  /\ r \in Servers
               /\ r.life = s.life /\ r.view = s.view /\ r.container = s.container
               /\ r.mapped = s.mapped /\ r.current = s.current
               /\ r.queued_transaction = s.queued_transaction
               /\ r.pending_transaction = s.pending_transaction
               /\ AtRest(s) => AtRest(r)
               /\ \A m \in Nodes : r.pending[m] =
                      IF m = n /\ IsView(n) THEN b ELSE s.pending[m]
<1> DEFINE m == [s EXCEPT !.pending[n] = IF IsView(n) THEN b ELSE @]
<1>1. /\ m \in Servers
      /\ m.life = s.life /\ m.view = s.view /\ m.container = s.container
      /\ m.mapped = s.mapped /\ m.current = s.current
      /\ m.queued_transaction = s.queued_transaction
      /\ m.pending_transaction = s.pending_transaction
      /\ \A k \in Nodes : m.pending[k] = IF k = n /\ IsView(n) THEN b ELSE s.pending[k]
  BY DEF Servers
<1>2. Modify(s, n, b) = NodeSetDirty(m, n)
  BY DEF Modify
<1>3. AtRest(s) => AtRest(m)
  BY <1>1 DEF AtRest, Q, P
<1> HIDE DEF m
<1> QED
  BY <1>1, <1>2, <1>3, NodeSetDirtyKeeps, NodeSetDirtyType

(***************************************************************************)
(* The end of most handlers: views are shown or hidden, then the dirty     *)
(* nodes are committed.                                                    *)
(***************************************************************************)
LEMMA CommitEndsHandler ==
    ASSUME NEW s, Consistent(s), AtRest(s),
           NEW S \in SUBSET Views, Shown(s, S),
           NEW visible \in SUBSET Views, NEW r \in BOOLEAN, NEW timer \in TimerOutcomes
    PROVE  LET e == CommitDirty([s EXCEPT !.visible = visible], r, timer)
           IN  Consistent(e) /\ AtRest(e) /\ Shown(e, S) /\ e.mapped = s.mapped
<1> DEFINE h == [s EXCEPT !.visible = visible]
           e == CommitDirty(h, r, timer)
<1>1. s \in Servers /\ timer \in BOOLEAN
  BY ConstantsAssumption DEF Consistent
<1>2. h \in Servers /\ Same(s, h) /\ h.container = s.container /\ h.mapped = s.mapped
  BY <1>1 DEF Servers, Same
<1> HIDE DEF h
<1>3. Consistent(h) /\ AtRest(h) /\ Shown(h, S)
  BY <1>2, SameConsistent, SameShown DEF Same
<1>4. Consistent(e) /\ AtRest(e) /\ Frees(h, e)
  BY <1>1, <1>3, CommitDirtyConsistent
<1> HIDE DEF e
<1>5. Shown(e, S)
  BY <1>2, <1>3, <1>4, FreesShown DEF Consistent
<1> QED
  BY <1>2, <1>4, <1>5 DEF Frees, e, h

LEMMA RelayoutInv ==
    ASSUME Inv, NEW n \in Nodes, NEW b \in Boxes, Relayout(n, b)
    PROVE  Inv'
<1> DEFINE m == Modify(server, n, b)
<1>1. server \in Servers /\ server.life[n] = "live" /\ b \in NodeState
  BY BoxesType DEF Inv, Consistent, Relayout, Live
<1>2. PICK visible \in Visibilities(server), timer \in TimerOutcomes :
          server' = CommitDirty([m EXCEPT !.visible = visible], TRUE, timer)
  BY DEF Relayout
<1>3. visible \in SUBSET Views /\ server.mapped \in SUBSET Views
  BY <1>1 DEF Visibilities, Servers
<1>4. /\ Consistent(m) /\ AtRest(m) /\ m.mapped = server.mapped
      /\ Shown(m, server.mapped)
  BY <1>1, ModifyConsistent, ModifyKeeps, SameShown DEF Inv
<1> HIDE DEF m
<1> DEFINE e == CommitDirty([m EXCEPT !.visible = visible], TRUE, timer)
<1>5. Consistent(e) /\ AtRest(e) /\ Shown(e, server.mapped) /\ e.mapped = m.mapped
  BY ZenonT(40), <1>3, <1>4, CommitEndsHandler
<1> HIDE DEF e
<1>6. client' = client
  BY DEF Relayout
<1> QED
  BY <1>2, <1>4, <1>5, <1>6 DEF Inv, e

LEMMA RelayoutUncommittedInv ==
    ASSUME Inv, NEW n \in Nodes, NEW b \in Boxes, RelayoutUncommitted(n, b)
    PROVE  Inv'
<1> DEFINE m == Modify(server, n, b)
<1>1. server \in Servers /\ server.life[n] = "live" /\ b \in NodeState
  BY BoxesType DEF Inv, Consistent, RelayoutUncommitted, Live
<1>2. /\ Consistent(m) /\ AtRest(m) /\ m.mapped = server.mapped
      /\ Shown(m, server.mapped)
  BY <1>1, ModifyConsistent, ModifyKeeps, SameShown DEF Inv
<1>3. server' = m /\ client' = client
  BY DEF RelayoutUncommitted
<1> HIDE DEF m
<1> QED
  BY <1>2, <1>3 DEF Inv

(* A node that no mapped view is shown in begins its destruction. *)
LEMMA BeginDestroyShown ==
    ASSUME NEW s, Consistent(s), NEW n \in Nodes, NEW S, Shown(s, S),
           \A v \in S : s.container[v] # n
    PROVE  LET r == [NodeSetDirty(s, n) EXCEPT !.life[n] = "destroying"]
           IN  /\ Shown(r, S)
               /\ r.mapped = s.mapped
               /\ AtRest(s) => AtRest(r)
               /\ \A m \in Nodes \ {n} : r.life[m] = s.life[m]
<1> DEFINE d == NodeSetDirty(s, n)
           r == [d EXCEPT !.life[n] = "destroying"]
<1>1. /\ d \in Servers
      /\ d.life = s.life /\ d.view = s.view /\ d.container = s.container
      /\ d.mapped = s.mapped
      /\ AtRest(s) => AtRest(d)
  BY NodeSetDirtyType, NodeSetDirtyKeeps DEF Consistent
<1> HIDE DEF d
<1>2. /\ r.view = d.view /\ r.container = d.container /\ r.mapped = d.mapped
      /\ r.queued_transaction = d.queued_transaction
      /\ r.pending_transaction = d.pending_transaction
      /\ \A m \in Nodes \ {n} : r.life[m] = d.life[m]
  BY <1>1 DEF Servers
<1> HIDE DEF r
<1>3. AtRest(d) => AtRest(r)
  BY <1>2 DEF AtRest, Q, P
<1>4. Shown(r, S)
  BY <1>1, <1>2 DEF Shown, Nodes
<1> QED
  BY <1>1, <1>2, <1>3, <1>4 DEF r, d

LEMMA OtherBeginDestroyUncommittedInv ==
    ASSUME Inv, NEW o \in Others, OtherBeginDestroyUncommitted(o)
    PROVE  Inv'
<1> DEFINE r == [NodeSetDirty(server, o) EXCEPT !.life[o] = "destroying"]
<1>1. o \in Nodes /\ server.life[o] = "live" /\ server' = r /\ client' = client
  BY DEF OtherBeginDestroyUncommitted, OtherDestroying, LiveOthers, Nodes
<1>2. \A v \in server.mapped : server.container[v] # o
  BY ConstantsAssumption DEF Inv, Shown
<1>3. Consistent(r)
  BY <1>1, BeginDestroyConsistent DEF Inv
<1>4. Shown(r, server.mapped) /\ r.mapped = server.mapped /\ AtRest(r)
  BY <1>1, <1>2, BeginDestroyShown DEF Inv
<1> HIDE DEF r
<1> QED
  BY <1>1, <1>3, <1>4 DEF Inv

LEMMA OtherBeginDestroyInv ==
    ASSUME Inv, NEW o \in Others, OtherBeginDestroy(o)
    PROVE  Inv'
<1> DEFINE d == [NodeSetDirty(server, o) EXCEPT !.life[o] = "destroying"]
<1>1. o \in Nodes /\ server.life[o] = "live" /\ client' = client
  BY DEF OtherBeginDestroy, LiveOthers, Nodes
<1>2. PICK timer \in TimerOutcomes : server' = CommitDirty(d, TRUE, timer)
  BY DEF OtherBeginDestroy, OtherDestroying
<1>3. \A v \in server.mapped : server.container[v] # o
  BY ConstantsAssumption DEF Inv, Shown
<1>4. Consistent(d)
  BY <1>1, BeginDestroyConsistent DEF Inv
<1>5. Shown(d, server.mapped) /\ d.mapped = server.mapped /\ AtRest(d)
  BY <1>1, <1>3, BeginDestroyShown DEF Inv
<1> HIDE DEF d
<1>6. timer \in BOOLEAN /\ server.mapped \in SUBSET Views
  BY ConstantsAssumption DEF Inv, Consistent, Servers
<1> DEFINE e == CommitDirty(d, TRUE, timer)
<1>7. Consistent(e) /\ AtRest(e) /\ Frees(d, e)
  BY <1>4, <1>5, <1>6, CommitDirtyConsistent
<1> HIDE DEF e
<1>8. Shown(e, server.mapped) /\ e.mapped = server.mapped
  BY <1>4, <1>5, <1>6, <1>7, FreesShown DEF Consistent, Frees
<1> QED
  BY <1>1, <1>2, <1>7, <1>8 DEF Inv, e

LEMMA CreatedConsistent ==
    ASSUME NEW s, Consistent(s), AtRest(s), Shown(s, s.mapped),
           NEW v \in Views, NEW c \in Containers, NEW b \in Boxes,
           s.life[c] = "unborn", v \notin s.mapped,
           NEW r, r = Created(s, v, c, b),
           NEW S, S = s.mapped \cup {v}
    PROVE  /\ Consistent(r) /\ AtRest(r) /\ Shown(r, S) /\ r.mapped = S
           /\ r.dirty_nodes = s.dirty_nodes
           /\ r.queued_transaction = s.queued_transaction
           /\ r.pending_transaction = s.pending_transaction
           /\ r.pending = s.pending /\ r.current = s.current
           /\ \A n \in Nodes : r.life[n] = IF n = c THEN "live" ELSE s.life[n]
<1> DEFINE created == Created(s, v, c, b)
<1>1. s \in Servers /\ c \in Nodes /\ S \in SUBSET Views
  BY DEF Consistent, Nodes, Servers
<1>3. Drawn(s, v, b.w) \in [FloatingViews -> Widths \cup {0}]
  BY <1>1 DEF Drawn, Servers, Widths
<1>4. created \in Servers
  BY <1>1, <1>3 DEF Servers, NodeLife, Created
<1>5. /\ created.dirty_nodes = s.dirty_nodes
      /\ created.queued_transaction = s.queued_transaction
      /\ created.pending_transaction = s.pending_transaction
      /\ created.ntxnrefs = s.ntxnrefs /\ created.instruction = s.instruction
      /\ created.saved = s.saved /\ created.mapped = S
      /\ created.pending = s.pending /\ created.current = s.current
      /\ \A n \in Nodes : created.life[n] = IF n = c THEN "live" ELSE s.life[n]
      /\ \A k \in Containers : created.view[k] = IF k = c THEN v ELSE s.view[k]
      /\ \A u \in Views : created.container[u] = IF u = v THEN c ELSE s.container[u]
  BY <1>1 DEF Servers, Nodes, Created
<1> HIDE DEF created
<1>6. Q(created) = Q(s) /\ P(created) = P(s) /\ Dirty(created) = Dirty(s)
  BY <1>5 DEF Q, P, Dirty
<1>7. c \notin Dirty(s) \cup Q(s) \cup P(s)
  BY <1>1 DEF Consistent, Reachable
<1>8. Q(s) \subseteq Nodes /\ P(s) \subseteq Nodes /\ Dirty(s) \subseteq Nodes
  BY <1>1 DEF Q, P, NodesOf, Dirty, Range, Servers
<1>9. Consistent(created)
  <2>1. Counted(created) /\ Instructed(created)
    BY <1>5, <1>6 DEF Consistent, Counted, Instructed
  <2>2. Reachable(created) /\ Doomed(created)
    BY <1>5, <1>6, <1>7, <1>8 DEF Consistent, Reachable, Doomed
  <2>3. Viewed(created)
    BY <1>5 DEF Consistent, Viewed, Nodes
  <2>4. ViewsOf(created, Q(s)) = ViewsOf(s, Q(s)) /\ ViewsOf(created, P(s)) = ViewsOf(s, P(s))
    BY <1>5, <1>7 DEF ViewsOf
  <2>5. Frozen(created)
    BY <1>5, <1>6, <2>4 DEF Consistent, Frozen
  <2>6. AwaitedFrozen(created) /\ Awaits(created)
    BY <1>5, <1>6, <1>7 DEF Consistent, AwaitedFrozen, Awaits, Silent
  <2> QED
    BY <1>4, <2>1, <2>2, <2>3, <2>5, <2>6 DEF Consistent
<1>10. Shown(created, S)
  BY <1>1, <1>5, <1>8 DEF Shown, Nodes
<1>11. AtRest(created)
  BY <1>5, <1>6 DEF AtRest
<1> QED
  BY <1>5, <1>9, <1>10, <1>11 DEF created, Created

LEMMA MapInv ==
    ASSUME Inv, NEW v \in Views, NEW c \in Containers, NEW b \in Boxes,
           NEW o \in Others, Map(v, c, b, o)
    PROVE  Inv'
<1> DEFINE s == server
           created == Created(s, v, c, b)
           S == s.mapped \cup {v}
           m == Modify(created, c, b)
           d == NodeSetDirty(m, o)
<1>1. /\ s \in Servers /\ b \in NodeState /\ S \in SUBSET Views
      /\ s.life[c] = "unborn" /\ s.life[o] = "live" /\ v \notin s.mapped
      /\ c \in Nodes /\ o \in Nodes /\ c # o
      /\ client' = client
  BY BoxesType, ConstantsAssumption DEF Inv, Consistent, Servers, Map, LiveOthers, Nodes
<1>2. PICK visible \in SUBSET Views, timer \in TimerOutcomes :
          server' = CommitDirty([d EXCEPT !.visible = visible], TRUE, timer)
  BY <1>1 DEF Map, Servers, Created
<1>3. /\ Consistent(created) /\ AtRest(created) /\ Shown(created, S)
      /\ created.mapped = S
      /\ \A n \in Nodes : created.life[n] = IF n = c THEN "live" ELSE s.life[n]
  <2>1. Consistent(s) /\ AtRest(s) /\ Shown(s, s.mapped)
    BY DEF Inv
  <2>2. s.life[c] = "unborn" /\ v \notin s.mapped
    BY <1>1
  <2>3. created = Created(s, v, c, b) /\ S = s.mapped \cup {v}
    OBVIOUS
  <2> HIDE DEF s, created, S
  <2> QED
    BY <2>1, <2>2, <2>3, CreatedConsistent
<1>4. created \in Servers
  BY <1>3 DEF Consistent
<1> HIDE DEF created, S
<1>5. /\ Consistent(m) /\ AtRest(m) /\ m \in Servers
       /\ m.life = created.life /\ m.mapped = S /\ Shown(m, S)
  BY <1>1, <1>3, <1>4, ModifyConsistent, ModifyKeeps, SameShown
<1>6. m.life[o] = "live"
  BY <1>1, <1>3, <1>5
<1> HIDE DEF m
<1>7. /\ Consistent(d) /\ AtRest(d) /\ d.mapped = S /\ Shown(d, S)
  BY <1>1, <1>5, <1>6, NodeSetDirtyConsistent, NodeSetDirtyKeeps, SameShown
<1> HIDE DEF d
<1> DEFINE e == CommitDirty([d EXCEPT !.visible = visible], TRUE, timer)
<1>8. S \in SUBSET Views /\ TRUE \in BOOLEAN
  BY <1>1
<1>9. Consistent(e) /\ AtRest(e) /\ Shown(e, S) /\ e.mapped = S
  BY <1>8, <1>7, CommitEndsHandler
<1> HIDE DEF e
<1> QED
  BY <1>1, <1>2, <1>9 DEF Inv, e

LEMMA UnmapInv ==
    ASSUME Inv, NEW v \in Views, NEW o \in Others, Unmap(v, o)
    PROVE  Inv'
<1> DEFINE s == server
           c == s.container[v]
           S == s.mapped \ {v}
           begun == [NodeSetDirty(s, c) EXCEPT !.life[c] = "destroying"]
           d == NodeSetDirty(begun, o)
<1>1. /\ s \in Servers /\ S \in SUBSET Views /\ v \in s.mapped
      /\ c \in Containers /\ s.life[c] = "live" /\ s.view[c] = v
      /\ s.life[o] = "live" /\ o \in Nodes /\ c \in Nodes /\ o # c
      /\ client' = client
  BY ConstantsAssumption DEF Inv, Consistent, Servers, Shown, Unmap, LiveOthers, Nodes
<1>2. PICK timer \in TimerOutcomes :
          server' = [CommitDirty([d EXCEPT !.visible = @ \ {v}], TRUE, timer)
                     EXCEPT !.mapped = @ \ {v}]
  BY DEF Unmap, ContainerBeginDestroy
<1>3. Shown(s, S) /\ \A u \in S : s.container[u] # c
  BY <1>1 DEF Inv, Shown
<1>4. Consistent(begun)
  BY <1>1, BeginDestroyConsistent DEF Inv
<1>5. /\ Shown(begun, S) /\ begun.mapped = s.mapped /\ AtRest(begun)
      /\ begun.life[o] = "live"
  BY SMTT(20), <1>1, <1>3, BeginDestroyShown DEF Inv
<1> HIDE DEF begun, c
<1>6. /\ Consistent(d) /\ AtRest(d) /\ d.mapped = s.mapped /\ Shown(d, S) /\ d \in Servers
  BY <1>1, <1>4, <1>5, NodeSetDirtyConsistent, NodeSetDirtyKeeps, SameShown DEF Consistent
<1> HIDE DEF d
<1> DEFINE visible == d.visible \ {v}
           e == CommitDirty([d EXCEPT !.visible = visible], TRUE, timer)
           r == [e EXCEPT !.mapped = @ \ {v}]
<1>7. visible \in SUBSET Views
  BY <1>6 DEF Servers
<1> HIDE DEF visible
<1>8. Consistent(e) /\ AtRest(e) /\ Shown(e, S) /\ e.mapped = s.mapped
  BY ZenonT(40), <1>1, <1>6, <1>7, CommitEndsHandler
<1>9. server' = r
  BY <1>2 DEF visible
<1> HIDE DEF e
<1>10. r \in Servers /\ Same(e, r) /\ r.container = e.container /\ r.mapped = S
  BY <1>8 DEF Consistent, Servers, Same
<1> HIDE DEF r
<1>11. Consistent(r) /\ AtRest(r) /\ Shown(r, S)
  BY <1>8, <1>10, SameConsistent, SameShown DEF Same
<1> QED
  BY <1>1, <1>9, <1>10, <1>11 DEF Inv

LEMMA ViewBeginDestroyInv ==
    ASSUME Inv, NEW v \in Views, ViewBeginDestroy(v)
    PROVE  Inv'
<1> DEFINE life == IF server.container[v] = NULL THEN "freed" ELSE "destroying"
           r == [server EXCEPT !.vlife[v] = life]
<1>1. server \in Servers /\ server' = r /\ client' = client
  BY DEF ViewBeginDestroy, Inv, Consistent
<1>2. life \in ViewLife
  BY DEF ViewLife
<1> HIDE DEF life
<1>3. /\ r \in Servers /\ Same(server, r) /\ r.container = server.container
      /\ r.mapped = server.mapped
  BY <1>1, <1>2 DEF Servers, Same
<1> HIDE DEF r
<1>4. Consistent(r) /\ AtRest(r) /\ Shown(r, server.mapped)
  BY <1>3, SameConsistent, SameShown DEF Same, Inv
<1> QED
  BY <1>1, <1>3, <1>4 DEF Inv

LEMMA AdoptSizeConsistent ==
    ASSUME NEW s, Consistent(s), AtRest(s), Shown(s, s.mapped),
           NEW v \in s.mapped, NEW w \in Widths, NEW timer \in TimerOutcomes
    PROVE  LET r == AdoptSize(s, v, w, timer)
           IN  /\ Consistent(r) /\ AtRest(r) /\ Shown(r, s.mapped)
               /\ r.mapped = s.mapped
<1> DEFINE c == s.container[v]
           told == IF ToplevelSetSize(s, v, w)
                   THEN [s EXCEPT !.configures[v] = @ + 1, !.configured[v].w = w]
                   ELSE s
           resized == [told EXCEPT !.geometry = Drawn(s, v, w)]
           box == [s.pending[c] EXCEPT !.w = w]
           m == Modify(resized, c, box)
<1>1. /\ s \in Servers /\ s.mapped \in SUBSET Views /\ v \in Views /\ timer \in BOOLEAN
      /\ c \in Nodes /\ s.life[c] = "live"
  BY ConstantsAssumption DEF Consistent, Servers, Shown, Nodes
<1>2. box \in NodeState
  BY <1>1, BoxesType DEF Servers
<1>3. /\ told \in Servers /\ Same(s, told) /\ told.container = s.container
      /\ told.mapped = s.mapped /\ told.pending = s.pending
  <2>1. s.configured[v] \in NodeState
    BY <1>1 DEF Servers
  <2>2. [s.configured[v] EXCEPT !.w = w] \in NodeState
    BY <2>1, BoxesType
  <2> DEFINE configures == [s.configures EXCEPT ![v] = @ + 1]
             configured == [s.configured EXCEPT ![v] = [s.configured[v] EXCEPT !.w = w]]
             t == [s EXCEPT !.configures = configures, !.configured = configured]
  <2>a. configures \in [Views -> Nat] /\ configured \in [Views -> NodeState]
    BY <1>1, <2>2 DEF Servers
  <2>b. t = [s EXCEPT !.configures[v] = @ + 1, !.configured[v].w = w]
    BY <1>1 DEF Servers
  <2> HIDE DEF configures, configured
  <2>3. /\ t \in Servers /\ Same(s, t) /\ t.container = s.container
        /\ t.mapped = s.mapped /\ t.pending = s.pending
    BY <1>1, <2>a DEF Servers, Same
  <2> QED
    BY <1>1, <2>3, <2>b DEF Same
<1>4. AdoptSize(s, v, w, timer) = IF AdoptsSize(s, v, w) THEN CommitDirty(m, FALSE, timer)
                                  ELSE resized
  BY DEF AdoptSize
<1>5. Drawn(s, v, w) \in [FloatingViews -> Widths \cup {0}]
  BY <1>1 DEF Drawn, Servers
<1> HIDE DEF told, box, c
<1>6. /\ resized \in Servers /\ Same(s, resized) /\ resized.container = s.container
      /\ resized.mapped = s.mapped
  BY <1>3, <1>5 DEF Servers, Same
<1> HIDE DEF resized
<1>7. Consistent(resized) /\ AtRest(resized) /\ Shown(resized, s.mapped)
  BY <1>6, SameConsistent, SameShown DEF Same
<1>8. resized.life[c] = "live"
  BY <1>1, <1>6 DEF Same
<1>9. /\ Consistent(m) /\ AtRest(m) /\ m.mapped = s.mapped /\ Shown(m, s.mapped)
  BY <1>1, <1>2, <1>6, <1>7, <1>8, ModifyConsistent, ModifyKeeps, SameShown
<1> HIDE DEF m
<1> DEFINE e == CommitDirty(m, FALSE, timer)
<1>10. Consistent(e) /\ AtRest(e) /\ Frees(m, e)
  BY <1>1, <1>9, CommitDirtyConsistent
<1> HIDE DEF e
<1>11. Shown(e, s.mapped) /\ e.mapped = s.mapped
  BY <1>1, <1>9, <1>10, FreesShown DEF Consistent, Frees
<1> QED
  BY <1>4, <1>6, <1>7, <1>10, <1>11 DEF e

LEMMA ClientCommitInv ==
    ASSUME Inv, NEW v \in Views, NEW k \in 1 .. MaxSerial, NEW w \in Widths,
           ClientCommit(v, k, w)
    PROVE  Inv'
<1>1. v \in server.mapped /\ server.mapped \in SUBSET Views
  BY DEF ClientCommit, Inv, Consistent, Servers
<1>2. client' \in [Views -> Nat]
  BY ConstantsAssumption DEF ClientCommit, Inv
<1>3. PICK timer \in TimerOutcomes :
          LET a == AdoptSize(server, v, w, timer)
              c == a.container[v]
          IN  server' = IF c \in a.instruction /\ IsReady(a, v, k, w)
                        THEN SetInstructionReady(a, c, timer) ELSE a
  BY DEF ClientCommit
<1>4. timer \in BOOLEAN
  BY ConstantsAssumption
<1> DEFINE a == AdoptSize(server, v, w, timer)
           c == a.container[v]
           r == SetInstructionReady(a, c, timer)
<1>5. /\ Consistent(a) /\ AtRest(a) /\ Shown(a, server.mapped)
      /\ a.mapped = server.mapped
  BY <1>1, AdoptSizeConsistent DEF Inv
<1>6. server' = a \/ (c \in a.instruction /\ server' = r)
  <2>1. server' = IF c \in a.instruction /\ IsReady(a, v, k, w) THEN r ELSE a
    BY <1>3
  <2> HIDE DEF a, c, r
  <2> QED
    BY <2>1
<1> HIDE DEF a, c
<1>7. CASE server' = a
  BY <1>2, <1>5, <1>7 DEF Inv
<1>8. CASE c \in a.instruction /\ server' = r
  <2>1. Consistent(r) /\ AtRest(r) /\ Frees(a, r)
    BY <1>4, <1>5, <1>8, SetInstructionReadyConsistent
  <2> HIDE DEF r
  <2>2. Shown(r, server.mapped) /\ r.mapped = server.mapped
    BY <1>1, <1>5, <2>1, FreesShown DEF Consistent, Frees
  <2> QED
    BY <1>2, <1>8, <2>1, <2>2 DEF Inv
<1> QED
  BY <1>6, <1>7, <1>8

(* An X11 window is told a box. *)
LEMMA ToldSame ==
    ASSUME NEW s \in Servers, NEW v \in Views, NEW b \in NodeState
    PROVE  LET r == Told(s, v, b)
           IN  /\ r \in Servers /\ Same(s, r) /\ r.container = s.container
               /\ r.mapped = s.mapped /\ r.pending = s.pending /\ r.current = s.current
<1> DEFINE configures == [s.configures EXCEPT ![v] = IF IsEvent(s, v, b) THEN @ + 1 ELSE @]
           configured == [s.configured EXCEPT ![v] = b]
           t == [s EXCEPT !.configures = configures, !.configured = configured]
<1>1. configures \in [Views -> Nat] /\ configured \in [Views -> NodeState]
  BY DEF Servers
<1>2. Told(s, v, b) = t
  BY DEF Told, Servers
<1> HIDE DEF configures, configured
<1>3. /\ t \in Servers /\ Same(s, t) /\ t.container = s.container
      /\ t.mapped = s.mapped /\ t.pending = s.pending /\ t.current = s.current
  BY <1>1 DEF Servers, Same
<1> QED
  BY <1>2, <1>3

LEMMA FloatingRequestInv ==
    ASSUME Inv, NEW v \in Views, NEW b \in Boxes, FloatingRequest(v, b)
    PROVE  Inv'
<1> DEFINE t == Told(server, v, b)
           c == server.container[v]
           m == Modify(t, c, b)
<1>1. /\ server \in Servers /\ b \in NodeState
      /\ c \in Nodes /\ server.life[c] = "live"
  BY BoxesType DEF Inv, Consistent, Shown, FloatingRequest, Nodes
<1>2. /\ t \in Servers /\ Same(server, t) /\ t.container = server.container
      /\ t.mapped = server.mapped
  BY <1>1, ToldSame
<1>3. server' = m /\ client' = client
  BY DEF FloatingRequest
<1> HIDE DEF t, c
<1>4. Consistent(t) /\ AtRest(t) /\ Shown(t, server.mapped) /\ t.life[c] = "live"
  BY <1>1, <1>2, SameConsistent, SameShown DEF Inv, Same
<1>5. /\ Consistent(m) /\ AtRest(m) /\ m.mapped = server.mapped
      /\ Shown(m, server.mapped)
  BY <1>1, <1>2, <1>4, ModifyConsistent, ModifyKeeps, SameShown
<1> HIDE DEF m
<1> QED
  BY <1>3, <1>5 DEF Inv

LEMMA TiledRequestInv ==
    ASSUME Inv, NEW v \in Views, TiledRequest(v)
    PROVE  Inv'
<1> DEFINE b == server.current[server.container[v]]
           t == Told(server, v, b)
<1>1. server \in Servers /\ b \in NodeState
  BY DEF Inv, Consistent, Shown, TiledRequest, Servers, Nodes
<1> HIDE DEF b
<1>2. /\ t \in Servers /\ Same(server, t) /\ t.container = server.container
      /\ t.mapped = server.mapped
  BY <1>1, ToldSame
<1>3. server' = t /\ client' = client
  BY DEF TiledRequest, b
<1> HIDE DEF t
<1>4. Consistent(t) /\ AtRest(t) /\ Shown(t, server.mapped)
  BY <1>1, <1>2, SameConsistent, SameShown DEF Inv, Same
<1> QED
  BY <1>2, <1>3, <1>4 DEF Inv

(* handle_timeout: nobody is awaited any more. *)
LEMMA TimedOutConsistent ==
    ASSUME NEW s, Consistent(s), AtRest(s)
    PROVE  LET i == [s EXCEPT !.queued_transaction.num_waiting = 0]
           IN  /\ Consistent(i)
               /\ P(i) # {} => Q(i) # {}
               /\ i.life = s.life /\ i.view = s.view
               /\ i.mapped = s.mapped /\ i.container = s.container
<1> DEFINE i == [s EXCEPT !.queued_transaction.num_waiting = 0]
           q == s.queued_transaction
<1>2. s \in Servers /\ q \in Transactions
  BY DEF Consistent, Servers
<1>3. i.queued_transaction = [q EXCEPT !.num_waiting = 0]
  BY <1>2 DEF Servers
<1>4. /\ i.queued_transaction \in Transactions
      /\ i.queued_transaction.num_waiting = 0
      /\ i.queued_transaction.instructions = q.instructions
  BY <1>2, <1>3 DEF Transactions
<1>5. /\ i.pending_transaction = s.pending_transaction
      /\ i.life = s.life /\ i.ntxnrefs = s.ntxnrefs /\ i.view = s.view
      /\ i.saved = s.saved /\ i.mapped = s.mapped
      /\ i.container = s.container /\ i.dirty_nodes = s.dirty_nodes
      /\ i.instruction = s.instruction
  BY <1>2 DEF Servers
<1>6. i \in Servers
  BY <1>2, <1>3, <1>4 DEF Servers
<1> HIDE DEF i
<1>7. Q(i) = Q(s) /\ P(i) = P(s) /\ Dirty(i) = Dirty(s)
  BY <1>4, <1>5 DEF Q, P, NodesOf, Dirty
<1>8. Consistent(i)
  BY <1>4, <1>5, <1>6, <1>7 DEF Consistent, Counted, Reachable, Instructed,
     Viewed, Doomed, Frozen, AwaitedFrozen, Awaits, ViewsOf
<1>9. P(i) # {} => Q(i) # {}
  BY <1>7 DEF AtRest
<1> QED
  BY <1>5, <1>8, <1>9 DEF i

LEMMA TimeoutInv ==
    ASSUME Inv, Timeout
    PROVE  Inv'
<1> DEFINE i == [server EXCEPT !.queued_transaction.num_waiting = 0]
<1>1. PICK timer \in TimerOutcomes : server' = Progress(i, timer)
  BY DEF Timeout
<1>2. server \in Servers /\ timer \in BOOLEAN /\ client' = client
  BY ConstantsAssumption DEF Timeout, Inv, Consistent
<1>3. /\ Consistent(i)
      /\ P(i) # {} => Q(i) # {}
      /\ i.life = server.life /\ i.view = server.view
      /\ i.mapped = server.mapped /\ i.container = server.container
  BY TimedOutConsistent DEF Inv
<1> HIDE DEF i
<1>4. Shown(i, server.mapped)
  BY <1>3, SameShown DEF Inv
<1> DEFINE r == Progress(i, timer)
<1>5. Consistent(r) /\ AtRest(r) /\ Frees(i, r)
  BY <1>2, <1>3, ProgressConsistent
<1> HIDE DEF r
<1>6. Shown(r, server.mapped) /\ r.mapped = server.mapped
  BY <1>2, <1>3, <1>4, <1>5, FreesShown DEF Consistent, Frees, Servers
<1> QED
  BY <1>1, <1>2, <1>5, <1>6 DEF Inv, r

-----------------------------------------------------------------------------
LEMMA InitInv == Init => Inv
<1> SUFFICES ASSUME Init PROVE Inv
  OBVIOUS
<1>1. << >> \in Seq(Nodes) /\ Range(<< >>) = {}
  BY DEF Range
<1>2. server \in Servers
  BY <1>1, NoTxnType, BoxesType DEF Init, Servers, NodeLife, ViewLife
<1>3. /\ server.dirty_nodes = << >> /\ server.mapped = {} /\ server.saved = {}
      /\ server.pending_transaction = NoTxn /\ server.queued_transaction = NoTxn
      /\ server.instruction = {}
      /\ server.ntxnrefs = [n \in Nodes |-> 0]
      /\ server.life = [n \in Nodes |-> IF n \in Others THEN "live" ELSE "unborn"]
  BY DEF Init
<1>4. Q(server) = {} /\ P(server) = {} /\ Dirty(server) = {}
  BY <1>1, <1>3, NoTxnType DEF Q, P, Dirty
<1>5. Counted(server) /\ Reachable(server) /\ Instructed(server) /\ Doomed(server)
  BY <1>3, <1>4 DEF Counted, Reachable, Instructed, Doomed
<1>6. Viewed(server)
  BY <1>3, ConstantsAssumption DEF Viewed, Nodes
<1>7. Frozen(server) /\ AwaitedFrozen(server) /\ Awaits(server)
  BY <1>3, <1>4 DEF Frozen, AwaitedFrozen, Awaits, NoTxn
<1>8. AtRest(server) /\ Shown(server, server.mapped)
  BY <1>3, <1>4 DEF AtRest, Shown
<1>9. client \in [Views -> Nat]
  BY DEF Init
<1> QED
  BY <1>2, <1>5, <1>6, <1>7, <1>8, <1>9 DEF Inv, Consistent

LEMMA NextInv == Inv /\ [Next]_vars => Inv'
<1> SUFFICES ASSUME Inv, [Next]_vars PROVE Inv'
  OBVIOUS
<1>1. ASSUME NEW n \in Nodes, NEW b \in Boxes, Relayout(n, b) PROVE Inv'
  BY <1>1, RelayoutInv
<1>2. ASSUME NEW n \in Nodes, NEW b \in Boxes, RelayoutUncommitted(n, b) PROVE Inv'
  BY <1>2, RelayoutUncommittedInv
<1>3. ASSUME NEW o \in Others, OtherBeginDestroyUncommitted(o) PROVE Inv'
  BY <1>3, OtherBeginDestroyUncommittedInv
<1>4. ASSUME NEW v \in Views, NEW c \in Containers, NEW b \in Boxes, NEW o \in Others,
             Map(v, c, b, o)
      PROVE  Inv'
  BY <1>4, MapInv
<1>5. ASSUME NEW v \in Views, NEW o \in Others, Unmap(v, o) PROVE Inv'
  BY <1>5, UnmapInv
<1>6. ASSUME NEW v \in Views, ViewBeginDestroy(v) PROVE Inv'
  BY <1>6, ViewBeginDestroyInv
<1>7. ASSUME NEW o \in Others, OtherBeginDestroy(o) PROVE Inv'
  BY <1>7, OtherBeginDestroyInv
<1>8. ASSUME NEW v \in Views, NEW k \in 1 .. MaxSerial, NEW w \in Widths,
             ClientCommit(v, k, w)
      PROVE  Inv'
  BY <1>8, ClientCommitInv
<1>9. ASSUME NEW v \in Views, NEW b \in Boxes, FloatingRequest(v, b) PROVE Inv'
  BY <1>9, FloatingRequestInv
<1>10. ASSUME NEW v \in Views, TiledRequest(v) PROVE Inv'
  BY <1>10, TiledRequestInv
<1>11. CASE Timeout
  BY <1>11, TimeoutInv
<1>12. CASE UNCHANGED vars
  BY <1>12 DEF vars, Inv
<1> QED
  BY <1>1, <1>2, <1>3, <1>4, <1>5, <1>6, <1>7, <1>8, <1>9, <1>10, <1>11, <1>12 DEF Next

(***************************************************************************)
(* The inductive invariant holds of every reachable state.                 *)
(***************************************************************************)
THEOREM Invariance == Spec => []Inv
BY InitInv, NextInv, PTL DEF Spec

(***************************************************************************)
(* The state of the compositor keeps its types: no serial, reference count *)
(* or counter of awaited views leaves the natural numbers.                 *)
(***************************************************************************)
THEOREM TypeCorrect == Spec => []TypeOK
<1>1. Inv => TypeOK
  BY DEF Inv, Consistent, TypeOK
<1> QED
  BY <1>1, Invariance, PTL

(***************************************************************************)
(* transaction_add_node and transaction_destroy keep ntxnrefs equal to the *)
(* number of transactions that hold the node.                              *)
(***************************************************************************)
THEOREM RefCountsCorrect == Spec => []RefCounts
<1>1. Inv => RefCounts
  BY DEF Inv, Consistent, Counted, AtRest, RefCounts, Queued, Pending, Q, P
<1> QED
  BY <1>1, Invariance, PTL

(***************************************************************************)
(* No handler and no transaction comes across a freed node, and a mapped   *)
(* view always has its live container.                                     *)
(***************************************************************************)
THEOREM MemorySafety == Spec => []NoUseAfterFree
<1>1. Inv => NoUseAfterFree
  <2> SUFFICES ASSUME Inv PROVE NoUseAfterFree
    OBVIOUS
  <2>1. \A n \in Dirty(server) \cup Queued \cup Pending :
            server.life[n] \in {"live", "destroying"}
    BY DEF Inv, Consistent, Reachable, Queued, Pending, Q, P
  <2>2. server.instruction \subseteq Queued
    BY DEF Inv, Consistent, Instructed, Queued, Q
  <2>3. \A v \in server.mapped : /\ server.container[v] \in Live(server)
                                 /\ server.view[server.container[v]] = v
    BY DEF Inv, Shown, Live, Nodes
  <2> QED
    BY <2>1, <2>2, <2>3 DEF NoUseAfterFree
<1> QED
  BY <1>1, Invariance, PTL

(***************************************************************************)
(* A node that begins its destruction stays on the way to be freed.        *)
(***************************************************************************)
THEOREM NoLeaks == Spec => []NothingLeaks
<1>1. Inv => NothingLeaks
  BY DEF Inv, Consistent, Doomed, NothingLeaks, Destroying, Queued, Pending, Q, P
<1> QED
  BY <1>1, Invariance, PTL

(***************************************************************************)
(* num_waiting is the number of views that were asked and did not answer,  *)
(* whatever the order of answers, timeouts and commits.                    *)
(***************************************************************************)
THEOREM WaitingCorrect == Spec => []WaitsForTheSilent
<1>1. Inv => WaitsForTheSilent
  <2> SUFFICES ASSUME Inv PROVE WaitsForTheSilent
    OBVIOUS
  <2>1. Queued = Q(server)
    BY DEF Queued, Q
  <2>2. Silent(server) = {n \in Queued :
            server.queued_transaction.instructions[n].waiting /\ n \in server.instruction}
    BY <2>1 DEF Silent
  <2>3. Queued # {} => /\ server.queued_transaction.num_waiting > 0
                       /\ server.queued_transaction.num_waiting
                              = Cardinality(Silent(server))
    BY <2>1 DEF Inv, AtRest, Consistent, Awaits
  <2> QED
    BY <2>2, <2>3 DEF WaitsForTheSilent
<1> QED
  BY <1>1, Invariance, PTL

(***************************************************************************)
(* Exactly the views of the queued transaction are frozen on screen, the   *)
(* awaited ones among them.                                                *)
(***************************************************************************)
THEOREM FrozenCorrect == Spec => []FrozenWhileAwaited
<1>1. Inv => FrozenWhileAwaited
  <2> SUFFICES ASSUME Inv PROVE FrozenWhileAwaited
    OBVIOUS
  <2>1. Queued = Q(server)
    BY DEF Queued, Q
  <2>2. server.saved \subseteq ViewsOf(server, Queued)
    BY <2>1 DEF Inv, AtRest, Consistent, Frozen
  <2>3. \A c \in Queued : server.queued_transaction.instructions[c].waiting
                              => server.view[c] \in server.saved
    BY <2>1 DEF Inv, Consistent, AwaitedFrozen
  <2> QED
    BY <2>2, <2>3 DEF FrozenWhileAwaited
<1> QED
  BY <1>1, Invariance, PTL

-----------------------------------------------------------------------------
(* The transactions implement AtomicLayout, and merging commits keeps what *)
(* is newest.  The invariants above are used throughout: that nothing else *)
(* is queued when a transaction is committed, and that the queue is at     *)
(* rest between two handlers.                                              *)


InFlightOf(s) == Overwrite(s.current, s.queued_transaction)
CommittedOf(s) == Overwrite(InFlightOf(s), s.pending_transaction)

LEMMA LayoutTypes ==
    ASSUME NEW s \in Servers
    PROVE  /\ s.current \in [Nodes -> NodeState]
           /\ InFlightOf(s) \in [Nodes -> NodeState]
           /\ CommittedOf(s) \in [Nodes -> NodeState]
<1>1. s.current \in [Nodes -> NodeState]
  BY DEF Servers
<1>2. ASSUME NEW layout \in [Nodes -> NodeState], NEW t \in Transactions
      PROVE  Overwrite(layout, t) \in [Nodes -> NodeState]
  BY DEF Overwrite, NodesOf, Transactions, Instruction
<1>3. s.queued_transaction \in Transactions /\ s.pending_transaction \in Transactions
  BY DEF Servers
<1> QED
  BY <1>1, <1>2, <1>3 DEF InFlightOf, CommittedOf

LEMMA OverwriteWithNone ==
    ASSUME NEW layout \in [Nodes -> NodeState], NEW t, NodesOf(t) = {}
    PROVE  Overwrite(layout, t) = layout
BY DEF Overwrite

(***************************************************************************)
(* A step of AtomicLayout, between the layouts of two state records.       *)
(***************************************************************************)
Holds(s, r) == InFlightOf(r) = InFlightOf(s) /\ r.current = s.current

Starts(s, r) ==
    InFlightOf(s) = s.current /\ InFlightOf(r) = CommittedOf(r) /\ r.current = s.current

Finishes(s, r) ==
    InFlightOf(r) = CommittedOf(r) /\ r.current \in {InFlightOf(s), CommittedOf(r)}

Moves(s, r) == Holds(s, r) \/ Starts(s, r) \/ Finishes(s, r)

LEMMA MovesTwice ==
    ASSUME NEW a, NEW b, NEW c, Moves(a, b), Moves(b, c), CommittedOf(c) = CommittedOf(b)
    PROVE  Moves(a, c)
BY DEF Moves, Holds, Starts, Finishes

(* Records whose transactions hold the same states. *)
SameLayouts(s, r) ==
    /\ r.current = s.current
    /\ InFlightOf(r) = InFlightOf(s)
    /\ CommittedOf(r) = CommittedOf(s)

LEMMA SameTransactions ==
    ASSUME NEW s, NEW r, r.current = s.current,
           r.queued_transaction.instructions = s.queued_transaction.instructions,
           r.pending_transaction = s.pending_transaction
    PROVE  SameLayouts(s, r)
BY DEF SameLayouts, InFlightOf, CommittedOf, Overwrite, NodesOf

LEMMA SameMoves ==
    ASSUME NEW s, NEW h, NEW r, SameLayouts(s, h), Moves(h, r)
    PROVE  Moves(s, r)
BY DEF SameLayouts, Moves, Holds, Starts, Finishes

-----------------------------------------------------------------------------
(* The functions of transaction.c. *)

LEMMA CommitLayouts ==
    ASSUME NEW s, Consistent(s), Q(s) = {}, NEW timer \in BOOLEAN
    PROVE  LET r == Committed(s, timer)
           IN  /\ InFlightOf(s) = s.current
               /\ r.current = s.current
               /\ InFlightOf(r) = CommittedOf(s)
               /\ CommittedOf(r) = CommittedOf(s)
<1> DEFINE r == Committed(s, timer)
<1>1. s \in Servers
  BY DEF Consistent
<1>2. InFlightOf(s) = s.current
  BY <1>1, LayoutTypes, OverwriteWithNone DEF InFlightOf, Q
<1>3. /\ r.current = s.current /\ Q(r) = P(s) /\ r \in Servers
      /\ r.pending_transaction = NoTxn
  BY CommitType
<1>a. Sends(s, r)
  BY CommitType
<1> HIDE DEF r
<1>4. InFlightOf(r) = Overwrite(s.current, s.pending_transaction)
  BY <1>3, <1>a DEF Sends, InFlightOf, Overwrite, Q, P
<1>5. InFlightOf(r) = CommittedOf(s)
  BY <1>2, <1>4 DEF CommittedOf
<1>6. CommittedOf(r) = InFlightOf(r)
  BY <1>3, NoTxnType, LayoutTypes, OverwriteWithNone DEF CommittedOf
<1> QED
  BY <1>2, <1>3, <1>5, <1>6 DEF r

LEMMA FinishLayouts ==
    ASSUME NEW s, Consistent(s)
    PROVE  LET r == Destroy(Apply(s))
           IN  /\ r.current = InFlightOf(s)
               /\ InFlightOf(r) = InFlightOf(s)
               /\ CommittedOf(r) = CommittedOf(s)
<1> DEFINE r == Destroy(Apply(s))
<1>1. /\ s \in Servers /\ r \in Servers
      /\ r.current = Overwrite(s.current, s.queued_transaction)
      /\ r.queued_transaction = NoTxn
      /\ r.pending_transaction = s.pending_transaction
  BY FinishEffect DEF Consistent
<1> HIDE DEF r
<1>2. r.current = InFlightOf(s)
  BY <1>1 DEF InFlightOf
<1>3. InFlightOf(r) = r.current
  BY <1>1, NoTxnType, LayoutTypes, OverwriteWithNone DEF InFlightOf
<1>4. CommittedOf(r) = CommittedOf(s)
  BY <1>1, <1>2, <1>3 DEF CommittedOf
<1> QED
  BY <1>2, <1>3, <1>4 DEF r

LEMMA CommitPendingLayouts ==
    ASSUME NEW s, Consistent(s), NEW timer \in BOOLEAN
    PROVE  LET r == CommitPending(s, timer)
           IN  /\ CommittedOf(r) = CommittedOf(s)
               /\ Moves(s, r)
               /\ Q(s) = {} => Starts(s, r) \/ Finishes(s, r)
<1> DEFINE r == CommitPending(s, timer)
           c == Committed(s, timer)
           d == Destroy(Apply(c))
<1>1. CASE Q(s) # {}
  <2>1. r = s
    BY <1>1 DEF CommitPending, IsNull, Q
  <2> QED
    BY <1>1, <2>1 DEF Moves, Holds
<1>2. CASE Q(s) = {}
  <2>1. r = c \/ r = d
    BY <1>2 DEF CommitPending, Committed, IsNull, Q
  <2>2. /\ InFlightOf(s) = s.current /\ c.current = s.current
        /\ InFlightOf(c) = CommittedOf(s) /\ CommittedOf(c) = CommittedOf(s)
    BY <1>2, CommitLayouts
  <2>3. Consistent(c)
    BY <1>2, CommitConsistent
  <2> HIDE DEF c
  <2>4. /\ d.current = InFlightOf(c) /\ InFlightOf(d) = InFlightOf(c)
        /\ CommittedOf(d) = CommittedOf(c)
    BY <2>3, FinishLayouts
  <2> HIDE DEF d, r
  <2>5. CASE r = c
    BY <2>2, <2>5 DEF Moves, Starts, r
  <2>6. CASE r = d
    BY <2>2, <2>4, <2>6 DEF Moves, Finishes, r
  <2> QED
    BY <2>1, <2>5, <2>6
<1> QED
  BY <1>1, <1>2

LEMMA ProgressLayouts ==
    ASSUME NEW s, Consistent(s), NEW timer \in BOOLEAN
    PROVE  LET r == Progress(s, timer)
           IN  Moves(s, r) /\ CommittedOf(r) = CommittedOf(s)
<1> DEFINE r == Progress(s, timer)
           d == Destroy(Apply(s))
           c == CommitPending(d, timer)
<1>1. r = s \/ (r = d /\ P(d) = {}) \/ r = c
  BY DEF Progress, IsNull, P
<1>2. /\ d.current = InFlightOf(s) /\ InFlightOf(d) = InFlightOf(s)
      /\ CommittedOf(d) = CommittedOf(s)
  BY FinishLayouts
<1>3. Consistent(d) /\ Q(d) = {}
  BY FinishConsistent
<1> HIDE DEF d
<1>4. (Starts(d, c) \/ Finishes(d, c)) /\ CommittedOf(c) = CommittedOf(d)
  BY <1>3, CommitPendingLayouts
<1> HIDE DEF c, r
<1>5. CASE r = s
  BY <1>5 DEF Moves, Holds, r
<1>6. CASE r = d /\ P(d) = {}
  <2>1. CommittedOf(d) = InFlightOf(d)
    BY <1>3, <1>6, LayoutTypes, OverwriteWithNone DEF CommittedOf, P, Consistent
  <2> QED
    BY <1>2, <1>6, <2>1 DEF Moves, Finishes, r
<1>7. CASE r = c
  BY <1>2, <1>4, <1>7 DEF Moves, Starts, Finishes, r
<1> QED
  BY <1>1, <1>5, <1>6, <1>7

(***************************************************************************)
(* The dirty nodes are committed in their pending states.                  *)
(***************************************************************************)
Latest(s) == \A c \in Containers \ Dirty(s) : CommittedOf(s)[c] = s.pending[c]

LEMMA EnqueuedLayouts ==
    ASSUME NEW s, Consistent(s), NEW server_request \in BOOLEAN
    PROVE  LET r == Enqueued(s, server_request)
           IN  /\ r.current = s.current
               /\ InFlightOf(r) = InFlightOf(s)
               /\ \A n \in Nodes : CommittedOf(r)[n] = IF n \in Dirty(s) THEN s.pending[n]
                                                       ELSE CommittedOf(s)[n]
<1> DEFINE t == AddNodes(s, s.pending_transaction, server_request)
           r == Enqueued(s, server_request)
<1>1. s \in Servers /\ s.pending_transaction \in Transactions
  BY DEF Consistent, Servers
<1>2. /\ r.current = s.current /\ r.queued_transaction = s.queued_transaction
      /\ r.pending_transaction = t
  BY EnqueuedConsistent
<1>3. NodesOf(t) = P(s) \cup Dirty(s)
  BY <1>1, AddNodesType DEF P
<1>4. \A n \in Dirty(s) : t.instructions[n].state = s.pending[n]
  BY <1>1, AddNodesType
<1>5. \A n \in Nodes \ Dirty(s) :
          t.instructions[n] = s.pending_transaction.instructions[n]
  BY <1>1, AddNodesType
<1> HIDE DEF t, r
<1>6. InFlightOf(r) = InFlightOf(s)
  BY <1>2 DEF InFlightOf
<1>7. \A n \in Nodes : CommittedOf(r)[n] = IF n \in NodesOf(t) THEN t.instructions[n].state
                                           ELSE InFlightOf(s)[n]
  BY <1>2, <1>6 DEF CommittedOf, Overwrite
<1>8. \A n \in Nodes : CommittedOf(s)[n] =
          IF n \in P(s) THEN s.pending_transaction.instructions[n].state
          ELSE InFlightOf(s)[n]
  BY DEF CommittedOf, Overwrite, P
<1>9. \A n \in Nodes : CommittedOf(r)[n] = IF n \in Dirty(s) THEN s.pending[n]
                                           ELSE CommittedOf(s)[n]
  BY <1>3, <1>4, <1>5, <1>7, <1>8
<1> QED
  BY <1>2, <1>6, <1>9 DEF r

LEMMA CommitDirtyLayouts ==
    ASSUME NEW s, Consistent(s), AtRest(s), Latest(s),
           NEW server_request \in BOOLEAN, NEW timer \in BOOLEAN
    PROVE  LET r == CommitDirty(s, server_request, timer)
           IN  Moves(s, r) /\ Latest(r)
<1> DEFINE r == CommitDirty(s, server_request, timer)
           e == Enqueued(s, server_request)
<1>1. CASE s.dirty_nodes = << >>
  BY <1>1 DEF CommitDirty, Moves, Holds
<1>2. CASE s.dirty_nodes # << >>
  <2>1. r = CommitPending(e, timer)
    BY <1>2 DEF CommitDirty, Enqueued
  <2>2. Consistent(e) /\ Frees(s, e)
    BY EnqueuedConsistent
  <2>3. /\ e.current = s.current /\ InFlightOf(e) = InFlightOf(s)
        /\ \A n \in Nodes : CommittedOf(e)[n] = IF n \in Dirty(s) THEN s.pending[n]
                                                ELSE CommittedOf(s)[n]
    BY EnqueuedLayouts
  <2> HIDE DEF e
  <2>4. Moves(e, r) /\ CommittedOf(r) = CommittedOf(e)
    BY <2>1, <2>2, CommitPendingLayouts
  <2>5. Frees(s, r) /\ Dirty(r) = {}
    BY CommitDirtyConsistent
  <2> HIDE DEF r
  <2>6. Moves(s, r)
    BY <2>3, <2>4 DEF Moves, Holds, Starts, Finishes
  <2>7. Latest(r)
    BY <2>3, <2>4, <2>5 DEF Latest, Frees, Nodes
  <2> QED
    BY <2>6, <2>7 DEF r
<1> QED
  BY <1>1, <1>2

LEMMA SetInstructionReadyLayouts ==
    ASSUME NEW s, Consistent(s), AtRest(s), NEW n \in s.instruction, NEW timer \in BOOLEAN
    PROVE  LET r == SetInstructionReady(s, n, timer)
           IN  Moves(s, r) /\ CommittedOf(r) = CommittedOf(s)
<1> DEFINE q == s.queued_transaction
           k == IF q.instructions[n].waiting /\ q.num_waiting > 0 THEN q.num_waiting - 1
                ELSE q.num_waiting
           i == [s EXCEPT !.queued_transaction.num_waiting = k, !.instruction = @ \ {n}]
<1>1. SetInstructionReady(s, n, timer) = Progress(i, timer)
  BY DEF SetInstructionReady
<1>2. Consistent(i)
  BY SetInstructionReadyCounts
<1>3. s \in Servers /\ q \in Transactions
  BY DEF Consistent, Servers
<1> HIDE DEF k
<1>4. /\ i.current = s.current /\ i.pending_transaction = s.pending_transaction
      /\ i.queued_transaction = [q EXCEPT !.num_waiting = k]
  BY <1>3 DEF Servers
<1>5. i.queued_transaction.instructions = q.instructions
  BY <1>3, <1>4 DEF Transactions
<1> HIDE DEF i
<1>6. SameLayouts(s, i)
  BY <1>4, <1>5, SameTransactions
<1> DEFINE r == Progress(i, timer)
<1>7. Moves(i, r) /\ CommittedOf(r) = CommittedOf(i)
  BY <1>2, ProgressLayouts
<1> HIDE DEF r
<1> QED
  BY <1>1, <1>6, <1>7, SameMoves DEF SameLayouts, r

-----------------------------------------------------------------------------
(* What handlers do before they commit changes no layout. *)

Ready(s) == Consistent(s) /\ AtRest(s) /\ Latest(s)

LEMMA ReadySame ==
    ASSUME NEW s, NEW r \in Servers, Ready(s), Same(s, r),
           r.pending = s.pending, r.current = s.current
    PROVE  Ready(r) /\ SameLayouts(s, r)
<1>1. Consistent(r) /\ AtRest(r)
  BY SameConsistent DEF Ready
<1>2. SameLayouts(s, r)
  BY SameTransactions DEF Same
<1>3. Latest(r)
  BY <1>2 DEF Latest, Ready, Same, SameLayouts, Dirty
<1> QED
  BY <1>1, <1>2, <1>3 DEF Ready

LEMMA ReadyNodeSetDirty ==
    ASSUME NEW s, Ready(s), NEW n \in Nodes, s.life[n] \in {"live", "destroying"}
    PROVE  LET r == NodeSetDirty(s, n)
           IN  Ready(r) /\ SameLayouts(s, r) /\ r.life = s.life
<1> DEFINE r == NodeSetDirty(s, n)
<1>1. /\ Consistent(r) /\ AtRest(r) /\ Dirty(s) \subseteq Dirty(r)
      /\ r.pending = s.pending /\ r.current = s.current /\ r.life = s.life
      /\ r.queued_transaction = s.queued_transaction
      /\ r.pending_transaction = s.pending_transaction
  BY NodeSetDirtyConsistent, NodeSetDirtyEffect, NodeSetDirtyKeeps DEF Ready, Consistent
<1> HIDE DEF r
<1>2. SameLayouts(s, r)
  BY <1>1, SameTransactions
<1>3. Latest(r)
  BY <1>1, <1>2 DEF Latest, Ready, SameLayouts
<1> QED
  BY <1>1, <1>2, <1>3 DEF Ready, r

LEMMA ReadyModify ==
    ASSUME NEW s, Ready(s), NEW n \in Nodes, NEW b \in NodeState, s.life[n] = "live"
    PROVE  LET r == Modify(s, n, b)
           IN  Ready(r) /\ SameLayouts(s, r) /\ r.life = s.life
<1> DEFINE r == Modify(s, n, b)
           m == [s EXCEPT !.pending[n] = IF IsView(n) THEN b ELSE @]
<1>1. s \in Servers /\ Consistent(s) /\ AtRest(s)
  BY DEF Ready, Consistent
<1>2. /\ Consistent(r) /\ n \in Dirty(r) /\ AtRest(r)
      /\ r.current = s.current /\ r.life = s.life
      /\ r.queued_transaction = s.queued_transaction
      /\ r.pending_transaction = s.pending_transaction
      /\ \A k \in Nodes : r.pending[k] = IF k = n /\ IsView(n) THEN b ELSE s.pending[k]
  BY <1>1, ModifyConsistent, ModifyKeeps
<1>3. Dirty(s) \subseteq Dirty(r)
  <2>1. m \in Servers /\ m.dirty_nodes = s.dirty_nodes
    BY <1>1 DEF Servers
  <2>2. r = NodeSetDirty(m, n)
    BY DEF Modify
  <2> HIDE DEF m
  <2> QED
    BY <2>1, <2>2, NodeSetDirtyEffect DEF Dirty
<1> HIDE DEF r, m
<1>4. SameLayouts(s, r)
  BY <1>2, SameTransactions
<1>5. Latest(r)
  <2> SUFFICES ASSUME NEW c \in Containers \ Dirty(r)
               PROVE  CommittedOf(r)[c] = r.pending[c]
    BY DEF Latest
  <2>1. c # n /\ c \notin Dirty(s) /\ c \in Nodes
    BY <1>2, <1>3 DEF Nodes
  <2>2. r.pending[c] = s.pending[c]
    BY <1>2, <2>1
  <2> QED
    BY <1>4, <2>1, <2>2 DEF Ready, Latest, SameLayouts
<1> QED
  BY <1>2, <1>4, <1>5 DEF Ready, r

LEMMA ReadyBeginDestroy ==
    ASSUME NEW s, Ready(s), NEW n \in Nodes, s.life[n] = "live"
    PROVE  LET r == [NodeSetDirty(s, n) EXCEPT !.life[n] = "destroying"]
           IN  /\ Ready(r) /\ SameLayouts(s, r)
               /\ \A m \in Nodes \ {n} : r.life[m] = s.life[m]
<1> DEFINE d == NodeSetDirty(s, n)
           r == [d EXCEPT !.life[n] = "destroying"]
<1>1. Ready(d) /\ SameLayouts(s, d) /\ d.life = s.life
  BY ReadyNodeSetDirty
<1>2. Consistent(r)
  BY BeginDestroyConsistent DEF Ready
<1> HIDE DEF d
<1>3. /\ r.dirty_nodes = d.dirty_nodes /\ r.pending = d.pending /\ r.current = d.current
      /\ r.queued_transaction = d.queued_transaction
      /\ r.pending_transaction = d.pending_transaction
      /\ \A m \in Nodes \ {n} : r.life[m] = d.life[m]
  BY <1>1 DEF Ready, Consistent, Servers
<1> HIDE DEF r
<1>4. SameLayouts(d, r)
  BY <1>3, SameTransactions
<1>5. AtRest(r)
  BY <1>1, <1>3 DEF Ready, AtRest, Q, P
<1>6. Latest(r)
  BY <1>1, <1>3, <1>4 DEF Ready, Latest, SameLayouts, Dirty
<1>7. SameLayouts(s, r)
  BY <1>1, <1>4 DEF SameLayouts
<1> QED
  BY <1>1, <1>2, <1>3, <1>5, <1>6, <1>7 DEF Ready, r, d

LEMMA ReadyVisible ==
    ASSUME NEW s, Ready(s), NEW visible \in SUBSET Views
    PROVE  LET r == [s EXCEPT !.visible = visible]
           IN  Ready(r) /\ SameLayouts(s, r)
<1> DEFINE r == [s EXCEPT !.visible = visible]
<1>1. /\ r \in Servers /\ Same(s, r) /\ r.pending = s.pending /\ r.current = s.current
  BY DEF Ready, Consistent, Servers, Same
<1> HIDE DEF r
<1> QED
  BY <1>1, ReadySame DEF r

LEMMA ReadyCommits ==
    ASSUME NEW s, Ready(s), NEW server_request \in BOOLEAN, NEW timer \in TimerOutcomes
    PROVE  LET r == CommitDirty(s, server_request, timer)
           IN  Moves(s, r) /\ Ready(r)
<1>1. timer \in BOOLEAN
  BY ConstantsAssumption
<1> DEFINE r == CommitDirty(s, server_request, timer)
<1>2. Moves(s, r) /\ Latest(r)
  BY <1>1, CommitDirtyLayouts DEF Ready
<1>3. Consistent(r) /\ AtRest(r)
  BY <1>1, CommitDirtyConsistent DEF Ready
<1> QED
  BY <1>2, <1>3 DEF Ready

(* A handler that prepared s, then shows or hides views and commits. *)
LEMMA ReadyEnds ==
    ASSUME NEW s, NEW p, Ready(p), SameLayouts(s, p),
           NEW visible \in SUBSET Views, NEW timer \in TimerOutcomes
    PROVE  LET r == CommitDirty([p EXCEPT !.visible = visible], TRUE, timer)
           IN  Moves(s, r) /\ Ready(r)
<1> DEFINE h == [p EXCEPT !.visible = visible]
           r == CommitDirty(h, TRUE, timer)
<1>1. Ready(h) /\ SameLayouts(p, h)
  BY ReadyVisible
<1> HIDE DEF h
<1>2. Moves(h, r) /\ Ready(r)
  BY <1>1, ReadyCommits
<1> HIDE DEF r
<1>3. SameLayouts(s, h)
  BY <1>1 DEF SameLayouts
<1>4. Moves(s, r)
  BY <1>2, <1>3, SameMoves
<1> QED
  BY <1>2, <1>4 DEF r, h

-----------------------------------------------------------------------------
(* The actions. *)

LInv == Inv /\ Latest(server)

LEMMA LInvReady == LInv => Ready(server) /\ server \in Servers
BY DEF LInv, Inv, Ready, Consistent

(* The step of an action: a step of AtomicLayout that leaves Latest true.  *)
Steps == Moves(server, server') /\ Latest(server')

LEMMA RelayoutSteps ==
    ASSUME LInv, NEW n \in Nodes, NEW b \in Boxes, Relayout(n, b)
    PROVE  Steps
<1> DEFINE s == server
           m == Modify(s, n, b)
<1>1. Ready(s) /\ s \in Servers /\ s.life[n] = "live" /\ b \in NodeState
  BY LInvReady, BoxesType DEF Relayout, Live
<1>2. PICK visible \in Visibilities(s), timer \in TimerOutcomes :
          server' = CommitDirty([m EXCEPT !.visible = visible], TRUE, timer)
  BY DEF Relayout
<1>a. visible \in SUBSET Views
  BY <1>1 DEF Visibilities, Servers
<1>3. Ready(m) /\ SameLayouts(s, m)
  BY <1>1, ReadyModify
<1> HIDE DEF m, s
<1>4. Moves(s, server') /\ Ready(server')
  BY <1>2, <1>a, <1>3, ReadyEnds
<1> QED
  BY <1>4 DEF Steps, Ready, s

LEMMA SameSteps ==
    ASSUME NEW s, NEW r, SameLayouts(s, r)
    PROVE  Moves(s, r)
BY DEF SameLayouts, Moves, Holds

LEMMA RelayoutUncommittedSteps ==
    ASSUME LInv, NEW n \in Nodes, NEW b \in Boxes, RelayoutUncommitted(n, b)
    PROVE  Steps
<1> DEFINE m == Modify(server, n, b)
<1>1. Ready(server) /\ server.life[n] = "live" /\ b \in NodeState /\ server' = m
  BY LInvReady, BoxesType DEF RelayoutUncommitted, Live
<1>2. Ready(m) /\ SameLayouts(server, m)
  BY <1>1, ReadyModify
<1> HIDE DEF m
<1> QED
  BY <1>1, <1>2, SameSteps DEF Steps, Ready

LEMMA OtherBeginDestroyUncommittedSteps ==
    ASSUME LInv, NEW o \in Others, OtherBeginDestroyUncommitted(o)
    PROVE  Steps
<1> DEFINE d == [NodeSetDirty(server, o) EXCEPT !.life[o] = "destroying"]
<1>1. Ready(server) /\ server.life[o] = "live" /\ server' = d /\ o \in Nodes
  BY LInvReady DEF OtherBeginDestroyUncommitted, LiveOthers, OtherDestroying, Nodes
<1>2. Ready(d) /\ SameLayouts(server, d)
  BY <1>1, ReadyBeginDestroy
<1> HIDE DEF d
<1> QED
  BY <1>1, <1>2, SameSteps DEF Steps, Ready

LEMMA OtherBeginDestroySteps ==
    ASSUME LInv, NEW o \in Others, OtherBeginDestroy(o)
    PROVE  Steps
<1> DEFINE s == server
           d == [NodeSetDirty(s, o) EXCEPT !.life[o] = "destroying"]
<1>1. Ready(s) /\ s.life[o] = "live" /\ o \in Nodes
  BY LInvReady DEF OtherBeginDestroy, LiveOthers, Nodes
<1>2. PICK timer \in TimerOutcomes : server' = CommitDirty(d, TRUE, timer)
  BY DEF OtherBeginDestroy, OtherDestroying
<1>3. Ready(d) /\ SameLayouts(s, d)
  BY <1>1, ReadyBeginDestroy
<1> HIDE DEF d, s
<1>4. Moves(d, server') /\ Ready(server')
  BY <1>2, <1>3, ReadyCommits
<1> QED
  BY <1>3, <1>4, SameMoves DEF Steps, Ready, s

LEMMA MapSteps ==
    ASSUME LInv, NEW v \in Views, NEW c \in Containers, NEW b \in Boxes,
           NEW o \in Others, Map(v, c, b, o)
    PROVE  Steps
<1> DEFINE s == server
           r == Created(s, v, c, b)
           m == Modify(r, c, b)
           d == NodeSetDirty(m, o)
           S == s.mapped \cup {v}
<1>1. /\ Consistent(s) /\ AtRest(s) /\ Shown(s, s.mapped) /\ Ready(s)
      /\ s.life[c] = "unborn" /\ v \notin s.mapped /\ s.life[o] = "live"
      /\ b \in NodeState /\ c \in Nodes /\ o \in Nodes /\ c # o
  BY LInvReady, BoxesType, ConstantsAssumption DEF LInv, Inv, Map, LiveOthers, Nodes
<1>2. PICK visible \in SUBSET Views, timer \in TimerOutcomes :
          server' = CommitDirty([d EXCEPT !.visible = visible], TRUE, timer)
  BY <1>1 DEF Map, Servers, Consistent
<1>3. r = Created(s, v, c, b) /\ S = s.mapped \cup {v}
  OBVIOUS
<1> HIDE DEF s, r, S
<1>4. /\ Consistent(r) /\ AtRest(r)
      /\ r.dirty_nodes = s.dirty_nodes
      /\ r.queued_transaction = s.queued_transaction
      /\ r.pending_transaction = s.pending_transaction
      /\ r.pending = s.pending /\ r.current = s.current
      /\ \A n \in Nodes : r.life[n] = IF n = c THEN "live" ELSE s.life[n]
  BY <1>1, <1>3, CreatedConsistent
<1>5. SameLayouts(s, r)
  BY <1>4, SameTransactions
<1>6. Ready(r)
  BY <1>1, <1>4, <1>5 DEF Ready, Latest, SameLayouts, Dirty
<1>7. Ready(m) /\ SameLayouts(r, m) /\ m.life = r.life
  BY <1>1, <1>4, <1>6, ReadyModify
<1> HIDE DEF m
<1>8. Ready(d) /\ SameLayouts(m, d)
  BY <1>1, <1>4, <1>7, ReadyNodeSetDirty
<1> HIDE DEF d
<1>9. SameLayouts(s, d)
  BY <1>5, <1>7, <1>8 DEF SameLayouts
<1>10. Moves(s, server') /\ Ready(server')
  BY <1>2, <1>8, <1>9, ReadyEnds
<1> QED
  BY <1>10 DEF Steps, Ready, s

LEMMA UnmapSteps ==
    ASSUME LInv, NEW v \in Views, NEW o \in Others, Unmap(v, o)
    PROVE  Steps
<1> DEFINE s == server
           c == s.container[v]
           begun == [NodeSetDirty(s, c) EXCEPT !.life[c] = "destroying"]
           d == NodeSetDirty(begun, o)
<1>1. /\ Ready(s) /\ v \in s.mapped /\ s.life[o] = "live"
      /\ c \in Nodes /\ s.life[c] = "live" /\ o \in Nodes /\ o # c
  BY LInvReady, ConstantsAssumption
     DEF LInv, Inv, Shown, Unmap, LiveOthers, Nodes
<1>2. PICK timer \in TimerOutcomes :
          server' = [CommitDirty([d EXCEPT !.visible = @ \ {v}], TRUE, timer)
                     EXCEPT !.mapped = @ \ {v}]
  BY DEF Unmap, ContainerBeginDestroy
<1> HIDE DEF s, c
<1>3. Ready(begun) /\ SameLayouts(s, begun) /\ begun.life[o] = s.life[o]
  BY <1>1, ReadyBeginDestroy
<1> HIDE DEF begun
<1>4. Ready(d) /\ SameLayouts(begun, d)
  BY <1>1, <1>3, ReadyNodeSetDirty
<1> HIDE DEF d
<1> DEFINE visible == d.visible \ {v}
           e == CommitDirty([d EXCEPT !.visible = visible], TRUE, timer)
           r == [e EXCEPT !.mapped = @ \ {v}]
<1>5. visible \in SUBSET Views /\ SameLayouts(s, d)
  BY <1>3, <1>4 DEF Ready, Consistent, Servers, SameLayouts
<1>6. server' = r
  BY <1>2
<1> HIDE DEF visible
<1>7. Moves(s, e) /\ Ready(e)
  BY <1>4, <1>5, ReadyEnds
<1> HIDE DEF e
<1>8. /\ r \in Servers /\ Same(e, r) /\ r.pending = e.pending /\ r.current = e.current
  BY <1>7 DEF Ready, Consistent, Servers, Same
<1> HIDE DEF r
<1>9. Ready(r) /\ SameLayouts(e, r)
  BY <1>7, <1>8, ReadySame
<1>10. Moves(s, r)
  BY <1>7, <1>9 DEF Moves, Holds, Starts, Finishes, SameLayouts
<1> QED
  BY <1>6, <1>9, <1>10 DEF Steps, Ready, s

LEMMA ViewBeginDestroySteps ==
    ASSUME LInv, NEW v \in Views, ViewBeginDestroy(v)
    PROVE  Steps
<1> DEFINE life == IF server.container[v] = NULL THEN "freed" ELSE "destroying"
           r == [server EXCEPT !.vlife[v] = life]
<1>1. Ready(server) /\ server \in Servers /\ server' = r
  BY LInvReady DEF ViewBeginDestroy
<1>2. life \in ViewLife
  BY DEF ViewLife
<1> HIDE DEF life
<1>3. r \in Servers /\ Same(server, r) /\ r.pending = server.pending /\ r.current = server.current
  BY <1>1, <1>2 DEF Servers, Same
<1> HIDE DEF r
<1> QED
  BY <1>1, <1>3, ReadySame, SameSteps DEF Steps, Ready

LEMMA AdoptSizeLayouts ==
    ASSUME NEW s, Ready(s), NEW v \in Views, NEW c \in Nodes, c = s.container[v],
           s.life[c] = "live", NEW w \in Widths, NEW timer \in TimerOutcomes
    PROVE  LET r == AdoptSize(s, v, w, timer)
           IN  Moves(s, r) /\ Ready(r)
<1> DEFINE told == IF ToplevelSetSize(s, v, w)
                   THEN [s EXCEPT !.configures[v] = @ + 1, !.configured[v].w = w]
                   ELSE s
           resized == [told EXCEPT !.geometry = Drawn(s, v, w)]
           box == [s.pending[c] EXCEPT !.w = w]
           m == Modify(resized, c, box)
           r == AdoptSize(s, v, w, timer)
<1>1. s \in Servers
  BY DEF Ready, Consistent
<1>2. box \in NodeState
  BY <1>1, BoxesType DEF Servers
<1>3. told \in Servers /\ Same(s, told) /\ told.pending = s.pending /\ told.current = s.current
  <2>1. [s.configured[v] EXCEPT !.w = w] \in NodeState
    BY <1>1, BoxesType DEF Servers
  <2> DEFINE configures == [s.configures EXCEPT ![v] = @ + 1]
             configured == [s.configured EXCEPT ![v] = [s.configured[v] EXCEPT !.w = w]]
             t == [s EXCEPT !.configures = configures, !.configured = configured]
  <2>2. configures \in [Views -> Nat] /\ configured \in [Views -> NodeState]
    BY <1>1, <2>1 DEF Servers
  <2>3. t = [s EXCEPT !.configures[v] = @ + 1, !.configured[v].w = w]
    BY <1>1 DEF Servers
  <2> HIDE DEF configures, configured
  <2>4. t \in Servers /\ Same(s, t) /\ t.pending = s.pending /\ t.current = s.current
    BY <1>1, <2>2 DEF Servers, Same
  <2> QED
    BY <1>1, <2>3, <2>4 DEF Same
<1>4. r = IF AdoptsSize(s, v, w) THEN CommitDirty(m, FALSE, timer) ELSE resized
  BY DEF AdoptSize
<1>5. Drawn(s, v, w) \in [FloatingViews -> Widths \cup {0}]
  BY <1>1 DEF Drawn, Servers
<1> HIDE DEF told, box
<1>6. /\ resized \in Servers /\ Same(s, resized)
      /\ resized.pending = s.pending /\ resized.current = s.current
  BY <1>3, <1>5 DEF Servers, Same
<1> HIDE DEF resized
<1>7. Ready(resized) /\ SameLayouts(s, resized) /\ resized.life[c] = "live"
  BY <1>6, ReadySame DEF Same
<1>8. Ready(m) /\ SameLayouts(resized, m)
  BY <1>2, <1>7, ReadyModify
<1> HIDE DEF m
<1>9. SameLayouts(s, m)
  BY <1>7, <1>8 DEF SameLayouts
<1> DEFINE e == CommitDirty(m, FALSE, timer)
<1>10. Moves(m, e) /\ Ready(e)
  BY <1>8, ReadyCommits
<1> HIDE DEF e
<1>11. Moves(s, e)
  BY <1>9, <1>10, SameMoves
<1>12. r = e \/ r = resized
  BY <1>4 DEF e
<1> HIDE DEF r
<1> QED
  BY <1>7, <1>10, <1>11, <1>12, SameSteps DEF r

LEMMA ClientCommitSteps ==
    ASSUME LInv, NEW v \in Views, NEW k \in 1 .. MaxSerial, NEW w \in Widths,
           ClientCommit(v, k, w)
    PROVE  Steps
<1> DEFINE s == server
           c == s.container[v]
<1>1. Ready(s) /\ c \in Nodes /\ s.life[c] = "live"
  BY LInvReady DEF LInv, Inv, Shown, ClientCommit, Nodes
<1>2. PICK timer \in TimerOutcomes :
          LET a == AdoptSize(s, v, w, timer)
              n == a.container[v]
          IN  server' = IF n \in a.instruction /\ IsReady(a, v, k, w)
                        THEN SetInstructionReady(a, n, timer) ELSE a
  BY DEF ClientCommit
<1> DEFINE a == AdoptSize(s, v, w, timer)
           n == a.container[v]
           r == SetInstructionReady(a, n, timer)
<1>3. server' = a \/ (n \in a.instruction /\ server' = r)
  <2>1. server' = IF n \in a.instruction /\ IsReady(a, v, k, w) THEN r ELSE a
    BY <1>2
  <2> HIDE DEF a, n, r
  <2> QED
    BY <2>1
<1>4. timer \in BOOLEAN
  BY ConstantsAssumption
<1>5. Moves(s, a) /\ Ready(a)
  <2> HIDE DEF s
  <2> QED
    BY <1>1, AdoptSizeLayouts
<1> HIDE DEF a, n
<1>6. CASE server' = a
  BY <1>5, <1>6 DEF Steps, Ready
<1>7. CASE n \in a.instruction /\ server' = r
  <2>1. Moves(a, r) /\ CommittedOf(r) = CommittedOf(a)
    BY <1>4, <1>5, <1>7, SetInstructionReadyLayouts DEF Ready
  <2>2. Dirty(r) = Dirty(a) /\ Frees(a, r)
    BY <1>4, <1>5, <1>7, SetInstructionReadyConsistent DEF Ready
  <2> HIDE DEF r
  <2>3. Moves(s, r)
    BY <1>5, <2>1, MovesTwice
  <2>4. Latest(r)
    BY <1>5, <2>1, <2>2 DEF Latest, Ready, Frees
  <2> QED
    BY <1>7, <2>3, <2>4 DEF Steps
<1> QED
  BY <1>3, <1>6, <1>7

LEMMA FloatingRequestSteps ==
    ASSUME LInv, NEW v \in Views, NEW b \in Boxes, FloatingRequest(v, b)
    PROVE  Steps
<1> DEFINE t == Told(server, v, b)
           c == server.container[v]
           m == Modify(t, c, b)
<1>1. /\ Ready(server) /\ server \in Servers /\ b \in NodeState
      /\ c \in Nodes /\ server.life[c] = "live" /\ server' = m
  BY LInvReady, BoxesType DEF LInv, Inv, Shown, FloatingRequest, Nodes
<1>2. /\ t \in Servers /\ Same(server, t)
      /\ t.pending = server.pending /\ t.current = server.current
  BY <1>1, ToldSame
<1> HIDE DEF t, c
<1>3. Ready(t) /\ SameLayouts(server, t) /\ t.life[c] = "live"
  BY <1>1, <1>2, ReadySame DEF Same
<1>4. Ready(m) /\ SameLayouts(t, m)
  BY <1>1, <1>3, ReadyModify
<1> HIDE DEF m
<1>5. SameLayouts(server, m)
  BY <1>3, <1>4 DEF SameLayouts
<1> QED
  BY <1>1, <1>4, <1>5, SameSteps DEF Steps, Ready

LEMMA TiledRequestSteps ==
    ASSUME LInv, NEW v \in Views, TiledRequest(v)
    PROVE  Steps
<1> DEFINE b == server.current[server.container[v]]
           t == Told(server, v, b)
<1>1. /\ Ready(server) /\ server \in Servers /\ b \in NodeState
      /\ server' = t
  BY LInvReady DEF LInv, Inv, Shown, TiledRequest, Servers, Nodes
<1> HIDE DEF b
<1>2. /\ t \in Servers /\ Same(server, t)
      /\ t.pending = server.pending /\ t.current = server.current
  BY <1>1, ToldSame
<1> HIDE DEF t
<1>3. Ready(t) /\ SameLayouts(server, t)
  BY <1>1, <1>2, ReadySame
<1> QED
  BY <1>1, <1>3, SameSteps DEF Steps, Ready

LEMMA TimeoutSteps ==
    ASSUME LInv, Timeout
    PROVE  Steps
<1> DEFINE i == [server EXCEPT !.queued_transaction.num_waiting = 0]
           q == server.queued_transaction
<1>1. PICK timer \in TimerOutcomes : server' = Progress(i, timer)
  BY DEF Timeout
<1>2. /\ server \in Servers /\ q \in Transactions /\ timer \in BOOLEAN
      /\ Ready(server)
  BY LInvReady, ConstantsAssumption DEF Servers
<1>3. i.queued_transaction = [q EXCEPT !.num_waiting = 0]
  BY <1>2 DEF Servers
<1>4. /\ i.queued_transaction.instructions = q.instructions
      /\ i.pending_transaction = server.pending_transaction
      /\ i.current = server.current /\ i.pending = server.pending
      /\ i.dirty_nodes = server.dirty_nodes
  BY <1>2, <1>3 DEF Servers, Transactions
<1>5. P(i) # {} => Q(i) # {}
  BY <1>2, TimedOutConsistent DEF Ready
<1>6. Consistent(i)
  BY <1>2, TimedOutConsistent DEF Ready
<1> HIDE DEF i
<1>7. SameLayouts(server, i)
  BY <1>4, SameTransactions
<1> DEFINE r == Progress(i, timer)
<1>8. Moves(i, r) /\ CommittedOf(r) = CommittedOf(i)
  BY <1>2, <1>6, ProgressLayouts
<1>9. Dirty(r) = Dirty(i) /\ Frees(i, r)
  BY <1>2, <1>5, <1>6, ProgressConsistent
<1> HIDE DEF r
<1>10. Moves(server, r)
  BY <1>7, <1>8, SameMoves
<1>11. Latest(r)
  BY <1>2, <1>4, <1>7, <1>8, <1>9 DEF Latest, Ready, Frees, SameLayouts, Dirty
<1> QED
  BY <1>1, <1>10, <1>11 DEF Steps, r

-----------------------------------------------------------------------------
LEMMA InitLInv == Init => LInv
<1> SUFFICES ASSUME Init PROVE LInv
  OBVIOUS
<1>1. /\ server.current = [n \in Nodes |-> NoBox] /\ server.pending = [n \in Nodes |-> NoBox]
      /\ server.queued_transaction = NoTxn /\ server.pending_transaction = NoTxn
  BY DEF Init
<1>2. Inv /\ server \in Servers
  BY InitInv DEF Inv, Consistent
<1>3. InFlightOf(server) = server.current
  BY <1>1, <1>2, LayoutTypes, NoTxnType, OverwriteWithNone DEF InFlightOf
<1>4. CommittedOf(server) = server.current
  BY <1>1, <1>2, <1>3, LayoutTypes, NoTxnType, OverwriteWithNone DEF CommittedOf
<1> QED
  BY <1>1, <1>2, <1>4 DEF LInv, Latest, Nodes

LEMMA NextSteps == LInv /\ [Next]_vars => Steps
<1> SUFFICES ASSUME LInv, [Next]_vars PROVE Steps
  OBVIOUS
<1>1. ASSUME NEW n \in Nodes, NEW b \in Boxes, Relayout(n, b) PROVE Steps
  BY <1>1, RelayoutSteps
<1>2. ASSUME NEW n \in Nodes, NEW b \in Boxes, RelayoutUncommitted(n, b) PROVE Steps
  BY <1>2, RelayoutUncommittedSteps
<1>3. ASSUME NEW o \in Others, OtherBeginDestroyUncommitted(o) PROVE Steps
  BY <1>3, OtherBeginDestroyUncommittedSteps
<1>4. ASSUME NEW v \in Views, NEW c \in Containers, NEW b \in Boxes, NEW o \in Others,
             Map(v, c, b, o)
      PROVE  Steps
  BY <1>4, MapSteps
<1>5. ASSUME NEW v \in Views, NEW o \in Others, Unmap(v, o) PROVE Steps
  BY <1>5, UnmapSteps
<1>6. ASSUME NEW v \in Views, ViewBeginDestroy(v) PROVE Steps
  BY <1>6, ViewBeginDestroySteps
<1>7. ASSUME NEW o \in Others, OtherBeginDestroy(o) PROVE Steps
  BY <1>7, OtherBeginDestroySteps
<1>8. ASSUME NEW v \in Views, NEW k \in 1 .. MaxSerial, NEW w \in Widths,
             ClientCommit(v, k, w)
      PROVE  Steps
  BY <1>8, ClientCommitSteps
<1>9. ASSUME NEW v \in Views, NEW b \in Boxes, FloatingRequest(v, b) PROVE Steps
  BY <1>9, FloatingRequestSteps
<1>10. ASSUME NEW v \in Views, TiledRequest(v) PROVE Steps
  BY <1>10, TiledRequestSteps
<1>11. CASE Timeout
  BY <1>11, TimeoutSteps
<1>12. CASE UNCHANGED vars
  BY <1>12 DEF vars, Steps, Moves, Holds, LInv
<1> QED
  BY <1>1, <1>2, <1>3, <1>4, <1>5, <1>6, <1>7, <1>8, <1>9, <1>10, <1>11, <1>12 DEF Next

LEMMA LInvariance == Spec => []LInv
<1>1. LInv /\ [Next]_vars => LInv'
  BY NextSteps, NextInv DEF LInv, Steps, Latest
<1> QED
  BY <1>1, InitLInv, PTL DEF Spec

(***************************************************************************)
(* Merging commits into a pending transaction, in whatever order commits,  *)
(* answers and timeouts come, never brings back an older state of a node.  *)
(***************************************************************************)
THEOREM CommittedIsLatestCorrect == Spec => []CommittedIsLatest
<1>1. LInv => CommittedIsLatest
  BY DEF LInv, Latest, CommittedIsLatest, CommittedOf, InFlightOf, InFlight
<1> QED
  BY <1>1, LInvariance, PTL

(***************************************************************************)
(* The screen only ever shows whole layouts: every action of the           *)
(* compositor is a step of AtomicLayout or leaves the layouts alone.       *)
(***************************************************************************)
THEOREM Refinement == Spec => AtomicUpdates
<1>1. /\ InFlight = InFlightOf(server)
      /\ Overwrite(InFlight, server.pending_transaction) = CommittedOf(server)
  BY DEF InFlight, InFlightOf, CommittedOf
<1>2. Init => Atomic!Init
  <2> SUFFICES ASSUME Init PROVE Atomic!Init
    OBVIOUS
  <2>1. /\ server \in Servers
        /\ server.queued_transaction = NoTxn /\ server.pending_transaction = NoTxn
    BY InitInv DEF Init, Inv, Consistent
  <2>2. InFlightOf(server) = server.current
    BY <2>1, LayoutTypes, NoTxnType, OverwriteWithNone DEF InFlightOf
  <2>3. CommittedOf(server) = server.current
    BY <2>1, <2>2, LayoutTypes, NoTxnType, OverwriteWithNone DEF CommittedOf
  <2> QED
    BY <1>1, <2>1, <2>2, <2>3, LayoutTypes DEF Atomic!Init, Atomic!Layouts
<1>3. LInv /\ LInv' /\ [Next]_vars
        => [Atomic!Next]_<<Overwrite(InFlight, server.pending_transaction),
                           InFlight, server.current>>
  <2> SUFFICES ASSUME LInv, LInv', [Next]_vars
               PROVE  Atomic!Next
    OBVIOUS
  <2>1. Moves(server, server')
    BY NextSteps DEF Steps
  <2>2. CommittedOf(server') \in [Nodes -> NodeState]
    BY LayoutTypes DEF LInv, Inv, Consistent
  <2>3. /\ InFlight' = InFlightOf(server')
        /\ Overwrite(InFlight, server.pending_transaction)' = CommittedOf(server')
    BY DEF InFlight, InFlightOf, CommittedOf
  <2> QED
    BY <1>1, <2>1, <2>2, <2>3 DEF Moves, Holds, Starts, Finishes,
       Atomic!Next, Atomic!Layouts, Atomic!Hold, Atomic!Start, Atomic!Finish
<1> QED
  BY <1>2, <1>3, LInvariance, PTL DEF Spec, AtomicUpdates, Atomic!Spec
=============================================================================
