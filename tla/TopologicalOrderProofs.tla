----------------------- MODULE TopologicalOrderProofs -----------------------
(***************************************************************************)
(* Partial correctness of the loop of _topological_order, for definitions  *)
(* of every size: the counts it keeps are right, and the order it builds   *)
(* respects the edges and is the least that does. The invariant is about   *)
(* the set of placed nodes; Append adds one node to it and changes no      *)
(* earlier position.                                                       *)
(***************************************************************************)
EXTENDS TopologicalOrder, FiniteSetTheorems, TLAPS

\* The inductive invariant.  Its third part makes the second inductive: a node is
\* placed only after its sources, so no placed node is released again.
Inv == TypeOK /\ CountsAreRight /\ RespectsEdges

\* Appending to a sequence adds one element and moves none.
LEMMA AppendKeeps ==
    ASSUME NEW S, NEW s \in Seq(S), NEW e \in S
    PROVE  /\ Append(s, e) \in Seq(S)
           /\ Len(Append(s, e)) = Len(s) + 1
           /\ Len(s) \in Nat
           /\ \A i \in 1..Len(s) : Append(s, e)[i] = s[i]
           /\ Append(s, e)[Len(s) + 1] = e
  OBVIOUS

\* The nodes of a definition, and any set of them, can be counted.
LEMMA NodesFinite ==
    ASSUME NEW S, S \subseteq Nodes
    PROVE  IsFiniteSet(S) /\ Cardinality(S) \in Nat
  <1>1. IsFiniteSet(Nodes)
    BY NodeCountAssumption, FS_Interval DEF Nodes
  <1> QED
    BY <1>1, FS_Subset, FS_CardinalityType

\* The invariant holds before the first turn of the loop.
LEMMA InitInv == Init => Inv
  <1> SUFFICES ASSUME Init PROVE Inv
    OBVIOUS
  <1>1. Placed = {}
    BY DEF Init, Placed
  <1>2. \A n \in Nodes : Sources(n) \subseteq Nodes
    BY DEF Sources
  <1>3. indegree \in [Nodes -> Nat]
    BY <1>2, NodesFinite DEF Init, Indegrees
  <1>4. TypeOK
    BY <1>3 DEF Init, TypeOK
  <1>5. CountsAreRight
    <2>1. \A n \in Nodes : indegree[n] = Cardinality(Sources(n) \ Placed)
      <3> SUFFICES ASSUME NEW n \in Nodes PROVE indegree[n] = Cardinality(Sources(n) \ Placed)
        OBVIOUS
      <3>1. Sources(n) \ Placed = Sources(n)
        BY <1>1
      <3> QED
        BY <3>1 DEF Init, Indegrees
    <2>2. queue = {n \in Nodes \ Placed : indegree[n] = 0}
      BY <1>1 DEF Init
    <2> QED
      BY <2>1, <2>2 DEF CountsAreRight
  <1>6. RespectsEdges
    BY DEF Init, RespectsEdges
  <1> QED
    BY <1>4, <1>5, <1>6 DEF Inv

\* A turn of the loop places the head of the queue: it is new, and its sources are
\* placed.
LEMMA HeadIsReady ==
    ASSUME Inv, NEW n \in queue
    PROVE  n \in Nodes /\ n \notin Placed /\ indegree[n] = 0 /\ Sources(n) \subseteq Placed
  <1>1. n \in Nodes /\ n \notin Placed /\ indegree[n] = 0
    BY DEF Inv, CountsAreRight
  <1>2. Cardinality(Sources(n) \ Placed) = 0
    BY <1>1 DEF Inv, CountsAreRight
  <1>3. IsFiniteSet(Sources(n) \ Placed)
    BY NodesFinite DEF Sources
  <1>4. Sources(n) \ Placed = {}
    BY <1>2, <1>3, FS_EmptySet
  <1> QED
    BY <1>1, <1>4

\* The sources of every placed node are placed.
LEMMA PlacedClosed ==
    ASSUME Inv, NEW m \in Placed
    PROVE  Sources(m) \subseteq Placed
  <1>1. PICK i \in 1..Len(ordered) : m = ordered[i]
    BY DEF Placed
  <1>2. Sources(m) \subseteq {ordered[k] : k \in 1..(i - 1)}
    BY <1>1 DEF Inv, RespectsEdges
  <1>3. Len(ordered) \in Nat
    BY DEF Inv, TypeOK
  <1>4. 1..(i - 1) \subseteq 1..Len(ordered)
    BY <1>3
  <1> QED
    BY <1>2, <1>4 DEF Placed

\* One turn of the loop keeps the invariant.
LEMMA PopInv == Inv /\ Pop => Inv'
  <1> SUFFICES ASSUME Inv, Pop PROVE Inv'
    OBVIOUS
  <1>1. PICK n \in queue :
          /\ ordered' = Append(ordered, n)
          /\ indegree' = [m \in Nodes |-> IF m \in Targets(n) THEN indegree[m] - 1 ELSE indegree[m]]
          /\ queue' = (queue \ {n}) \union Released(n)
          /\ UNCHANGED <<edges, outcome>>
    BY DEF Pop
  <1>2. n \in Nodes /\ n \notin Placed /\ indegree[n] = 0 /\ Sources(n) \subseteq Placed
    BY HeadIsReady
  <1>3. ordered \in Seq(Nodes) /\ indegree \in [Nodes -> Nat] /\ edges \subseteq Nodes \X Nodes
    BY DEF Inv, TypeOK
  <1>4. /\ ordered' \in Seq(Nodes)
        /\ Len(ordered') = Len(ordered) + 1
        /\ Len(ordered) \in Nat
        /\ \A i \in 1..Len(ordered) : ordered'[i] = ordered[i]
        /\ ordered'[Len(ordered) + 1] = n
    BY <1>1, <1>2, <1>3, AppendKeeps
  <1>5. Placed' = Placed \union {n}
    BY <1>4 DEF Placed
  <1>6. \A m \in Nodes : Sources(m)' = Sources(m)
    BY <1>1 DEF Sources
  <1>7. \A m \in Nodes : m \in Targets(n) <=> n \in Sources(m)
    BY <1>2 DEF Targets, Sources
  <1>8. \A m \in Nodes : indegree'[m] \in Nat /\ indegree'[m] = Cardinality(Sources(m) \ Placed')
    <2> SUFFICES ASSUME NEW m \in Nodes
                 PROVE  indegree'[m] \in Nat /\ indegree'[m] = Cardinality(Sources(m) \ Placed')
      OBVIOUS
    <2>1. indegree[m] = Cardinality(Sources(m) \ Placed) /\ indegree[m] \in Nat
      BY <1>3 DEF Inv, CountsAreRight
    <2>2. CASE m \in Targets(n)
      <3>1. n \in Sources(m) \ Placed
        BY <1>2, <1>7, <2>2
      <3>2. IsFiniteSet(Sources(m) \ Placed)
        BY NodesFinite DEF Sources
      <3>3. Sources(m) \ Placed' = (Sources(m) \ Placed) \ {n}
        BY <1>5
      <3>4. /\ IsFiniteSet((Sources(m) \ Placed) \ {n})
            /\ Cardinality((Sources(m) \ Placed) \ {n}) = Cardinality(Sources(m) \ Placed) - 1
        BY <3>1, <3>2, FS_RemoveElement
      <3>5. Cardinality((Sources(m) \ Placed) \ {n}) \in Nat
        BY <3>4, FS_CardinalityType
      <3>6. indegree'[m] = indegree[m] - 1
        BY <1>1, <2>2
      <3> QED
        BY <2>1, <3>3, <3>4, <3>5, <3>6
    <2>3. CASE m \notin Targets(n)
      <3>1. Sources(m) \ Placed' = Sources(m) \ Placed
        BY <1>5, <1>7, <2>3
      <3>2. indegree'[m] = indegree[m]
        BY <1>1, <2>3
      <3> QED
        BY <2>1, <3>1, <3>2
    <2> QED
      BY <2>2, <2>3
  <1>9. queue' = {m \in Nodes \ Placed' : indegree'[m] = 0}
    <2>1. queue = {m \in Nodes \ Placed : indegree[m] = 0}
      BY DEF Inv, CountsAreRight
    <2>2. n \notin Targets(n)
      BY <1>2, <1>7
    <2>3. \A m \in Targets(n) : m \in Nodes /\ m \notin Placed
      <3> SUFFICES ASSUME NEW m \in Targets(n) PROVE m \in Nodes /\ m \notin Placed
        OBVIOUS
      <3>1. m \in Nodes /\ n \in Sources(m)
        BY <1>7 DEF Targets
      <3> QED
        BY <1>2, <3>1, PlacedClosed
    <2>4. \A m \in Targets(n) : indegree'[m] = 0 <=> indegree[m] = 1
      BY <1>1, <1>3, <2>3
    <2>5. \A m \in Targets(n) : m \notin queue
      <3> SUFFICES ASSUME NEW m \in Targets(n), m \in queue PROVE FALSE
        OBVIOUS
      <3>1. Sources(m) \subseteq Placed
        BY HeadIsReady
      <3> QED
        BY <1>2, <1>7, <2>3, <3>1
    <2>6. \A m \in Nodes \ Targets(n) : indegree'[m] = indegree[m]
      BY <1>1
    <2>7. Released(n) = {m \in Targets(n) : indegree'[m] = 0}
      BY <2>4 DEF Released
    <2> QED
      BY <1>1, <1>2, <1>5, <2>1, <2>2, <2>3, <2>5, <2>6, <2>7
  <1>10. TypeOK'
    <2>1. indegree' \in [Nodes -> Nat]
      BY <1>1, <1>8
    <2> QED
      BY <1>1, <1>3, <1>4, <1>9, <2>1 DEF Inv, TypeOK
  <1>11. CountsAreRight'
    BY <1>6, <1>8, <1>9 DEF CountsAreRight
  <1>12. RespectsEdges'
    <2> SUFFICES ASSUME NEW i \in 1..Len(ordered')
                 PROVE  /\ (Sources(ordered[i]))' \subseteq {ordered'[k] : k \in 1..(i - 1)}
                        /\ ordered'[i] \notin {ordered'[k] : k \in 1..(i - 1)}
      BY DEF RespectsEdges
    <2>1. CASE i \in 1..Len(ordered)
      <3>1. /\ Sources(ordered[i]) \subseteq {ordered[k] : k \in 1..(i - 1)}
            /\ ordered[i] \notin {ordered[k] : k \in 1..(i - 1)}
        BY <2>1 DEF Inv, RespectsEdges
      <3>2. \A k \in 1..(i - 1) : k \in 1..Len(ordered)
        BY <1>4, <2>1
      <3>3. ordered'[i] = ordered[i] /\ \A k \in 1..(i - 1) : ordered'[k] = ordered[k]
        BY <1>4, <2>1, <3>2
      <3>4. (Sources(ordered[i]))' = Sources(ordered[i])
        BY <1>1, <3>3 DEF Sources
      <3> QED
        BY <3>1, <3>3, <3>4
    <2>2. CASE i = Len(ordered) + 1
      <3>1. {ordered'[k] : k \in 1..(i - 1)} = Placed
        BY <1>4, <2>2 DEF Placed
      <3>2. ordered'[i] = n
        BY <1>4, <2>2
      <3>3. (Sources(ordered[i]))' = Sources(n)
        BY <1>1, <3>2 DEF Sources
      <3> QED
        BY <1>2, <3>1, <3>2, <3>3
    <2> QED
      BY <1>4, <2>1, <2>2
  <1> QED
    BY <1>10, <1>11, <1>12 DEF Inv

\* Every step keeps the invariant; leaving the loop changes only the outcome.
LEMMA NextInv == Inv /\ [Next]_vars => Inv'
  <1> SUFFICES ASSUME Inv, [Next]_vars PROVE Inv'
    OBVIOUS
  <1>1. CASE Pop
    BY <1>1, PopInv
  <1>2. CASE Finish
    <2>1. UNCHANGED <<edges, indegree, queue, ordered>> /\ outcome' \in {"ordered", "cycle"}
      BY <1>2 DEF Finish
    <2> QED
      BY <2>1 DEF Inv, TypeOK, CountsAreRight, RespectsEdges, Sources, Placed
  <1>3. CASE UNCHANGED vars
    BY <1>3 DEF vars, Inv, TypeOK, CountsAreRight, RespectsEdges, Sources, Placed
  <1> QED
    BY <1>1, <1>2, <1>3 DEF Next

\* The counts of the loop are right and the order respects the edges, always.
THEOREM Invariance == Spec => []Inv
  BY InitInv, NextInv, PTL DEF Spec

\* Type correctness: no indegree becomes negative, whatever the graph.
THEOREM TypeCorrect == Spec => []TypeOK
  <1>1. Inv => TypeOK
    BY DEF Inv
  <1> QED
    BY Invariance, <1>1, PTL

\* A workflow node never runs before one that feeds it: _topological_order places
\* every node after its sources, and so none twice.
THEOREM OrderRespectsEdges == Spec => []RespectsEdges
  <1>1. Inv => RespectsEdges
    BY DEF Inv
  <1> QED
    BY Invariance, <1>1, PTL

\* The indegrees count the sources that are still to come, and the queue is the
\* set of nodes that wait for none.
THEOREM LoopCountsAreRight == Spec => []CountsAreRight
  <1>1. Inv => CountsAreRight
    BY DEF Inv
  <1> QED
    BY Invariance, <1>1, PTL


-----------------------------------------------------------------------------
(* Which definitions are rejected                                           *)

\* A set of nodes that all have a source in the set.
Trap(S) == S \subseteq Nodes /\ \A n \in S : Sources(n) \intersect S # {}

\* No node of a trap is ever placed; the length counts the placed nodes; and the
\* loop ends with an empty queue.
EndInv ==
    /\ Inv
    /\ \A S \in SUBSET Nodes : Trap(S) => S \intersect Placed = {}
    /\ Cardinality(Placed) = Len(ordered)
    /\ outcome # "running" => queue = {}
    /\ outcome = "ordered" => Len(ordered) = NodeCount
    /\ outcome = "cycle" => Len(ordered) # NodeCount

\* Placed nodes are nodes of the definition.
LEMMA PlacedAreNodes == TypeOK => Placed \subseteq Nodes
  <1> SUFFICES ASSUME TypeOK, NEW i \in 1..Len(ordered) PROVE ordered[i] \in Nodes
    BY DEF Placed
  <1>1. ordered \in Seq(Nodes)
    BY DEF TypeOK
  <1> QED
    BY <1>1

\* Nothing is placed at first.
LEMMA EndInit == Init => EndInv
  <1> SUFFICES ASSUME Init PROVE EndInv
    OBVIOUS
  <1>1. Placed = {} /\ Len(ordered) = 0
    BY DEF Init, Placed
  <1>2. Cardinality(Placed) = 0
    BY <1>1, FS_EmptySet
  <1> QED
    BY <1>1, <1>2, InitInv DEF Init, EndInv

\* A turn of the loop places one more node, and none of a trap.
LEMMA EndPop == EndInv /\ Pop => EndInv'
  <1> SUFFICES ASSUME EndInv, Pop PROVE EndInv'
    OBVIOUS
  <1>1. Inv /\ Inv'
    BY PopInv DEF EndInv
  <1>2. PICK n \in queue : ordered' = Append(ordered, n) /\ UNCHANGED <<edges, outcome>>
    BY DEF Pop
  <1>3. n \in Nodes /\ n \notin Placed /\ Sources(n) \subseteq Placed
    BY <1>1, HeadIsReady
  <1>4. ordered \in Seq(Nodes)
    BY <1>1 DEF Inv, TypeOK
  <1>5. /\ Len(ordered') = Len(ordered) + 1
        /\ Len(ordered) \in Nat
        /\ \A i \in 1..Len(ordered) : ordered'[i] = ordered[i]
        /\ ordered'[Len(ordered) + 1] = n
    BY <1>2, <1>3, <1>4, AppendKeeps
  <1>6. Placed' = Placed \union {n}
    BY <1>5 DEF Placed
  <1>7. Cardinality(Placed') = Len(ordered')
    <2>1. IsFiniteSet(Placed)
      BY <1>1, PlacedAreNodes, NodesFinite DEF Inv
    <2>2. Cardinality(Placed \union {n}) = Cardinality(Placed) + 1
      BY <1>3, <2>1, FS_AddElement
    <2> QED
      BY <1>5, <1>6, <2>2 DEF EndInv
  <1>8. \A S \in SUBSET Nodes : Trap(S)' => S \intersect Placed' = {}
    <2> SUFFICES ASSUME NEW S \in SUBSET Nodes, Trap(S)' PROVE S \intersect Placed' = {}
      OBVIOUS
    <2>1. Trap(S)
      BY <1>2 DEF Trap, Sources
    <2>2. S \intersect Placed = {}
      BY <2>1 DEF EndInv
    <2>3. n \notin S
      BY <1>3, <2>1, <2>2 DEF Trap
    <2> QED
      BY <1>6, <2>2, <2>3
  <1>9. outcome = "running" /\ outcome' = "running"
    BY <1>2 DEF EndInv, Inv, TypeOK
  <1> QED
    BY <1>1, <1>7, <1>8, <1>9 DEF EndInv

\* Leaving the loop, and staying where it ended, keep the invariant.
LEMMA EndNext == EndInv /\ [Next]_vars => EndInv'
  <1> SUFFICES ASSUME EndInv, [Next]_vars PROVE EndInv'
    OBVIOUS
  <1>1. CASE Pop
    BY <1>1, EndPop
  <1>2. CASE Finish
    <2>1. /\ UNCHANGED <<edges, indegree, queue, ordered>>
          /\ queue = {}
          /\ outcome' = IF Len(ordered) = NodeCount THEN "ordered" ELSE "cycle"
      BY <1>2 DEF Finish
    <2>2. Placed' = Placed
      BY <2>1 DEF Placed
    <2>3. \A S \in SUBSET Nodes : Trap(S)' => Trap(S)
      BY <2>1 DEF Trap, Sources
    <2>4. Inv'
      BY <1>2, NextInv DEF EndInv, Next
    <2> QED
      BY <2>1, <2>2, <2>3, <2>4 DEF EndInv
  <1>3. CASE UNCHANGED vars
    <2>1. UNCHANGED <<edges, indegree, queue, ordered, outcome>>
      BY <1>3 DEF vars
    <2>2. Placed' = Placed
      BY <2>1 DEF Placed
    <2>3. \A S \in SUBSET Nodes : Trap(S)' => Trap(S)
      BY <2>1 DEF Trap, Sources
    <2>4. Inv'
      BY NextInv DEF EndInv
    <2> QED
      BY <2>1, <2>2, <2>3, <2>4 DEF EndInv
  <1> QED
    BY <1>1, <1>2, <1>3 DEF Next

\* When all nodes are placed no trap is left; when the loop ends before that, the
\* nodes that are left are a trap.
LEMMA EndDecides == EndInv => RejectsExactlyCycles
  <1> SUFFICES ASSUME EndInv PROVE RejectsExactlyCycles
    OBVIOUS
  <1>1. TypeOK /\ Placed \subseteq Nodes /\ Len(ordered) \in Nat
    BY PlacedAreNodes DEF EndInv, Inv, TypeOK
  <1>2. IsFiniteSet(Nodes) /\ IsFiniteSet(Placed) /\ Cardinality(Nodes) = NodeCount
    <2>1. Nodes = 1..NodeCount /\ NodeCount \in Nat /\ 1 \in Int /\ NodeCount \in Int
      BY NodeCountAssumption DEF Nodes
    <2>2. Cardinality(1..NodeCount) = NodeCount
      BY <2>1, FS_Interval
    <2>3. IsFiniteSet(Nodes)
      BY NodesFinite
    <2>4. IsFiniteSet(Placed)
      BY <1>1, <2>3, FS_Subset
    <2> QED
      BY <2>1, <2>2, <2>3, <2>4
  <1>3. ASSUME outcome = "ordered" PROVE ~Cyclic
    <2>1. Cardinality(Placed) = Cardinality(Nodes)
      BY <1>2, <1>3 DEF EndInv
    <2>2. Placed = Nodes
      BY <1>1, <1>2, <2>1, FS_Subset
    <2> SUFFICES ASSUME NEW S \in SUBSET Nodes, S # {},
                        \A n \in S : Sources(n) \intersect S # {}
                 PROVE  FALSE
      BY DEF Cyclic
    <2>3. Trap(S)
      BY DEF Trap
    <2> QED
      BY <2>2, <2>3 DEF EndInv
  <1>4. ASSUME outcome = "cycle" PROVE Cyclic
    <2> DEFINE Left == Nodes \ Placed
    <2>1. Left # {}
      <3> SUFFICES ASSUME Left = {} PROVE FALSE
        OBVIOUS
      <3>1. Placed = Nodes
        BY <1>1
      <3> QED
        BY <1>2, <1>4, <3>1 DEF EndInv
    <2>2. ASSUME NEW n \in Left PROVE Sources(n) \intersect Left # {}
      <3>1. queue = {}
        BY <1>4 DEF EndInv
      <3>2. indegree[n] # 0 /\ indegree[n] = Cardinality(Sources(n) \ Placed)
        BY <3>1 DEF EndInv, Inv, CountsAreRight
      <3>3. Sources(n) \ Placed # {}
        BY <3>2, FS_EmptySet
      <3> QED
        BY <3>3 DEF Sources
    <2> QED
      BY <2>1, <2>2 DEF Cyclic
  <1> QED
    BY <1>3, <1>4 DEF RejectsExactlyCycles

\* _validate_definition accepts a definition, of any size, exactly when its edges
\* have no cycle.
THEOREM CyclesAreRejected == Spec => []RejectsExactlyCycles
  BY EndInit, EndNext, EndDecides, PTL DEF Spec

-----------------------------------------------------------------------------
(* Which of the possible orders is chosen                                   *)

\* The part that is ordered so far is least: an order that agrees with it up to a
\* position does not have a smaller node there.
LeastSoFar ==
    \A f \in Orders : \A i \in 1..Len(ordered) :
        (\A k \in 1..(i - 1) : ordered[k] = f[k]) => ordered[i] <= f[i]

\* An order has every node at some position.
LEMMA OrdersPlaceAll ==
    ASSUME NEW f \in Orders, NEW m \in Nodes
    PROVE  \E j \in Nodes : f[j] = m
  <1>1. f \in Injection(Nodes, Nodes)
    BY DEF Orders, Injection, IsInjective
  <1>2. IsFiniteSet(Nodes)
    BY NodesFinite
  <1>3. f \in Surjection(Nodes, Nodes)
    BY <1>1, <1>2, FS_Injection
  <1> QED
    BY <1>3 DEF Surjection

\* An order that agrees with all that is placed goes on with a node of the queue:
\* its next node has no source but among the nodes before it.
LEMMA NextIsQueued ==
    ASSUME Inv, NEW f \in Orders, NEW i \in Nodes, i = Len(ordered) + 1,
           \A k \in 1..(i - 1) : ordered[k] = f[k]
    PROVE  f[i] \in queue
  <1>1. /\ f \in [Nodes -> Nodes]
        /\ \A m, n \in Nodes : f[m] = f[n] => m = n
        /\ \A j, k \in Nodes : <<f[j], f[k]>> \in edges => j < k
    BY DEF Orders
  <1>2. i \in Nat /\ Len(ordered) \in Nat /\ 1..(i - 1) \subseteq Nodes /\ Nodes \subseteq Nat
    BY NodeCountAssumption DEF Inv, TypeOK, Nodes
  <1>3. Placed = {f[k] : k \in 1..(i - 1)}
    BY <1>2 DEF Placed
  <1>4. f[i] \in Nodes /\ f[i] \notin Placed
    <2>1. ASSUME NEW k \in 1..(i - 1) PROVE f[k] # f[i]
      BY <1>1, <1>2
    <2> QED
      BY <1>1, <1>3, <2>1
  <1>5. Sources(f[i]) \subseteq Placed
    <2> SUFFICES ASSUME NEW m \in Sources(f[i]) PROVE m \in Placed
      OBVIOUS
    <2>1. m \in Nodes /\ <<m, f[i]>> \in edges
      BY DEF Sources
    <2>2. PICK j \in Nodes : f[j] = m
      BY <2>1, OrdersPlaceAll
    <2>3. j < i
      BY <1>1, <2>1, <2>2
    <2>4. j \in 1..(i - 1)
      BY <1>2, <2>3 DEF Nodes
    <2> QED
      BY <1>3, <2>2, <2>4
  <1>6. indegree[f[i]] = 0
    <2>1. Sources(f[i]) \ Placed = {}
      BY <1>5
    <2> QED
      BY <1>4, <2>1, FS_EmptySet DEF Inv, CountsAreRight
  <1> QED
    BY <1>4, <1>6 DEF Inv, CountsAreRight

\* A turn of the loop takes the least node of the queue, so it keeps the order least.
LEMMA LeastPop == EndInv /\ LeastSoFar /\ Pop => LeastSoFar'
  <1> SUFFICES ASSUME EndInv, LeastSoFar, Pop PROVE LeastSoFar'
    OBVIOUS
  <1> Inv
    BY DEF EndInv
  <1>1. PICK n \in queue : First(n) /\ ordered' = Append(ordered, n) /\ UNCHANGED edges
    BY DEF Pop
  <1>2. n \in Nodes
    BY HeadIsReady
  <1>3. /\ Len(ordered') = Len(ordered) + 1
        /\ Len(ordered) \in Nat
        /\ \A i \in 1..Len(ordered) : ordered'[i] = ordered[i]
        /\ ordered'[Len(ordered) + 1] = n
        /\ ordered' \in Seq(Nodes)
    BY <1>1, <1>2, AppendKeeps DEF Inv, TypeOK
  <1>4. Orders' = Orders
    BY <1>1 DEF Orders
  <1>5. Len(ordered) + 1 \in Nodes
    <2>1. EndInv'
      BY EndPop
    <2>2. Placed' \subseteq Nodes /\ Cardinality(Placed') = Len(ordered) + 1
      <3>1. Placed \subseteq Nodes
        BY PlacedAreNodes DEF Inv
      <3>2. Placed' = Placed \union {n}
        BY <1>3 DEF Placed
      <3> QED
        BY <1>2, <1>3, <2>1, <3>1, <3>2 DEF EndInv
    <2>3. IsFiniteSet(Nodes) /\ Cardinality(Nodes) = NodeCount
      BY NodesFinite, NodeCountAssumption, FS_Interval DEF Nodes
    <2>4. Len(ordered) + 1 <= NodeCount
      BY <2>2, <2>3, FS_Subset
    <2> QED
      BY <1>3, <2>4, NodeCountAssumption DEF Nodes
  <1> SUFFICES ASSUME NEW f \in Orders, NEW i \in 1..Len(ordered'),
                      \A k \in 1..(i - 1) : ordered'[k] = f[k]
               PROVE  ordered'[i] <= f[i]
    BY <1>4 DEF LeastSoFar
  <1>6. \A k \in 1..(i - 1) : ordered[k] = f[k]
    BY <1>3
  <1>7. CASE i \in 1..Len(ordered)
    BY <1>3, <1>6, <1>7 DEF LeastSoFar
  <1>8. CASE i = Len(ordered) + 1
    BY <1>1, <1>3, <1>5, <1>6, <1>8, NextIsQueued DEF First
  <1> QED
    BY <1>3, <1>7, <1>8

\* The steps that leave the order alone keep it least.
LEMMA LeastNext == EndInv /\ LeastSoFar /\ [Next]_vars => LeastSoFar'
  <1> SUFFICES ASSUME EndInv, LeastSoFar, [Next]_vars PROVE LeastSoFar'
    OBVIOUS
  <1>1. CASE Pop
    BY <1>1, LeastPop
  <1>2. CASE UNCHANGED <<edges, ordered>>
    BY <1>2 DEF LeastSoFar, Orders
  <1> QED
    BY <1>1, <1>2 DEF Next, Finish, vars

\* Of all the orders the edges allow, _topological_order returns the one that
\* follows the definition most closely: compared from the front, by the place of
\* the nodes in the definition, no other comes before it.
THEOREM OrderIsLeast == Spec => []LeastOrder
  <1>1. Init => LeastSoFar
    BY DEF Init, LeastSoFar
  <1>2. EndInv /\ LeastSoFar => LeastOrder
    <2> SUFFICES ASSUME EndInv, LeastSoFar, outcome = "ordered" PROVE LeastOrder
      BY DEF LeastOrder
    <2>1. Nodes = 1..Len(ordered)
      BY DEF EndInv, Nodes
    <2> QED
      BY <2>1 DEF LeastSoFar, LeastOrder
  <1> QED
    BY <1>1, <1>2, EndInit, EndNext, LeastNext, PTL DEF Spec

=============================================================================
