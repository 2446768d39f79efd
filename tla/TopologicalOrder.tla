-------------------------- MODULE TopologicalOrder --------------------------
(***************************************************************************)
(* WorkflowRepository._topological_order: the order in which a workflow    *)
(* runs its nodes, and the test that rejects a workflow with a cycle.      *)
(* Nodes are numbered by order_hint, their place in the definition.  The   *)
(* queue is sorted by it: here it is a set whose least node comes first.   *)
(* Several edges between two nodes count once, so edges are a relation.    *)
(***************************************************************************)
EXTENDS Naturals, Sequences, FiniteSets

CONSTANT NodeCount   \* nodes of the definition

ASSUME NodeCountAssumption == NodeCount \in Nat

Nodes == 1..NodeCount

VARIABLES
    edges,     \* adjacency: the pairs <<source, target>>
    indegree,
    queue,     \* nodes whose sources are all ordered
    ordered,   \* the order so far
    outcome    \* "running", then "ordered" or the error "cycle"

vars == <<edges, indegree, queue, ordered, outcome>>

Sources(n) == {m \in Nodes : <<m, n>> \in edges}
Targets(n) == {m \in Nodes : <<n, m>> \in edges}
Placed == {ordered[i] : i \in 1..Len(ordered)}

\* Mutant of Indegrees: an edge from a node to itself is not counted.
IndegreesWithoutLoops == [n \in Nodes |-> Cardinality(Sources(n) \ {n})]

Indegrees == [n \in Nodes |-> Cardinality(Sources(n))]

Init ==
    /\ edges \in SUBSET (Nodes \X Nodes)
    /\ indegree = Indegrees
    /\ queue = {n \in Nodes : indegree[n] = 0}
    /\ ordered = <<>>
    /\ outcome = "running"

\* Mutant of First: the last node of the definition goes first.
FirstIsLast(n) == n \in queue /\ \A m \in queue : m <= n

\* The head of the sorted queue.
First(n) == n \in queue /\ \A m \in queue : n <= m

\* Mutant of Released: one ordered source is enough.
ReleasedEarly(n) == {m \in Targets(n) : m \notin Placed \union {n}}

\* The targets of n whose indegree drops to 0.
Released(n) == {m \in Targets(n) : indegree[m] = 1}

\* One turn of the while loop.
Pop ==
    \E n \in queue :
        /\ First(n)
        /\ ordered' = Append(ordered, n)
        /\ indegree' = [m \in Nodes |-> IF m \in Targets(n) THEN indegree[m] - 1 ELSE indegree[m]]
        /\ queue' = (queue \ {n}) \union Released(n)
        /\ UNCHANGED <<edges, outcome>>

\* The queue is empty: the order is complete, or the definition is rejected.
Finish ==
    /\ queue = {}
    /\ outcome = "running"
    /\ outcome' = IF Len(ordered) = NodeCount THEN "ordered" ELSE "cycle"
    /\ UNCHANGED <<edges, indegree, queue, ordered>>

Next == Pop \/ Finish

Spec == Init /\ [][Next]_vars

-----------------------------------------------------------------------------
(* Properties                                                               *)

\* Type correctness: in particular no indegree is ever negative.
TypeOK ==
    /\ edges \subseteq Nodes \X Nodes
    /\ indegree \in [Nodes -> Nat]
    /\ queue \subseteq Nodes
    /\ ordered \in Seq(Nodes)
    /\ outcome \in {"running", "ordered", "cycle"}

\* What the loop relies on: an indegree is the number of sources still to come,
\* and the queue holds exactly the nodes that wait for none of them.
CountsAreRight ==
    /\ \A n \in Nodes : indegree[n] = Cardinality(Sources(n) \ Placed)
    /\ queue = {n \in Nodes \ Placed : indegree[n] = 0}

\* No node is placed twice, and none before one of its sources: a workflow node
\* never runs before the nodes that feed it.
RespectsEdges ==
    \A i \in 1..Len(ordered) :
        /\ Sources(ordered[i]) \subseteq {ordered[k] : k \in 1..(i - 1)}
        /\ ordered[i] \notin {ordered[k] : k \in 1..(i - 1)}

\* A set of nodes in which every node has a source is what a cycle leaves behind.
Cyclic == \E S \in SUBSET Nodes : S # {} /\ \A n \in S : Sources(n) \intersect S # {}

\* _validate_definition rejects exactly the definitions with a cycle, loops of one
\* node included.
RejectsExactlyCycles ==
    /\ outcome = "ordered" => ~Cyclic
    /\ outcome = "cycle" => Cyclic

Orders == {f \in [Nodes -> Nodes] :
              /\ \A m, n \in Nodes : f[m] = f[n] => m = n
              /\ \A i, k \in Nodes : <<f[i], f[k]>> \in edges => i < k}

\* The order is the one the definition suggests: of all the orders the edges allow
\* it is the first, comparing them from the front by the place of the nodes in the
\* definition.
LeastOrder ==
    outcome = "ordered" =>
        \A f \in Orders : \A i \in Nodes :
            (\A k \in 1..(i - 1) : ordered[k] = f[k]) => ordered[i] <= f[i]

=============================================================================
