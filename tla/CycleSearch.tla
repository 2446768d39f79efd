----------------------------- MODULE CycleSearch -----------------------------
(***************************************************************************)
(* detect_cycles (tool_dependency_analyzer.py): the depth-first search     *)
(* whose answer decides whether the plan of a batch is carried out.  A     *)
(* state is what `visited`, `path` and `cycles` hold, with what the loop   *)
(* of each dfs under way has still to look at; rec_stack always has the    *)
(* members of the path.  Sets are iterated in any order, so a state has    *)
(* several successors.                                                     *)
(***************************************************************************)
EXTENDS Sequences, ToolGraph

\* edges[d]: the calls that refer to d.
Edges(deps, d) == {c \in DOMAIN deps : d \in deps[c]}

OnPath(s) == {s.path[i] : i \in 1..Len(s.path)}

SearchBegins(deps) ==
    [visited |-> {},
     path |-> <<>>,
     todo |-> [n \in DOMAIN deps |-> Edges(deps, n)],
     cycles |-> {}]

\* The call of dfs for n.
Enter(s, n) ==
    [s EXCEPT !.visited = @ \union {n}, !.path = Append(@, n)]

\* The loop over graph.nodes calls dfs for a node that was not visited yet.
Roots(deps, s) ==
    {Enter(s, n) : n \in {m \in DOMAIN deps : s.path = <<>> /\ m \notin s.visited}}

\* path[cycle_start:] + [neighbor].
Closed(s, m) ==
    {Append(SubSeq(s.path, i, Len(s.path)), m) : i \in {j \in 1..Len(s.path) : s.path[j] = m}}

\* The dfs at the end of the path looks at its neighbor m.
Look(s, m) ==
    LET top == s.path[Len(s.path)]
        looked == [s EXCEPT !.todo[top] = @ \ {m}]
    IN  IF m \notin s.visited THEN Enter(looked, m)
        ELSE [looked EXCEPT !.cycles = @ \union Closed(s, m)]

Looks(s) ==
    {Look(s, m) : m \in IF s.path = <<>> THEN {} ELSE s.todo[s.path[Len(s.path)]]}

\* It returns when it has looked at all of them.
Returned(s) ==
    {[s EXCEPT !.path = SubSeq(@, 1, Len(@) - 1)] :
        top \in {n \in OnPath(s) : n = s.path[Len(s.path)] /\ s.todo[n] = {}}}

SearchSteps(deps, s) == Roots(deps, s) \union Looks(s) \union Returned(s)

SearchEnds(deps, s) == s.path = <<>> /\ s.visited = DOMAIN deps

\* s[0] to s[n] are the states of a search from its beginning.
IsSearching(deps, s, n) ==
    /\ s[0] = SearchBegins(deps)
    /\ \A i \in 0 .. n - 1 : s[i + 1] \in SearchSteps(deps, s[i])

IsSearch(deps, s, n) == IsSearching(deps, s, n) /\ SearchEnds(deps, s[n])

=============================================================================
