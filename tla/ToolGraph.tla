------------------------------ MODULE ToolGraph ------------------------------
(***************************************************************************)
(* The graph of a batch of tool calls (tool_dependency_analyzer.py).       *)
(* deps[c] is reverse_edges[c]: the calls of the batch whose results the   *)
(* arguments of c refer to.                                                *)
(***************************************************************************)
EXTENDS Naturals

\* One turn of the loop of build_execution_plan; no turn follows an empty set.
NextLayer(deps, rest) == {c \in rest : deps[c] \intersect rest = {}}

\* rest[i] is `remaining` after i turns, until the loop ends.
IsPlanning(deps, rest, n) ==
    /\ rest[0] = DOMAIN deps
    /\ \A i \in 0 .. n - 1 : rest[i + 1] = rest[i] \ NextLayer(deps, rest[i])
    /\ NextLayer(deps, rest[n]) = {}

\* What detect_cycles finds (CycleSearch has its steps): some calls of the batch
\* each refer to one of them.
HasCycle(deps, calls) ==
    \E S \in (SUBSET calls) \ {{}} : \A c \in S : deps[c] \intersect S # {}

=============================================================================
