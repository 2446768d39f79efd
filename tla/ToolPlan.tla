------------------------------ MODULE ToolPlan ------------------------------
(***************************************************************************)
(* The two algorithms on the graph of a batch that ToolGraph states by     *)
(* what they answer: build_execution_plan, which takes layer after layer   *)
(* off the graph and stops without an error when there is none, and        *)
(* detect_cycles, step by step as in CycleSearch.                          *)
(***************************************************************************)
EXTENDS SequencesExt, CycleSearch

\* plan.layers.
RECURSIVE Layers(_, _)
Layers(deps, rest) ==
    LET next == NextLayer(deps, rest) IN
    IF next = {} THEN <<>> ELSE <<next>> \o Layers(deps, rest \ next)

RECURSIVE SearchOn(_, _)
SearchOn(deps, s) ==
    IF SearchEnds(deps, s) THEN s
    ELSE SearchOn(deps, CHOOSE t \in SearchSteps(deps, s) : TRUE)

Cycles(deps) == SearchOn(deps, SearchBegins(deps)).cycles
-----------------------------------------------------------------------------
(***************************************************************************)
(* What they owe each other, for one graph.                                *)
(***************************************************************************)
Before(layers, i) == UNION {layers[j] : j \in 1 .. i - 1}

\* A call is in the first layer that is behind all it refers to: build_execution_plan
\* starts nothing too early, and puts nothing off that could run.
LayersAreDepths(deps) ==
    LET layers == Layers(deps, DOMAIN deps) IN
    \A i \in 1..Len(layers) : \A c \in layers[i] :
        /\ deps[c] \subseteq Before(layers, i)
        /\ i > 1 => deps[c] \intersect layers[i - 1] # {}

\* The plan leaves calls out exactly when detect_cycles reports a cycle, although
\* the two never look at each other's work.
OmissionsAreReported(deps) ==
    UNION ToSet(Layers(deps, DOMAIN deps)) # DOMAIN deps <=> Cycles(deps) # {}

\* Every cycle in the error message is one: each call in it is referred to by the
\* next, and it ends where it began.
CyclesAreReal(deps) ==
    \A s \in Cycles(deps) :
        /\ Len(s) > 1 /\ s[1] = s[Len(s)]
        /\ \A i \in 1 .. Len(s) - 1 : s[i] \in deps[s[i + 1]]

\* detect_cycles finds a cycle exactly if there is one: HasCycle may stand for it.
SearchIsComplete(deps) == Cycles(deps) # {} <=> HasCycle(deps, DOMAIN deps)

=============================================================================
