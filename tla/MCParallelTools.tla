--------------------------- MODULE MCParallelTools ---------------------------
(***************************************************************************)
(* A batch of three calls and one of a single call, over two tools; the    *)
(* single call is the same as the first of the three.  The references: a   *)
(* chain that also goes over two layers, an error that is asked for, a     *)
(* call of the other batch, an output that is asked for within a list, a   *)
(* cycle and a call that refers to itself.                                 *)
(***************************************************************************)
EXTENDS ParallelTools, ToolPlan, TLC

ThreeAndOne == <<"b1", "b1", "b1", "b2">>
TwoTools == <<"read", "read", "write", "read">>

Nothing == <<>>
Chain == <<Nothing, 1 :> "output", 1 :> "output" @@ 2 :> "output", Nothing>>
Errors == <<4 :> "output", Nothing, 1 :> "error" @@ 2 :> "success", Nothing>>
InList == <<Nothing, 1 :> "nested", 1 :> "output" @@ 2 :> "nested", Nothing>>
Cycle == <<Nothing, 3 :> "output", 2 :> "output", Nothing>>
Itself == <<Nothing, Nothing, 3 :> "output", Nothing>>

\* The single call comes through execute_batch, which never looks at `partial`.
AllOptions ==
    {("b1" :> o @@ "b2" :> [layers |-> FALSE, partial |-> FALSE]) :
        o \in {p \in [layers : BOOLEAN, partial : BOOLEAN] : p.partial => p.layers}}

AllGraphs == {[c \in 1..4 |-> Nothing], Chain, Errors, InList, Cycle, Itself}

\* The graphs of three calls, and those of four that refer to two at most each.
SmallGraphs ==
    [1..3 -> SUBSET (1..3)]
        \union [1..4 -> {S \in SUBSET (1..4) : Cardinality(S) <= 2}]

ASSUME PlansAndSearchesAgree ==
    \A deps \in SmallGraphs :
        /\ LayersAreDepths(deps)
        /\ OmissionsAreReported(deps)
        /\ CyclesAreReal(deps)
        /\ SearchIsComplete(deps)

=============================================================================
