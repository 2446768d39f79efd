------------------------------ MODULE AgentLoop -----------------------------
(***************************************************************************)
(* One run of the agent and the runs that resume it: AgentLoop of          *)
(* core/agent/loop.py with RepairLoop.  A run takes the steps of a plan    *)
(* that a language model made, puts a tool off while something holds it    *)
(* back, repairs failures by putting steps in front of the plan, and keeps *)
(* the state of the subtasks the task was split into.                      *)
(*                                                                         *)
(* One iteration of the loop is one step here.  It awaits models, hooks    *)
(* and tools, but nothing else changes the run meanwhile: approvals and    *)
(* sessions do change, and are looked at once, at its start (a tool whose  *)
(* step was not put off then runs whatever they are by the time it is      *)
(* called).  The plan, the result of every tool, and what a re-read or a   *)
(* reflection finds, are choices; texts, arguments and traces are left     *)
(* out.                                                                    *)
(***************************************************************************)
EXTENDS Naturals, Sequences, FiniteSets

CONSTANTS
    Tools,         \* names of tools
    ReadFile,      \* read_file, which a repair may put in place of the tool that failed
    Reading,       \* read_file, search_text, list_files, inspect_tree, coordinate_files
    Mutating,      \* write_file, apply_text_patch, apply_batch_patch
    Verified,      \* write_file and apply_text_patch, which are read again afterwards
    Guarded,       \* tools whose name has write, patch, delete, deploy or execute
    Desktop,       \* tools whose name has desktop
    Browser,       \* tools whose name has browser
    Unwatched,     \* tools that, in a run of a workflow, no session holds back
    Occasions,     \* what the stores that the loop was given can hold, of "approval",
                   \* "browser session", "desktop session": get_agent gives it none
    None,          \* no tool
    Subtasks,      \* the number of subtasks of the task
    Edit,          \* which of them is "apply modification", 0 when none is
    CodeChange,    \* whether the intent of the task is code_change
    Budgets,       \* values of retry_budget
    MaxIterations, \* max_iterations
    PlanLength,    \* bound: steps of a plan before "final" is appended
    NewSteps,      \* bound: mutating steps that a reflection puts in front
    MaxRuns        \* bound: the run and those that resume it

ASSUME AgentAssumption ==
    /\ ReadFile \in Reading /\ Reading \subseteq Tools
    /\ Verified \subseteq Mutating /\ Mutating \subseteq Tools
    /\ Guarded \subseteq Tools /\ Desktop \subseteq Tools /\ Browser \subseteq Tools
    /\ Unwatched \subseteq Tools
    /\ None \notin Tools
    /\ Subtasks \in Nat /\ Edit \in 0..Subtasks
    /\ CodeChange \in BOOLEAN
    /\ Budgets \subseteq Nat
    /\ MaxIterations \in Nat \ {0}
    /\ PlanLength \in 0..MaxIterations
    /\ NewSteps \in Nat
    /\ MaxRuns \in Nat \ {0}
ASSUME OccasionAssumption ==
    Occasions \subseteq {"approval", "browser session", "desktop session"}

\* AgentPlanStep; a tool step without a name comes from an execution plan's text.
Observe == [kind |-> "observe", tool |-> None]
Reflect == [kind |-> "reflect", tool |-> None]
Final == [kind |-> "final", tool |-> None]
Tool(t) == [kind |-> "tool", tool |-> t]
Step == {Observe, Reflect, Final} \union {Tool(t) : t \in Tools \union {None}}

VARIABLES
    state,      \* where the run is
    plan,       \* the steps that are left
    iteration,  \* iterations so far
    decision,   \* the registered tool that tool_decision names, or None
    budget,     \* retry_budget
    retries,    \* retry_count
    replanned,  \* _reflect_replans
    mutated,    \* whether a mutating tool has succeeded in this run
    evidence,   \* whether tool_results, which a resumed run inherits, has such a result
    status,     \* subtask_status
    index,      \* current_subtask_index
    active,     \* pending approvals and open sessions in the stores: see Occasions
    runs,       \* runs so far
    workflow,   \* whether the run has the context of a workflow
    approval,   \* what the caller's context says of approvals: "nothing", that one is
                \* "required", or something "else"
    owed        \* history: how often each step was put into the plan, less how
                \* often it was taken

counters == <<decision, budget, replanned, runs, workflow, approval>>
vars == <<state, plan, iteration, retries, mutated, evidence, status, index, active,
          owed, counters>>

\* The store of approvals is asked only when the caller's context says nothing.
Withheld == approval = "required" \/ (approval = "nothing" /\ "approval" \in active)

\* The tools that _should_defer_step puts off now.
HeldBy(session) == IF session = "browser session" THEN Desktop ELSE Browser
HeldBySession == UNION {HeldBy(o) : o \in active \ {"approval"}}
HeldBack ==
    (IF Withheld THEN Guarded ELSE {})
        \union (IF workflow THEN HeldBySession \ Unwatched ELSE HeldBySession)

SubtaskStatus == {"unset", "observed", "in_progress", "blocked", "done"}

Init ==
    /\ state = "idle"
    /\ plan = <<>>
    /\ iteration = 0
    /\ decision = None
    /\ budget = 0
    /\ retries = 0
    /\ replanned = FALSE
    /\ mutated = FALSE
    /\ evidence = FALSE
    /\ status = [i \in 1..Subtasks |-> "unset"]
    /\ index = 1
    /\ active \in SUBSET Occasions
    /\ runs = 0
    /\ workflow = FALSE
    /\ approval = "nothing"
    /\ owed = [s \in Step |-> 0]
-----------------------------------------------------------------------------
Count(s, steps) == Cardinality({i \in 1..Len(steps) : steps[i] = s})

\* _dedupe_plan_steps ends every plan with a final step.
Planned(steps) ==
    IF steps # <<>> /\ steps[Len(steps)] = Final THEN steps ELSE Append(steps, Final)

(***************************************************************************)
(* run, up to the main loop.  A run that resumes another one inherits its  *)
(* subtasks and tool results; only runs that were answered are saved.      *)
(***************************************************************************)
Begin ==
    /\ state \in {"idle", "answered", "failed"}
    /\ runs < MaxRuns
    /\ runs' = runs + 1
    /\ state' = "running"
    /\ \E n \in 0..PlanLength : \E steps \in [1..n -> Step] : plan' = Planned(steps)
    /\ owed' = [s \in Step |-> Count(s, plan')]
    /\ decision' \in Tools \union {None}
    /\ budget' \in Budgets
    /\ workflow' \in BOOLEAN
    /\ approval' \in {"nothing", "required", "else"}
    /\ iteration' = 0
    /\ retries' = 0
    /\ replanned' = FALSE
    /\ mutated' = FALSE
    /\ UNCHANGED <<evidence, status, index, active>>

\* A hook of AGENT_START or USER_PROMPT_SUBMIT denies the run.
Denied ==
    /\ state \in {"idle", "answered", "failed"}
    /\ runs < MaxRuns
    /\ runs' = runs + 1
    /\ state' = "failed"
    /\ UNCHANGED <<plan, iteration, retries, mutated, evidence, status, index, active,
                   owed, decision, budget, replanned, workflow, approval>>

\* Approvals are asked for and decided, sessions opened and closed, by others.
OccasionsChange ==
    /\ \E o \in Occasions :
        active' = IF o \in active THEN active \ {o} ELSE active \union {o}
    /\ UNCHANGED <<state, plan, iteration, retries, mutated, evidence, status, index,
                   owed, counters>>
-----------------------------------------------------------------------------
(***************************************************************************)
(* The subtasks: _mark_subtask_progress and _check_mainline.               *)
(***************************************************************************)
SetCurrent(s) == status' = [status EXCEPT ![index] = s]
LaterOpen == {i \in index + 1..Subtasks : status[i] # "done"}

Advance ==
    IF LaterOpen = {} THEN UNCHANGED index
    ELSE index' = CHOOSE i \in LaterOpen : \A j \in LaterOpen : i <= j

\* Reading, or finalizing, is not the modification.
KeepsEditOpen(by) ==
    /\ index = Edit
    /\ by \in Reading \/ (by = "final" /\ ~evidence')

Progress(by) ==
    IF Subtasks = 0 THEN UNCHANGED <<status, index>>
    ELSE IF by = "observe" /\ status[index] = "unset"
    THEN SetCurrent("observed") /\ UNCHANGED index
    ELSE IF KeepsEditOpen(by)
    THEN SetCurrent("in_progress") /\ UNCHANGED index
    ELSE SetCurrent("done") /\ Advance

\* Mutant of Blocked: the next subtask is taken up.
BlockedAdvances ==
    IF Subtasks = 0 THEN UNCHANGED <<status, index>>
    ELSE SetCurrent("blocked") /\ Advance
Blocked ==
    IF Subtasks = 0 THEN UNCHANGED <<status, index>>
    ELSE SetCurrent("blocked") /\ UNCHANGED index

CheckMainline ==
    /\ \/ UNCHANGED status
       \/ Subtasks > 0 /\ status[index] = "unset" /\ SetCurrent("in_progress")
    /\ UNCHANGED index
-----------------------------------------------------------------------------
(***************************************************************************)
(* One iteration takes the first step of the plan; in the first one an     *)
(* observe step gives way to the tool that tool_decision names.            *)
(***************************************************************************)
Looping == state = "running" /\ iteration < MaxIterations /\ plan # <<>>
Current == IF iteration = 0 /\ decision # None /\ Head(plan) = Observe
           THEN Tool(decision) ELSE Head(plan)

\* The first step of the plan is dealt with, and others are put into it.
Settles(put) ==
    owed' = [s \in Step |-> owed[s] + Count(s, put) - (IF s = Head(plan) THEN 1 ELSE 0)]

\* _should_defer_step
Deferred == Current.tool \in HeldBack

\* Mutants of Defer: a deferral is no iteration, or loses the step.
DeferUncounted ==
    /\ Looping /\ Deferred
    /\ plan' = Append(Tail(plan), Current)
    /\ Settles(<<Current>>)
    /\ state' = IF Len(plan') = 1 THEN "answered" ELSE state
    /\ decision' = None
    /\ UNCHANGED <<iteration, retries, mutated, evidence, status, index, active,
                   budget, replanned, runs, workflow, approval>>
DeferLoses ==
    /\ Looping /\ Deferred
    /\ plan' = Tail(plan)
    /\ Settles(<<Current>>)
    /\ iteration' = iteration + 1
    /\ UNCHANGED <<state, retries, mutated, evidence, status, index, active, counters>>
\* A deferred step goes to the end of the plan; alone there, it ends the loop.
Defer ==
    /\ Looping /\ Deferred
    /\ plan' = Append(Tail(plan), Current)
    /\ Settles(<<Current>>)
    /\ iteration' = iteration + 1
    /\ state' = IF Len(plan') = 1 THEN "answered" ELSE state
    /\ UNCHANGED <<retries, mutated, evidence, status, index, active, counters>>

Take(kind) ==
    /\ Looping /\ ~Deferred
    /\ Current.kind = kind
    /\ iteration' = iteration + 1
    /\ UNCHANGED <<decision, budget, active, runs, workflow, approval>>

TakeQuietly(kind) ==
    /\ Take(kind)
    /\ UNCHANGED <<state, retries, mutated, evidence>>

ObserveStep ==
    /\ TakeQuietly("observe")
    /\ Progress("observe")
    /\ plan' = Tail(plan) /\ Settles(<<>>)
    /\ UNCHANGED replanned

FinalStep ==
    /\ TakeQuietly("final")
    /\ Progress("final")
    /\ plan' = Tail(plan) /\ Settles(<<>>)
    /\ UNCHANGED replanned

\* A tool step without a name does nothing.
NamelessStep ==
    /\ TakeQuietly("tool")
    /\ Current.tool = None
    /\ plan' = Tail(plan) /\ Settles(<<>>)
    /\ UNCHANGED <<replanned, status, index>>

\* A code change without a mutating tool asks for a new plan, once, and puts the
\* mutating steps of it in front; an exception in there is swallowed.
ReflectStep ==
    /\ TakeQuietly("reflect")
    /\ CheckMainline
    /\ IF CodeChange /\ ~mutated /\ ~replanned
       THEN /\ replanned' = TRUE
            /\ \E n \in 0..NewSteps : \E tools \in [1..n -> Mutating] :
                   LET new == [i \in 1..n |-> Tool(tools[i])]
                   IN  plan' = new \o Tail(plan) /\ Settles(new)
       ELSE plan' = Tail(plan) /\ Settles(<<>>) /\ UNCHANGED replanned
-----------------------------------------------------------------------------
(***************************************************************************)
(* A tool step.  A write that failed, or that reading the file again does  *)
(* not confirm, is tried again in front of the plan when the file can be   *)
(* read; when not, _maybe_replan_after_failure raises: it calls model_dump *)
(* on steps that are plain dataclasses.                                    *)
(***************************************************************************)
RunTool(t) ==
    /\ Take("tool")
    /\ Current = Tool(t)
    /\ UNCHANGED replanned

Succeeds(t) ==
    /\ RunTool(t)
    /\ mutated' = (mutated \/ t \in Mutating)
    /\ evidence' = (evidence \/ t \in Mutating)
    /\ Progress(t)
    /\ UNCHANGED retries

ToolSucceeds(t) ==
    /\ Succeeds(t)
    /\ \E put \in {<<>>} \union {<<Tool(v)>> : v \in Verified \intersect {t}} :
           plan' = put \o Tail(plan) /\ Settles(put)
    /\ UNCHANGED state

Fails(t) ==
    /\ RunTool(t)
    /\ Blocked
    /\ UNCHANGED <<mutated, evidence>>

\* What RepairLoop suggests to retry with: the tool that failed, read_file first,
\* or nothing (approval required, permission denied, a file read_file did not find).
Suggested(t) == {t, None} \union (IF t = ReadFile THEN {} ELSE {ReadFile})

\* Mutant of Repair: the retry takes the place of the plan.
RepairReplaces(t, retry) ==
    \E r \in Suggested(t) :
        IF r = None \/ retries >= budget
        THEN plan' = retry \o Tail(plan) /\ Settles(retry) /\ UNCHANGED retries
        ELSE /\ plan' = <<Reflect, Tool(r)>>
             /\ Settles(<<Reflect, Tool(r)>> \o retry)
             /\ retries' = retries + 1

\* _handle_tool_failure, in front of what _repair_write_step retries, which counts
\* for no budget.
Repair(t, retry) ==
    \E r \in Suggested(t) :
        IF r = None \/ retries >= budget
        THEN plan' = retry \o Tail(plan) /\ Settles(retry) /\ UNCHANGED retries
        ELSE LET put == <<Reflect, Tool(r)>> \o retry
             IN  plan' = put \o Tail(plan) /\ Settles(put) /\ retries' = retries + 1

ToolFails(t) ==
    /\ Fails(t)
    /\ Repair(t, IF t \in Verified THEN <<Tool(t)>> ELSE <<>>)
    /\ UNCHANGED state

ReplanRaises(t) ==
    /\ t \in Verified
    /\ Succeeds(t) \/ (Fails(t) /\ UNCHANGED retries)
    /\ state' = "raised"
    /\ UNCHANGED <<plan, owed>>

\* A model, the memory or the record of a tool's execution raises, and so does run:
\* what the run has done so far is not saved.
Raises ==
    /\ state = "running"
    /\ state' = "raised"
    /\ UNCHANGED <<plan, iteration, retries, mutated, evidence, status, index, active,
                   owed, counters>>

\* The loop is over: _finalize_answer and _finalize_execution.
Answer ==
    /\ state = "running"
    /\ ~Looping
    /\ state' = "answered"
    /\ UNCHANGED <<plan, iteration, retries, mutated, evidence, status, index, active,
                   owed, counters>>
-----------------------------------------------------------------------------
Iterate ==
    \/ Defer
    \/ ObserveStep
    \/ FinalStep
    \/ NamelessStep
    \/ ReflectStep
    \/ \E t \in Tools : ToolSucceeds(t) \/ ToolFails(t) \/ ReplanRaises(t)
    \/ Raises
    \/ Answer

Next == Begin \/ Denied \/ OccasionsChange \/ Iterate

Spec == Init /\ [][Next]_vars
\* Every await of an iteration returns: models, tools and the memory answer or raise.
FairSpec == Spec /\ WF_vars(Iterate)
-----------------------------------------------------------------------------
\* Every variable has its type; no more than max_iterations are made.
TypeOK ==
    /\ state \in {"idle", "running", "answered", "failed", "raised"}
    /\ plan \in Seq(Step)
    /\ iteration \in 0..MaxIterations
    /\ decision \in Tools \union {None}
    /\ budget \in Nat
    /\ retries \in Nat
    /\ replanned \in BOOLEAN
    /\ mutated \in BOOLEAN
    /\ evidence \in BOOLEAN
    /\ status \in [1..Subtasks -> SubtaskStatus]
    /\ index \in 1..(Subtasks + 1) /\ (Subtasks > 0 => index <= Subtasks)
    /\ active \subseteq Occasions
    /\ runs \in 0..MaxRuns
    /\ workflow \in BOOLEAN
    /\ approval \in {"nothing", "required", "else"}
    /\ owed \in [Step -> Nat]

\* The subtasks are worked off in order, in a run and those that resume it: those
\* before the current one are done, those behind it are untouched.
SubtasksInOrder ==
    \A i \in 1..Subtasks :
        /\ i < index => status[i] = "done"
        /\ i > index => status[i] = "unset"

Nothing == \A s \in Step : owed[s] = 0
Only(h) == \A s \in Step : owed[s] = IF s = h THEN 1 ELSE 0

\* A run that is answered with iterations left has taken every step that the model,
\* tool_decision, repairs, re-reads and reflections ever put into its plan, as often
\* as they did, but for one that may be held back: no deferral, retry or new plan
\* loses one.
NoStepIsLost ==
    state = "answered" /\ iteration < MaxIterations =>
        Nothing \/ \E h \in Step : Only(h) /\ h.tool \in Guarded \union Desktop \union Browser

\* Every run comes to an end: deferred steps and repairs do not feed the plan for ever.
RunEnds == state = "running" ~> state # "running"

=============================================================================
