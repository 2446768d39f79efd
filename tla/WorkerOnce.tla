------------------------------ MODULE WorkerOnce ------------------------------
(***************************************************************************)
(* workflow_worker --once: asyncio.run of run_once.  run_due starts the    *)
(* runs that are due without waiting in between, and run_once returns.     *)
(* The first steps of the tasks are queued before the stop of the loop, so *)
(* each task runs to the first await at which it really waits; asyncio.run *)
(* then cancels the tasks that are left and waits for them.  A composition *)
(* of the worker's main coroutine with WorkflowRuntime.                    *)
(***************************************************************************)
EXTENDS WorkflowRuntime

VARIABLE main   \* the main coroutine: "running" run_once, "stopping" or "over"

onceVars == <<main, vars>>

OnceInit == Init /\ main = "running"

\* run_due triggers one more schedule.
Trigger(r) == main = "running" /\ Start(r) /\ UNCHANGED main

\* run_once has returned; the stop of the loop is queued behind the tasks.
Return == main = "running" /\ main' = "stopping" /\ UNCHANGED vars

\* A task that has not waited yet.
Fresh(r) == turn = r \/ At(r, "created") \/ At(r, "failing")

FirstStep(r) ==
    /\ main = "stopping"
    /\ Fresh(r)
    /\ Manage(r) \/ Execute(r)
    /\ UNCHANGED main

\* The loop has stopped: asyncio.run cancels every task that is left.
Stop ==
    /\ main = "stopping"
    /\ \A r \in Runs : ~Fresh(r)
    /\ main' = "over"
    /\ job' = [j \in Jobs |-> IF job[j] = Absent THEN Absent ELSE [job[j] EXCEPT !.canceling = TRUE]]
    /\ UNCHANGED <<known, store, control, turn, approvals, crashes, history>>

Settle == main = "over" /\ (\E r \in Runs : Manage(r) \/ Execute(r)) /\ UNCHANGED main

OnceNext ==
    \/ \E r \in Runs : Trigger(r) \/ FirstStep(r)
    \/ Return \/ Stop \/ Settle

OnceSpec == OnceInit /\ [][OnceNext]_onceVars

\* "Run due schedules once and exit.": when the process is about to exit, every run
\* it has triggered came to an end of its own; nobody asked for its cancellation.
TriggeredRunsHappen ==
    main = "over" /\ (\A r \in Runs : job[r] = Absent) =>
        \A r \in Runs : Status(r) \notin {"running", "canceled"}

=============================================================================
