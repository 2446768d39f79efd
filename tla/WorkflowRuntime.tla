--------------------------- MODULE WorkflowRuntime ---------------------------
(***************************************************************************)
(* Running workflows: WorkflowExecutor.execute, the run half of            *)
(* WorkflowRepository, WorkflowRuntimeManager and the API handlers that    *)
(* call them.  Everything happens on one event loop: a handler has no      *)
(* await and is one step; an execution runs from one suspension to the     *)
(* next, and "turn" is the execution that has the loop meanwhile.          *)
(*                                                                         *)
(* The nodes of the one workflow are numbered in topological order.  A     *)
(* run is executed by its managed task (a job with the id of the run) or   *)
(* by the API call that runs or resumes it (a job with the id of a         *)
(* caller).  Which candidate is the "latest" run that a control call       *)
(* picks is abstracted: any of them.                                       *)
(***************************************************************************)
EXTENDS Naturals, FiniteSets

CONSTANTS
    Runs,         \* run ids
    Callers,      \* API calls that execute a run themselves
    NodeCount,    \* nodes of the workflow
    Slow,         \* nodes that suspend: agent, tool and wait nodes, and any node
                  \* with a timeout_ms or a retry_delay_ms
    Timed,        \* slow nodes with a timeout_ms, run inside asyncio.wait_for
    Approval,     \* approval nodes; the nodes that are left neither wait nor ask
    Conditional,  \* nodes that may have no incoming edge whose condition holds
    MaxAttempts,  \* max_retries + 1 of every slow node
    Absent,       \* no record, no job
    None,         \* no node, no approval, no job
    Faults,       \* whether nodes and edge conditions fail
    Rejects,      \* whether approvals are taken back
    Deletes,      \* whether the definition is deleted
    MaxFailures,  \* bound: steps in a behaviour that cannot write a record or an event
    MaxCrashes    \* bound: crashes in a behaviour

Nodes == 1..NodeCount
Jobs == Runs \union Callers
Approvals == Runs \X Approval

ASSUME RuntimeAssumption ==
    /\ NodeCount \in Nat
    /\ Slow \subseteq Nodes /\ Timed \subseteq Slow
    /\ Approval \subseteq Nodes \ Slow
    /\ Conditional \subseteq Nodes
    /\ IsFiniteSet(Runs) /\ Runs \intersect Callers = {}
    /\ MaxAttempts \in Nat \ {0}
    /\ {Faults, Rejects, Deletes} \subseteq BOOLEAN
    /\ {MaxFailures, MaxCrashes} \subseteq Nat

Ended == {"completed", "failed", "canceled"}

Record == [status : Ended \union {"running", "paused", "needs_approval"},
           cursor : 0..NodeCount,              \* resume_cursor
           pending : Approval \union {None},   \* pending_node_id
           results : 0..NodeCount,             \* len(node_results)
           ran : SUBSET Nodes]                 \* the node_results that are COMPLETED

Grant == [node : Approval, approval : Approvals]

Job == [run : Runs,
        pc : {"created", "loop", "checkpoint", "go", "node", "failing", "finished"},
        index : 1..(NodeCount + 1),
        ran : SUBSET Nodes,
        attempt : 1..MaxAttempts,
        grant : Grant \union {None},   \* approved_approvals
        canceling : BOOLEAN]           \* task.cancel() was called

ASSUME SentinelAssumption ==
    /\ Absent \notin Record \union Job
    /\ None \notin Approval \union Grant \union Jobs

VARIABLES
    known,     \* the workflow has a definition
    records,   \* _runs
    saved,     \* the last line of each run in the run file
    tasks,     \* the runs in _tasks
    paused,    \* _paused of the manager
    job,       \* the executions
    turn,      \* the execution that has the event loop
    asked,     \* approval nodes of runs that an approval was created for
    approved,  \* those with an approval that is approved now
    failures, crashes,
    \* history variables
    canceled,  \* runs whose cancellation was confirmed, and not resumed since
    outlived,  \* of those, the runs with an execution the cancellation did not end
    cut,       \* runs left by what failed around them: a crash, a definition that
               \* is gone, a first record that could not be written
    reached    \* nodes that the executions of a run have been at, counted from the
               \* first of those that overlap

store == <<records, saved, failures>>
approvals == <<asked, approved>>
control == <<tasks, paused>>
cancels == <<canceled, outlived>>
history == <<cancels, cut, reached>>
vars == <<known, store, control, job, turn, approvals, crashes, history>>

Init ==
    /\ known = TRUE
    /\ records = [r \in Runs |-> Absent]
    /\ saved = records
    /\ tasks = {}
    /\ paused = {}
    /\ job = [j \in Jobs |-> Absent]
    /\ turn = None
    /\ asked = {}
    /\ approved = {}
    /\ failures = 0
    /\ crashes = 0
    /\ canceled = {}
    /\ outlived = {}
    /\ cut = {}
    /\ reached = [r \in Runs |-> {}]

-----------------------------------------------------------------------------
(* Recording a run: the record in memory changes, then a line is appended.   *)
(* A line that is cut short is not modelled: with it in the file no process *)
(* starts again, so it adds nothing to an append that wrote nothing.        *)

Recorded(r, record) ==
    /\ records' = [records EXCEPT ![r] = record]
    /\ saved' = [saved EXCEPT ![r] = record]
    /\ UNCHANGED failures

\* The append raises, or the trace, log or audit event that comes after it.
RecordRaises(r, record) ==
    /\ failures < MaxFailures
    /\ failures' = failures + 1
    /\ records' = [records EXCEPT ![r] = record]
    /\ saved' \in {saved, [saved EXCEPT ![r] = record]}

\* A step that does the same in either case.
Write(r, record) == Recorded(r, record) \/ RecordRaises(r, record)

-----------------------------------------------------------------------------
(* Executions begin                                                         *)

FreshRecord == [status |-> "running", cursor |-> 0, pending |-> None,
                results |-> 0, ran |-> {}]

NewJob(r, pc, grant) == [run |-> r, pc |-> pc, index |-> 1, ran |-> {}, attempt |-> 1,
                         grant |-> grant, canceling |-> FALSE]

At(j, pc) == job[j] # Absent /\ job[j].pc = pc

Live(r) == \E j \in Jobs : job[j] # Absent /\ job[j].run = r /\ job[j].pc # "finished"

Status(r) == IF records[r] = Absent THEN "none" ELSE records[r].status

\* Mutant of BeginRecord: an execution continues at the cursor of the last one.
BeginRecordAtCursor(r) ==
    IF records[r] = Absent THEN FreshRecord
    ELSE [FreshRecord EXCEPT !.cursor = records[r].cursor]

\* The first record of execute: RUNNING with an empty history, whatever was there.
BeginRecord(r) == FreshRecord

CanStart(r) == turn = None /\ known /\ records[r] = Absent

\* WorkflowRuntimeManager.start: a record, and a task that has not run yet.
Start(r) ==
    /\ CanStart(r)
    /\ Recorded(r, FreshRecord)
    /\ job' = [job EXCEPT ![r] = NewJob(r, "created", None)]
    /\ tasks' = tasks \union {r}
    /\ UNCHANGED <<known, paused, turn, approvals, crashes, history>>

\* start, or execute on behalf of a call, raises after the record is in memory: it
\* is left RUNNING, and nothing executes it.
StartRaises(r) ==
    /\ CanStart(r)
    /\ RecordRaises(r, FreshRecord)
    /\ cut' = cut \union {r}
    /\ UNCHANGED <<known, control, job, turn, approvals, crashes, cancels, reached>>

CanBegin(r) == turn = None /\ At(r, "created") /\ ~job[r].canceling

\* The first step of a managed task.
Begin(r) ==
    /\ CanBegin(r)
    /\ known
    /\ Recorded(r, BeginRecord(r))
    /\ job' = [job EXCEPT ![r].pc = "loop"]
    /\ turn' = r
    /\ UNCHANGED <<known, control, approvals, crashes, history>>

Finished(r) == [job EXCEPT ![r] = NewJob(r, "finished", None)]

\* execute raises before its try block: the definition is gone and nothing is
\* recorded, or RUNNING is recorded and its append or the first event raises.
BeginRaises(r) ==
    /\ CanBegin(r)
    /\ IF known THEN RecordRaises(r, BeginRecord(r)) ELSE UNCHANGED store
    /\ job' = Finished(r)
    /\ cut' = cut \union {r}
    /\ UNCHANGED <<known, control, turn, approvals, crashes, cancels, reached>>

\* A task canceled before its first step never enters execute.
NeverRan(r) ==
    /\ turn = None
    /\ At(r, "created")
    /\ job[r].canceling
    /\ job' = Finished(r)
    /\ UNCHANGED <<known, store, control, turn, approvals, crashes, history>>

\* run_workflow without async_run: the call executes the run itself, at once.
RunSync(c, r) ==
    /\ CanStart(r)
    /\ job[c] = Absent
    /\ Recorded(r, FreshRecord)
    /\ job' = [job EXCEPT ![c] = NewJob(r, "loop", None)]
    /\ turn' = c
    /\ UNCHANGED <<known, control, approvals, crashes, history>>

\* What resume_approved_run passes on: the approval, for the node that is pending.
GrantFor(r, a) ==
    IF records[r].pending = None THEN None
    ELSE [node |-> records[r].pending, approval |-> a]

\* resume_approved_run takes any run there is, whatever its status and whoever
\* executes it, with any approval that is approved.  A task that is created is
\* already queued: its first step comes before a request that can name the run.
CanResume(r, a) ==
    /\ turn = None
    /\ known
    /\ records[r] # Absent
    /\ ~At(r, "created")
    /\ a \in approved

\* The run is executed again from its first node.
ResumeApproved(c, r, a) ==
    /\ CanResume(r, a)
    /\ job[c] = Absent
    /\ Recorded(r, BeginRecord(r))
    /\ job' = [job EXCEPT ![c] = NewJob(r, "loop", GrantFor(r, a))]
    /\ turn' = c
    /\ canceled' = canceled \ {r}
    /\ outlived' = outlived \ {r}
    /\ cut' = cut \ {r}
    /\ reached' = [reached EXCEPT ![r] = IF Live(r) THEN @ ELSE {}]
    /\ UNCHANGED <<known, control, approvals, crashes>>

\* execute raises before its try block.
ResumeRaises(r, a) ==
    /\ CanResume(r, a)
    /\ RecordRaises(r, BeginRecord(r))
    /\ canceled' = canceled \ {r}
    /\ outlived' = outlived \ {r}
    /\ cut' = cut \union {r}
    /\ UNCHANGED <<known, control, job, turn, approvals, crashes, reached>>

-----------------------------------------------------------------------------
(* The loop over the nodes, while the execution has the event loop          *)

Looping(j) == turn = j /\ At(j, "loop")

\* The cursor of the record, whoever wrote it, is ahead of this execution.
Behind(j) == job[j].index - 1 < records[job[j].run].cursor

\* Mutant of Held: the checkpoint is passed once, before the first node.
HeldAtFirst(j) == j \in paused /\ job[j].index = 1

\* Only managed tasks are given a pause_checkpoint.
Held(j) == j \in paused

\* A cancellation that comes too late for the node's outcome is forgotten here.
Advance(j, done) ==
    /\ job' = [job EXCEPT ![j].pc = "loop", ![j].index = @ + 1, ![j].attempt = 1,
                          ![j].ran = @ \union done, ![j].canceling = FALSE]
    /\ turn' = j
    /\ outlived' = IF job[j].canceling THEN outlived \union {job[j].run} ELSE outlived
    /\ UNCHANGED <<known, store, control, approvals, crashes, canceled, cut>>

Suspend(j, pc) ==
    /\ job' = [job EXCEPT ![j].pc = pc]
    /\ turn' = None
    /\ UNCHANGED <<known, store, control, crashes, cancels, cut>>

\* The record of an outcome, with the results so far.
Outcome(j, status, results, cursor, pending) ==
    [status |-> status, cursor |-> cursor, pending |-> pending,
     results |-> results, ran |-> job[j].ran]

\* execute returns or raises.
Leave(j) ==
    /\ job' = IF j \in Runs THEN Finished(j) ELSE [job EXCEPT ![j] = Absent]
    /\ turn' = None
    /\ UNCHANGED <<known, control, crashes, cancels, cut>>

AtEnd(j) == Looping(j) /\ job[j].index > NodeCount

Completed(j) == Outcome(j, "completed", Cardinality(job[j].ran), NodeCount, None)

\* The node_results are len(node_results), and so is the resume_cursor.
FailedWith(j, results) == Outcome(j, "failed", results, results, None)

Complete(j) ==
    /\ AtEnd(j)
    /\ Recorded(job[j].run, Completed(j))
    /\ Leave(j)
    /\ UNCHANGED <<approvals, reached>>

\* COMPLETED is recorded inside the try block: when that raises, the last except
\* clause records FAILED, which may raise as well.
CompleteRaises(j) ==
    /\ AtEnd(j)
    /\ failures < MaxFailures
    /\ failures' = failures + 1
    /\ LET r == job[j].run
           failed == FailedWith(j, Cardinality(job[j].ran))
       IN  /\ records' = [records EXCEPT ![r] = failed]
           /\ \/ UNCHANGED saved
              \/ \E line \in {Completed(j), failed} : saved' = [saved EXCEPT ![r] = line]
    /\ Leave(j)
    /\ UNCHANGED <<approvals, reached>>

SkipBehind(j) ==
    /\ Looping(j)
    /\ job[j].index <= NodeCount
    /\ Behind(j)
    /\ Advance(j, {})
    /\ UNCHANGED reached

WaitAtCheckpoint(j) ==
    /\ Looping(j)
    /\ job[j].index <= NodeCount
    /\ ~Behind(j)
    /\ Held(j)
    /\ Suspend(j, "checkpoint")
    /\ UNCHANGED <<approvals, reached>>

\* The loop body is past the checkpoint, at node n.
AtNode(j, n) ==
    /\ turn = j
    /\ job[j].index = n
    /\ \/ At(j, "go")
       \/ At(j, "loop") /\ ~Behind(j) /\ ~Held(j)
    /\ reached' = [reached EXCEPT ![job[j].run] = @ \union {n}]

SkipNode(j) == \E n \in Conditional : AtNode(j, n) /\ Advance(j, {})

\* An edge condition, or the event that announces the node, raises: the run fails
\* at once, without a result for the node.
NotStarted(j) ==
    \E n \in Nodes :
        /\ Faults
        /\ AtNode(j, n)
        /\ Write(job[j].run, FailedWith(j, Cardinality(job[j].ran)))
        /\ Leave(j)
        /\ UNCHANGED approvals

StartSlow(j) == \E n \in Slow : AtNode(j, n) /\ Suspend(j, "node") /\ UNCHANGED approvals

\* Input, transform, condition and output nodes return or raise without waiting.
RunQuick(j) ==
    \E n \in Nodes \ (Slow \union Approval) :
        /\ AtNode(j, n)
        /\ \/ Advance(j, {n})
           \/ Faults /\ Suspend(j, "failing") /\ UNCHANGED approvals

Granted(j, n) ==
    job[j].grant # None /\ job[j].grant.node = n /\ job[j].grant.approval \in approved

PassApproval(j) == \E n \in Approval : AtNode(j, n) /\ Granted(j, n) /\ Advance(j, {n})

\* A new approval is created; the result of the node counts for the cursor.
AskApproval(j) ==
    \E n \in Approval :
        /\ AtNode(j, n)
        /\ ~Granted(j, n)
        /\ LET results == Cardinality(job[j].ran) + 1
           IN  Write(job[j].run, Outcome(j, "needs_approval", results, results, n))
        /\ Leave(j)
        /\ asked' = asked \union {<<job[j].run, n>>}
        /\ UNCHANGED approved

\* There is no approval store, or create_approval raises, with the new approval in
\* memory or not: the node fails like any other.
AskRaises(j) ==
    \E n \in Approval :
        /\ Faults
        /\ AtNode(j, n)
        /\ ~Granted(j, n)
        /\ Suspend(j, "failing")
        /\ asked' \in {asked, asked \union {<<job[j].run, n>>}}
        /\ UNCHANGED approved

-----------------------------------------------------------------------------
(* An execution that was suspended gets the loop back                       *)

Woken(j, pc) == turn = None /\ At(j, pc)

\* pause_checkpoint polls _paused; after it nothing is looked at again.
LeaveCheckpoint(j) ==
    /\ Woken(j, "checkpoint")
    /\ ~job[j].canceling
    /\ ~Held(j)
    /\ job' = [job EXCEPT ![j].pc = "go"]
    /\ turn' = j
    /\ UNCHANGED <<known, store, control, approvals, crashes, history>>

\* The node's own outcome reaches the execution.  asyncio.wait_for (Python 3.11)
\* hands it over even when the task was canceled in the meantime: the
\* cancellation is swallowed.
OutcomeArrives(j) ==
    Woken(j, "node") /\ (job[j].canceling => job[j].index \in Timed)

NodeReturns(j) ==
    /\ OutcomeArrives(j)
    /\ Advance(j, {job[j].index})
    /\ UNCHANGED reached

\* Mutant of AttemptsLeft: one attempt too many.
AttemptsLeftOneMore(j) == job[j].attempt <= MaxAttempts

AttemptsLeft(j) == job[j].attempt < MaxAttempts

\* The node raises, times out or sleeps before the next attempt.
AttemptFails(j) ==
    /\ Faults
    /\ OutcomeArrives(j)
    /\ job' = [job EXCEPT ![j].canceling = FALSE,
                          ![j].attempt = IF AttemptsLeft(j) THEN @ + 1 ELSE @,
                          ![j].pc = IF AttemptsLeft(j) THEN "node" ELSE "failing"]
    /\ outlived' = IF job[j].canceling THEN outlived \union {job[j].run} ELSE outlived
    /\ UNCHANGED <<known, store, control, turn, approvals, crashes, canceled, cut, reached>>

\* Mutant of Fail: the last except clause records nothing.
FailUnrecorded(j) ==
    /\ Woken(j, "failing")
    /\ ~job[j].canceling
    /\ Leave(j)
    /\ UNCHANGED <<store, approvals, reached>>

\* Compensation, then _capture_node_failure, which stores a memory and raises
\* NameError (evolution_store): that, not the node's error, is what is recorded.
Fail(j) ==
    /\ Woken(j, "failing")
    /\ ~job[j].canceling
    /\ Write(job[j].run, FailedWith(j, Cardinality(job[j].ran) + 1))
    /\ Leave(j)
    /\ UNCHANGED <<approvals, reached>>

Awaiting(j) == \E pc \in {"checkpoint", "node", "failing"} : Woken(j, pc)

\* Mutant of Interrupted: CancelledError is recorded like any other error.
InterruptedAsFailure(j) ==
    /\ Awaiting(j)
    /\ job[j].canceling
    /\ Write(job[j].run, FailedWith(j, Cardinality(job[j].ran)))
    /\ Leave(j)
    /\ UNCHANGED <<approvals, reached>>

\* CancelledError, at any await.  In _capture_node_failure the failed node is
\* already among the results.
Interrupted(j) ==
    /\ Awaiting(j)
    /\ job[j].canceling
    /\ \E extra \in IF At(j, "failing") THEN {0, 1} ELSE {0} :
          LET results == Cardinality(job[j].ran) + extra
          IN  Write(job[j].run, Outcome(j, "canceled", results, results, None))
    /\ Leave(j)
    /\ UNCHANGED <<approvals, reached>>

\* _cleanup_run, the callback of a task that is done; other steps may come first.
Cleanup(r) ==
    /\ Woken(r, "finished")
    /\ tasks' = tasks \ {r}
    /\ paused' = paused \ {r}
    /\ job' = [job EXCEPT ![r] = Absent]
    /\ UNCHANGED <<known, store, turn, approvals, crashes, history>>

-----------------------------------------------------------------------------
(* pause_latest, resume_latest, cancel_latest: what they do to the task is  *)
(* done before the record is written, and stays when that raises.           *)

Active == {r \in tasks : Status(r) = "running"}

\* Mutant of Done: whether the task has ended is not looked at.
DoneNever(r) == FALSE

Done(r) == At(r, "finished")

\* len(run.node_results) of the record, which an execution fills only at its end.
PauseCursor(r) == records[r].results

Pause(r) ==
    /\ turn = None
    /\ r \in Active
    /\ ~Done(r)
    /\ paused' = paused \union {r}
    /\ Write(r, [records[r] EXCEPT !.status = "paused", !.cursor = PauseCursor(r)])
    /\ UNCHANGED <<known, tasks, job, turn, approvals, crashes, history>>

Resume(r) ==
    /\ turn = None
    /\ r \in tasks \intersect paused
    /\ ~Done(r)
    /\ paused' = paused \ {r}
    /\ Write(r, [records[r] EXCEPT !.status = "running"])
    /\ UNCHANGED <<known, tasks, job, turn, approvals, crashes, history>>

\* A call executes the run too: cancel_latest knows only the managed task.
CallerLive(r) == \E c \in Callers : job[c] # Absent /\ job[c].run = r

CanceledRecord(r) == [records[r] EXCEPT !.status = "canceled"]

\* An active run, or when there is none a paused one.  A task that is done is not
\* canceled, but its record is rewritten all the same.
CancelTask(r) ==
    /\ turn = None
    /\ r \in IF Active # {} THEN Active ELSE tasks \intersect paused
    /\ paused' = paused \ {r}
    /\ job' = IF Done(r) THEN job ELSE [job EXCEPT ![r].canceling = TRUE]
    /\ UNCHANGED <<known, tasks, turn, approvals, crashes, cut, reached>>

Cancel(r) ==
    /\ CancelTask(r)
    /\ Recorded(r, CanceledRecord(r))
    /\ canceled' = canceled \union {r}
    /\ outlived' = IF CallerLive(r) THEN outlived \union {r} ELSE outlived \ {r}

\* The cancellation is not confirmed.
CancelRaises(r) ==
    /\ CancelTask(r)
    /\ RecordRaises(r, CanceledRecord(r))
    /\ UNCHANGED cancels

-----------------------------------------------------------------------------
(* Approvals (an external store here), deletion, crashes                    *)

Approve(a) ==
    /\ turn = None
    /\ a \in asked \ approved
    /\ approved' = approved \union {a}
    /\ UNCHANGED <<known, store, control, job, turn, asked, crashes, history>>

\* Rejected after it was approved, or executed: no longer "approved".
Reject(a) ==
    /\ turn = None
    /\ Rejects
    /\ a \in approved
    /\ approved' = approved \ {a}
    /\ UNCHANGED <<known, store, control, job, turn, asked, crashes, history>>

Delete ==
    /\ turn = None
    /\ Deletes
    /\ known
    /\ known' = FALSE
    /\ UNCHANGED <<store, control, job, turn, approvals, crashes, history>>

\* The process dies and starts again: _load_runs reads the last line of every run,
\* and nothing looks for runs that were under way.
Crash ==
    /\ crashes < MaxCrashes
    /\ crashes' = crashes + 1
    /\ records' = saved
    /\ cut' = cut \union {r \in Runs : Live(r) \/ saved[r] # records[r]}
    /\ job' = [j \in Jobs |-> Absent]
    /\ tasks' = {}
    /\ paused' = {}
    /\ turn' = None
    /\ UNCHANGED <<known, saved, failures, approvals, cancels, reached>>

Execute(j) ==
    \/ Complete(j) \/ CompleteRaises(j) \/ SkipBehind(j) \/ WaitAtCheckpoint(j)
    \/ SkipNode(j) \/ NotStarted(j) \/ StartSlow(j) \/ RunQuick(j)
    \/ PassApproval(j) \/ AskApproval(j) \/ AskRaises(j)
    \/ LeaveCheckpoint(j) \/ NodeReturns(j) \/ AttemptFails(j) \/ Fail(j) \/ Interrupted(j)

Manage(r) == Begin(r) \/ BeginRaises(r) \/ NeverRan(r) \/ Cleanup(r)

Control(r) == Pause(r) \/ Resume(r) \/ Cancel(r) \/ CancelRaises(r)

Next ==
    \/ \E r \in Runs : Start(r) \/ StartRaises(r) \/ Manage(r) \/ Control(r)
    \/ \E c \in Callers, r \in Runs :
          RunSync(c, r) \/ \E a \in Approvals : ResumeApproved(c, r, a)
    \/ \E r \in Runs, a \in Approvals : ResumeRaises(r, a)
    \/ \E j \in Jobs : Execute(j)
    \/ \E a \in Approvals : Approve(a) \/ Reject(a)
    \/ Delete
    \/ Crash

Spec == Init /\ [][Next]_vars

\* The event loop runs what is ready in the order it became ready, so an execution
\* that can go on each time the loop is free does go on (strong fairness, as "turn"
\* disables it in between), and nodes end, by themselves or by their timeout.  For
\* LeaveCheckpoint this also excludes a run that is resumed and paused again
\* between any two polls for ever; such a run is paused again and again.
FairSpec ==
    /\ Spec
    /\ \A j \in Jobs : SF_vars(Execute(j))
    /\ \A r \in Runs : SF_vars(Manage(r))

-----------------------------------------------------------------------------
(* Properties                                                               *)

\* Type correctness of the records, the executions and the manager's sets.
TypeOK ==
    /\ known \in BOOLEAN
    /\ records \in [Runs -> Record \union {Absent}]
    /\ saved \in [Runs -> Record \union {Absent}]
    /\ tasks \subseteq Runs
    /\ paused \subseteq Runs
    /\ job \in [Jobs -> Job \union {Absent}]
    /\ turn \in Jobs \union {None}
    /\ asked \subseteq Approvals
    /\ approved \subseteq Approvals
    /\ failures \in 0..MaxFailures
    /\ crashes \in 0..MaxCrashes
    /\ canceled \subseteq Runs
    /\ outlived \subseteq Runs
    /\ cut \subseteq Runs
    /\ reached \in [Runs -> SUBSET Nodes]

\* A run that is recorded as running or paused has an execution that will record
\* its end, also when several overlap, are paused, canceled or cannot write their
\* records.  Only a crash, a definition deleted under a task that has not begun,
\* or a first record that raises leaves such a run behind.
InProgressIsLive ==
    \A r \in Runs \ cut : Status(r) \in {"running", "paused"} => Live(r)

\* The nodes an execution has begun.
Begun(j) ==
    IF job[j] = Absent THEN {}
    ELSE job[j].ran \union (IF job[j].pc \in {"node", "failing"} THEN {job[j].index} ELSE {})

\* While a run is in the manager's paused set its task begins no node, whenever
\* the pause came: before the first step, in a node, or between two polls.
PausedBeginsNoNode == [][\A r \in paused : Begun(r)' \subseteq Begun(r)]_vars

\* A run that cancel_latest confirmed as canceled is canceled in memory and in the
\* file for good, through failing writes, crashes and restarts, unless an execution
\* outlives the cancellation: a call that executes the run as well, or a task whose
\* node with a timeout had its outcome already.
CanceledStays ==
    \A r \in canceled \ outlived : Status(r) = "canceled" /\ saved[r].status = "canceled"

\* A run that has ended, is executed by nobody and has its end in the file is not
\* running or paused again, except by resume-approved: a pause or a resume between
\* the end of the task and its clean-up does not bring it back, nor does a restart.
EndedStays ==
    [][\A r \in Runs :
          Status(r) \in Ended /\ ~Live(r) /\ saved[r] = records[r] =>
              \/ Status(r)' \in Ended
              \/ \E a \in Approvals :
                    ResumeRaises(r, a) \/ \E c \in Callers : ResumeApproved(c, r, a)]_vars

\* A run that is recorded as completed had an execution at every node: the cursor
\* that pauses, approvals, failures and executions that overlap leave in the record
\* never takes all of them past a node.
CompletedCoversAll ==
    \A r \in Runs : Status(r) = "completed" => reached[r] = Nodes

\* A run does not stay running for ever: it ends, asks for an approval, or is
\* paused, unless it was cut off.
RunEnds ==
    \A r \in Runs :
        Status(r) = "running" ~> (Status(r) # "running" \/ r \in paused \/ r \in cut)

=============================================================================
