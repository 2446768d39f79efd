---------------------------- MODULE SandboxTasks ----------------------------
(***************************************************************************)
(* Sandbox tasks: the submissions of api/sandbox_tasks.py, the drain loop  *)
(* that takes them off the TaskQueue and runs each in a sandbox of its own *)
(* (SandboxWorker.process), and the start and stop of that loop.  All of   *)
(* it runs on one event loop and keeps its state in memory.  The sandbox   *)
(* and its command are left out: only how processing ended matters.        *)
(***************************************************************************)
EXTENDS TaskQueue

CONSTANTS
    None,     \* no task
    MaxStops  \* bound: how often the worker is stopped

ASSUME WorkerAssumption == None \notin Ids /\ MaxStops \in Nat

VARIABLES
    status,   \* _status of each task, "none" when it has no entry
    loop,     \* what the drain loop does: "off", "polls" or "runs"
    cur,      \* the task it runs
    working,  \* _worker_running
    \* history variables
    handed,   \* handed[t]: how often t was handed out to run
    dropped,  \* tasks that clear or remove_task took off the queue
    cut,      \* tasks that a stop of the worker cut short
    stops     \* how often the worker was stopped

worker == <<loop, cur, working>>
history == <<handed, dropped, cut, stops>>
vars == <<queueVars, status, worker, history>>

Final == {"completed", "failed", "error"}
Statuses == {"none", "queued", "running"} \union Final

Init ==
    /\ QueueInit
    /\ status = [t \in Ids |-> "none"]
    /\ loop = "off"
    /\ cur = None
    /\ working = FALSE
    /\ handed = [t \in Ids |-> 0]
    /\ dropped = {}
    /\ cut = {}
    /\ stops = 0
-----------------------------------------------------------------------------
\* No await between the end of enqueue and the entry in _status.
SubmitTask(p) ==
    /\ Enqueue(p)
    /\ status' = [status EXCEPT ![born'] = "queued"]
    /\ UNCHANGED <<worker, history>>

ClearQueue ==
    /\ Clear
    /\ dropped' = dropped \union Queued
    /\ UNCHANGED <<status, worker, handed, cut, stops>>

Remove(t) ==
    /\ RemoveTask(t)
    /\ dropped' = dropped \union {t}
    /\ UNCHANGED <<status, worker, handed, cut, stops>>

\* The other calls a holder of the queue may make.
QueueCall ==
    /\ \/ \E t \in Ids, p \in Priorities : RequeueTask(t, p)
       \/ Pause
       \/ Resume
       \/ Stop
    /\ UNCHANGED <<status, worker, history>>
-----------------------------------------------------------------------------
(***************************************************************************)
(* _drain_loop.                                                            *)
(***************************************************************************)
GoOn == IF working THEN "polls" ELSE "off"

\* Mutant of Take: the task is taken off the heap before the wait for it.
TakeOrTimeOut(t) ==
    /\ Pop(t)
    /\ \/ /\ status' = [status EXCEPT ![t] = "running"]
          /\ handed' = [handed EXCEPT ![t] = @ + 1]
          /\ loop' = "runs"
          /\ cur' = t
          /\ UNCHANGED <<working, dropped, cut, stops>>
       \/ UNCHANGED <<status, worker, history>>
Take(t) ==
    /\ Pop(t)
    /\ status' = [status EXCEPT ![t] = "running"]
    /\ handed' = [handed EXCEPT ![t] = @ + 1]
    /\ loop' = "runs"
    /\ cur' = t
    /\ UNCHANGED <<working, dropped, cut, stops>>

\* dequeue raises at its entry when the queue is stopped, and ends the loop.
Raises ==
    /\ mode = "stopped"
    /\ loop' = "off"
    /\ UNCHANGED <<queueVars, status, cur, working, history>>

\* Mutant of Dequeue: the pause is looked at before the heap.
DequeuePausedFirst ==
    /\ loop = "polls"
    /\ at = "out"
    /\ \/ Raises
       \/ /\ mode = "running"
          /\ \/ \E t \in Ids : Take(t)
             \/ Blocks /\ UNCHANGED <<status, worker, history>>
       \/ /\ mode = "paused"
          /\ at' = "held"
          /\ UNCHANGED <<tasks, copies, mode, status, worker, history>>
Dequeue ==
    /\ loop = "polls"
    /\ at = "out"
    /\ \/ Raises
       \/ /\ mode # "stopped"
          /\ \/ \E t \in Ids : Take(t)
             \/ Blocks /\ UNCHANGED <<status, worker, history>>

Wakes ==
    /\ at = "woken"
    /\ \/ \E t \in Ids : Take(t)
       \/ Blocks /\ UNCHANGED <<status, worker, history>>

PollsAgain ==
    /\ TimesOut
    /\ loop' = GoOn
    /\ UNCHANGED <<status, cur, working, history>>

Finish ==
    /\ loop = "runs"
    /\ \E s \in Final : status' = [status EXCEPT ![cur] = s]
    /\ loop' = GoOn
    /\ cur' = None
    /\ UNCHANGED <<queueVars, working, history>>

DrainLoop == Dequeue \/ Wakes \/ PollsAgain \/ Finish
-----------------------------------------------------------------------------
StartWorker ==
    /\ loop = "off"
    /\ loop' = "polls"
    /\ working' = TRUE
    /\ UNCHANGED <<queueVars, status, cur, history>>

\* A loop that has ended already has nothing to stop.
Stopping ==
    /\ working
    /\ loop # "off"
    /\ stops < MaxStops
    /\ stops' = stops + 1
    /\ working' = FALSE

\* A wait that is over already swallows the cancellation (wait_for of Python 3.11):
\* the loop goes on, and ends after a task that it finds.
StopTooLate ==
    /\ Stopping
    /\ at = "woken"
    /\ UNCHANGED <<queueVars, status, loop, cur, handed, dropped, cut>>

StopPolling ==
    /\ Stopping
    /\ loop = "polls"
    /\ CancelDequeue
    /\ loop' = "off"
    /\ UNCHANGED <<status, cur, handed, dropped, cut>>

\* CancelledError passes through, unless stopping the sandbox raises another error.
StopRunning ==
    /\ Stopping
    /\ loop = "runs"
    /\ loop' = "off"
    /\ cur' = None
    /\ \/ /\ cut' = cut \union {cur}
          /\ UNCHANGED status
       \/ /\ status' = [status EXCEPT ![cur] = "error"]
          /\ UNCHANGED cut
    /\ UNCHANGED <<queueVars, handed, dropped>>

StopWorker == StopTooLate \/ StopPolling \/ StopRunning

Next ==
    \/ \E p \in Priorities : SubmitTask(p)
    \/ \E t \in Ids : Remove(t)
    \/ ClearQueue
    \/ QueueCall
    \/ DrainLoop
    \/ StartWorker
    \/ StopWorker

Spec == Init /\ [][Next]_vars
FairSpec == Spec /\ WF_vars(DrainLoop)
-----------------------------------------------------------------------------
\* Every variable has its type.
TypeOK ==
    /\ QueueTypeOK
    /\ status \in [Ids -> Statuses]
    /\ loop \in {"off", "polls", "runs"}
    /\ cur \in Ids \union {None}
    /\ working \in BOOLEAN
    /\ handed \in [Ids -> Nat]
    /\ dropped \subseteq 1..born
    /\ cut \subseteq 1..born
    /\ stops \in 0..MaxStops

\* An accepted task is never lost: it is queued, or runs, or has ended, or was
\* taken off the queue, or was cut short by a stop of the worker, which costs at
\* most one task each time, whatever it interrupts.
AcceptedIsKept ==
    /\ \A t \in 1..born :
        \/ t \in Queued
        \/ t = cur
        \/ status[t] \in Final
        \/ t \in dropped \union cut
    /\ Cardinality(cut) <= stops

\* A task is queued at most once and is run at most once more than it was retried,
\* through requeues of queued, running, ended and cut-off tasks and restarts of
\* the worker.
OneRunPerRetry ==
    \A t \in Ids :
        /\ copies[t] <= 1
        /\ handed[t] + copies[t] <= 1 + retries[t]

\* Behind heap, task_map, condition, pauses, wake-ups and the loop's starts and stops
\* is a plain service: one task runs at a time, always the most urgent one that waits
\* and of those the first, as often as it was asked for, and a task leaves the queue to
\* run or withdrawn, the loop with an answer or because a stop interrupted it.
Service == INSTANCE TaskService WITH
    Tasks <- Ids,
    accepted <- 1..born,
    waiting <- Queued,
    urgency <- priority,
    credit <- [t \in Ids |-> 1 + retries[t] - handed[t]],
    running <- cur,
    answered <- {t \in Ids : status[t] \in Final},
    withdrawn <- dropped,
    lost <- cut
ImplementsService == Service!ServiceSpec

\* While the worker is on, a queued task is in the end taken off the queue and
\* ends: no pause of the queue, timeout or wakeup leaves it there.
QueuedEnds ==
    \A t \in Ids :
        copies[t] > 0 ~> \/ copies[t] = 0 /\ (status[t] \in Final \/ t \in dropped)
                         \/ loop = "off"
=============================================================================
