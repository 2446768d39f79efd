------------------------------ MODULE TaskQueue -----------------------------
(***************************************************************************)
(* core/task_queue.py: a priority queue behind one asyncio lock and its    *)
(* condition, with the consumer that takes tasks off it.  Every operation  *)
(* runs with the lock held and is atomic, but for dequeue, which gives the *)
(* lock up while it waits on the condition and keeps it while it sleeps on *)
(* an empty, paused queue.                                                 *)
(***************************************************************************)
EXTENDS Integers, FiniteSets

CONSTANTS
    MaxTasks,    \* bound: tasks enqueued in a behaviour
    Priorities,  \* values of TaskPriority, the smaller the more urgent
    MaxSize,     \* max_size
    MaxRetries   \* max_retries of every task

ASSUME QueueAssumption ==
    /\ MaxTasks \in Nat
    /\ Priorities \subseteq Int /\ Priorities # {}
    /\ MaxSize \in Nat \ {0}
    /\ MaxRetries \in Nat

Default == CHOOSE p \in Priorities : TRUE  \* of a task not yet there
Ids == 1..MaxTasks  \* numbered in the order of created_at

VARIABLES
    born,      \* how many tasks have been enqueued
    copies,    \* copies[t]: how often t is in the heap
    task_map,  \* ids that the queue knows, dequeued ones included
    mode,      \* status of the queue
    priority,
    retries,   \* retry_count of each task
    at         \* where the consumer is in dequeue, or "out"

tasks == <<born, task_map, priority, retries>>
queueVars == <<tasks, copies, mode, at>>

Modes == {"running", "paused", "stopped"}
Places == {"out", "wait", "woken", "held"}

QueueInit ==
    /\ born = 0
    /\ copies = [t \in Ids |-> 0]
    /\ task_map = {}
    /\ mode = "running"
    /\ priority = [t \in Ids |-> Default]
    /\ retries = [t \in Ids |-> 0]
    /\ at = "out"

Queued == {t \in Ids : copies[t] > 0}
Size == Cardinality(Queued)
Free == at # "held"  \* the lock can be taken
Notified == IF at = "wait" THEN "woken" ELSE at

Push(t) == copies' = [copies EXCEPT ![t] = @ + 1]
Drop(t) == copies' = [copies EXCEPT ![t] = @ - 1]
-----------------------------------------------------------------------------
\* Refused when the queue is stopped or full: nothing changes.
Enqueue(p) ==
    /\ Free
    /\ mode # "stopped"
    /\ Size < MaxSize
    /\ born < MaxTasks
    /\ born' = born + 1
    /\ Push(born')
    /\ task_map' = task_map \union {born'}
    /\ priority' = [priority EXCEPT ![born'] = p]
    /\ at' = Notified
    /\ UNCHANGED <<mode, retries>>

Clear ==
    /\ Free
    /\ copies' = [t \in Ids |-> 0]
    /\ task_map' = {}
    /\ UNCHANGED <<born, mode, priority, retries, at>>

\* remove of a task that is in task_map but not in the heap raises instead.
RemoveTask(t) ==
    /\ Free
    /\ t \in task_map
    /\ copies[t] > 0
    /\ Drop(t)
    /\ task_map' = task_map \ {t}
    /\ UNCHANGED <<born, mode, priority, retries, at>>

Retried(t) ==
    /\ Free
    /\ t \in task_map
    /\ retries' = [retries EXCEPT ![t] = @ + 1]
    /\ at' = Notified
    /\ UNCHANGED <<born, mode, task_map>>
\* Mutant of RequeueTask: a copy that is still queued is not removed first.
RequeueAnother(t, p) ==
    /\ Retried(t)
    /\ retries[t] < MaxRetries
    /\ Push(t)
    /\ priority' = [priority EXCEPT ![t] = p]
RequeueTask(t, p) ==
    /\ Retried(t)
    /\ retries[t] < MaxRetries
    /\ IF copies[t] > 0 THEN UNCHANGED copies ELSE Push(t)
    /\ priority' = [priority EXCEPT ![t] = p]

Pause ==
    /\ Free
    /\ mode' = "paused"
    /\ UNCHANGED <<tasks, copies, at>>

Resume ==
    /\ Free
    /\ mode' = "running"
    /\ at' = Notified
    /\ UNCHANGED <<tasks, copies>>

Stop ==
    /\ Free
    /\ mode' = "stopped"
    /\ at' = Notified
    /\ UNCHANGED <<tasks, copies>>
-----------------------------------------------------------------------------
(***************************************************************************)
(* dequeue.  A task is taken when there is one, paused or not; a consumer  *)
(* that has been notified may time out all the same.                       *)
(***************************************************************************)
Before(s, t) == priority[s] < priority[t] \/ (priority[s] = priority[t] /\ s < t)
MostUrgent(t) == t \in Queued /\ \A s \in Queued \ {t} : Before(t, s)

Pop(t) ==
    /\ MostUrgent(t)
    /\ Drop(t)
    /\ at' = "out"
    /\ UNCHANGED <<tasks, mode>>

Blocks ==
    /\ Queued = {}
    /\ at' = IF mode = "paused" THEN "held" ELSE "wait"
    /\ UNCHANGED <<tasks, copies, mode>>

TimesOut ==
    /\ at \in {"wait", "woken"}
    /\ at' = "out"
    /\ UNCHANGED <<tasks, copies, mode>>

\* The consumer is cancelled, in whatever it waits for.
CancelDequeue ==
    /\ at' = "out"
    /\ UNCHANGED <<tasks, copies, mode>>

QueueTypeOK ==
    /\ born \in 0..MaxTasks
    /\ copies \in [Ids -> Nat]
    /\ task_map \subseteq 1..born
    /\ mode \in Modes
    /\ priority \in [Ids -> Priorities]
    /\ retries \in [Ids -> 0..MaxRetries]
    /\ at \in Places
=============================================================================
