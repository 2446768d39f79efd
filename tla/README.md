# Formal models of X-Agent

TLA+ models of the core of X-Agent: its workflow engine, its approvals, its
sandbox task queue, the loop of its agent and its batches of tool calls. The modules are translated from
`src/backend/app/core/workflows.py` (short: `workflows.py`), `approvals.py`,
`tools.py`, `task_queue.py`, `agent/loop.py`, `repair_loop.py`,
`parallel_tool_executor.py`, `tool_dependency_analyzer.py` and `tool_result_cache.py`
in the same directory, the handlers in `src/backend/app/api` and
`src/backend/app/workflow_worker.py`. TLC checks small instances of all of them;
TLAPS proves the theorems listed below for every value of the constants.

To check a module: `tlc -config X.cfg M` for the runs in the table below, and
`tlapm M.tla` for the modules whose names end in `Proofs`.
`PROJECT.json` lists runs, theorems, the source lines of every definition, the
hazards of the code, and for every property a mutant of the model: a definition
whose name says what is wrong with it, placed above the one it replaces. A
property that did not fail for its mutant would say nothing.

## 1. The system

X-Agent is an agent framework: a FastAPI server, a worker process, clients. Its
Python is asyncio: within a process, one event loop, and a coroutine keeps the
loop until it awaits. Threads appear only where a store may be used off the
loop (`WorkflowRepository` has two locks for them). Several processes exist in
a deployment (`src/deployment/k8s` runs three API replicas and two workers;
`src/README.md:133` starts the worker next to the API); they share files, not
memory.

### Components

| component | state | operations | modelled |
|---|---|---|---|
| definition store (`WorkflowRepository`) | `_definitions`, `_def_version`, `_def_version_persisted`, the file, two locks | upsert, delete, persist a snapshot, load | yes |
| validation and node order | adjacency, indegrees, queue | `_topological_order` | yes |
| schedules (`WorkflowScheduleStore`, `WorkflowScheduler`) | `_records`, one file rewritten as a whole, leases inside the records | create, cancel, acquire_due, mark, run_due, the worker's loop | yes |
| workflow runtime (`WorkflowExecutor`, `WorkflowRuntimeManager`) | run records (append-only file), `_tasks`, `_paused`, the executions themselves | start, execute, pause, resume, cancel, resume-approved, clean-up | mostly |
| worker with `--once` | the main coroutine | run_once, then the end of the event loop | yes |
| approvals and approved tools (`core/approvals.py`, `core/tools.py`, `api/approvals.py`) | approval records, one file; the tools under way | create, approve, reject, execute, mark executed, load | mostly |
| task queue (`core/task_queue.py`) | heap, task map, status, a lock with a condition | enqueue, dequeue, clear, remove, requeue, pause, resume, stop | yes |
| sandbox tasks (`api/sandbox_tasks.py`, `core/sandbox/orchestrator.py`) | status of each task, the drain loop, whether it is to go on | submit, drain loop, start, stop | mostly |
| agent loop (`core/agent/loop.py`, `core/repair_loop.py`) | plan, iteration, retries, subtasks and their states | plan, iterate, defer, repair, replan, answer, resume | control only |
| batches of tool calls (`core/parallel_tool_executor.py`, `core/tool_dependency_analyzer.py`) | graph and plan of a batch, its layer, its slots, attempts and results | execute_batch, execute_with_dependencies, analyze, plan, search for cycles, resolve, retry | mostly |
| tool result cache (`core/tool_result_cache.py`) | entries with their times, one cache for the process | get, set, expire, evict | mostly |
| circuit breaker, container pool, local-cloud synchronisation | | | no: not reached by the application, section 7 |
| everything else | | | no, see PROJECT.json |

How they interact:

- The API handlers call the store, the scheduler and the runtime manager
  directly, on the loop. A handler without an await is one step.
- `run_due` (called by `POST /schedules/run-due` and by the worker's loop) leases
  due schedules, starts one managed task for each, and marks each record. It
  never awaits, so inside its process only a crash can come between its steps;
  the other processes, with copies of their own, can.
- A managed task runs `execute`, which writes the run's record at its beginning
  and at its end. `pause_latest`, `resume_latest` and `cancel_latest` write the same
  record from outside, at any await of the task. The task reads the record back
  (its `resume_cursor`) at every node.
- An approval node ends an execution. The API executes the run again, from its
  first node, with the approval that was given.
- A tool that the policy does not allow leaves an approval request. People
  approve or reject it; `POST /approvals/{id}/execute` then runs the tool, and awaits
  it, between its look at the status and the mark. The agent looks at pending
  approvals and open sessions before every step and puts a tool off.
- Sandbox tasks go from the API through the queue to one drain loop of the
  application, which awaits them one by one.
- A batch runs each call through `ToolRegistry.execute`, behind a cache that all batches
  of the process share; between the look into the cache and the store of the result
  the tool is awaited, so other calls come in between. A batch with dependencies is
  planned as a whole and then run layer by layer, the results of all layers so far at hand.
- A done-callback takes a finished task out of the manager's sets, one turn of
  the loop after its end.

What is hard here: snapshots written in another order than taken; writes that
fail between two updates of the same record; crashes between the start of a run
and the mark that remembers it; records written by a task and by the handlers
around it; leases across restarts; cancellation racing a timeout; resuming; an
approval that changes while its tool runs; a consumer that is notified, times out
and is cancelled at once; a plan that deferrals, repairs and new plans rewrite
while it is worked off; a plan of layers that leaves cyclic calls out without saying
so; a cache that batches fill and empty between each other's steps. The
list with the lines is in `PROJECT.json`, "hazards".

What makes each part correct:

- *Definitions*: an acknowledged change survives; the file is always one whole
  version; an older snapshot never replaces a newer one.
- *Node order*: sources first, deterministic, cycles and only cycles rejected.
- *Schedules*: each is run once (or once more per crash in a window that cannot
  be closed without a transaction), is not lost in a process of its own, not run when canceled, not run
  by two holders of a lease; a due one does not wait for ever.
- *Runtime*: a record says what happened, also when executions of a run overlap and
  records cannot be written: canceled stays canceled unless something outlives the
  cancellation, completed means that the executions of the run have been at every node,
  a pause holds its task, what has ended does not come back, and no run is left
  "running" with nobody to end it but those that were cut off.
- *Approvals*: a request that was confirmed stays known, an execution that was marked
  has used its approval up, and a rejected one starts no tool.
- *Task queue and sandbox tasks*: no accepted task is lost, none is handed out
  more often than it was asked for, the most urgent one first, and while the worker is
  on each is taken.
- *Agent loop*: a run ends; no step that anything put into its plan is lost; subtasks
  are worked off in order.
- *Batches*: what a call refers to is done before it, and its result is what the call
  gets; a failure stops what is behind it; no call is left out; every batch ends.
- *Cache*: bounded, and nothing older than its TTL is served.

## 2. The modules

| module | models | theorems in |
|---|---|---|
| `DurableSnapshots` | abstract: a log of versions with a durable position | |
| `DefinitionStore` | `WorkflowRepository`, definitions | `DefinitionStoreProofs` |
| `TopologicalOrder` | `_topological_order` | `TopologicalOrderProofs` |
| `WorkflowSchedule` | schedule store, `run_due`, worker loop, several processes | `WorkflowScheduleProofs` |
| `WorkflowRuntime` | `execute`, run records, runtime manager, API handlers | `WorkflowRuntimeProofs` |
| `WorkerOnce` | `workflow_worker --once` composed with `WorkflowRuntime` | |
| `Approvals` | approval store and file, tools run on approvals, API handlers | `ApprovalsProofs` |
| `TaskService` | abstract: tasks that wait, run one at a time and are answered | |
| `TaskQueue` | the priority queue and its consumer | (with `SandboxTasks`) |
| `SandboxTasks` | submissions and the drain loop, over `TaskQueue` | `SandboxTasksProofs` |
| `AgentLoop` | the agent's main loop, repairs, subtasks, resumed runs | `AgentLoopProofs` |
| `ToolGraph` | the graph of a batch: its layers, what a cycle is | (with `ParallelTools`) |
| `CycleSearch` | `detect_cycles`, step by step and in any order | (with `ParallelTools`) |
| `ToolPlan` | the plan and the search carried out, for TLC | |
| `ParallelTools` | batches of tool calls over the shared cache | `ParallelToolsProofs` |
| `MC...` | the instances for TLC | |

### DefinitionStore

`Writers` are threads inside upsert or delete. One action per piece of code between
two lock operations: `BeginCreate`/`BeginUpdate` (the reads before `_lock`),
`CommitUpsert`/`Delete` (the block under `_lock`, which takes version and snapshot),
`TakeIoLock`, `SkipStale`, `WriteTemp`, `Replace`, `PersistFails` (any exception of
the file operations), and `Crash` (the process dies and `__init__` loads the file).
Versions restart from 0 in a new process; the history variable `base` numbers
them across restarts. `acked` and `failed` remember what callers were told.
A definition is a pair (name, graph): the two parts that an update may change
separately. `os.replace` is atomic, which is what the code relies on.

`ImplementsDurable` states the store as an implementation of `DurableSnapshots`:
mutate appends a version, flush moves the durable position forward to some newer
version, a loss forgets what is beyond it, and the position never moves back.

### TopologicalOrder

The loop, one `Pop` per turn, and `Finish`. Nodes are numbers in the order of the
definition (`order_hint`), so the sorted queue is a set whose least element comes
first; parallel edges are one edge, as `adjacency` is a dict of sets. That ids are
unique and edges refer to known nodes is tested by `_validate_definition` before
the loop, and assumed here.

### WorkflowSchedule

`mem[p]` is the store of process `p`, loaded from `file` at its start only, as
`_load_from_disk` is called from the constructor only. Every operation rewrites
the whole file from `mem[p]`. `run_due` is cut where it writes or starts: `Acquire`
(leases and file), then for each record `Start` or `StartRaises`, `MarkTriggered`
or `MarkFailed`. A failing write raises: in `MarkTriggered` it leads to the handler
that marks the same record failed; in `MarkFailed` and `Acquire` it leaves `run_due`,
and a worker, whose loop has no handler, exits. Writing truncates first, so a
failure or a crash may leave a torn file, with which no process starts again.
Times are the ticks left until then: `delay` for `run_at`, `lease` for
`locked_until`, and `Tick` moves all of them.

A choice worth knowing: `StartRaises` is always possible, since the definition
may be missing in this process.

### WorkflowRuntime

A job is an execution of `execute`; a managed task and an API call that executes
by itself differ in their ids only (the latter has no checkpoint), and both may execute
the same run at the same time, as `resume-approved` looks at nobody's status. `turn` is the
job that has the event loop. It keeps it from `Begin` or a wake-up to the next
await, and every other action requires `turn = None`; this is asyncio, not a
simplification. The loop over the nodes: `SkipBehind` (the `resume_cursor` of the
*shared* record is ahead), `WaitAtCheckpoint`/`LeaveCheckpoint` (the poll of
`_paused`), then `SkipNode` (no incoming condition holds), `StartSlow` (agent, tool,
wait nodes and all with a timeout or retry delay await), `RunQuick`, `PassApproval`
or `AskApproval`. `NodeReturns`, `AttemptFails`, `Fail`, `Interrupted` are the ways out
of an await; `Complete` the end. `OutcomeArrives` has the subtle part:
`asyncio.wait_for` of Python 3.11, the version of `src/Dockerfile:3`, returns the
result of an inner task that is done even if its caller was canceled meanwhile; so a
node in `Timed` may swallow a cancellation.

`record_run` changes the record in memory and then appends a line to the file, which
may raise, as may the trace and the audit event behind it (`RecordRaises`). Where it is called decides
what that leaves: in `start` a RUNNING record without a task (`StartRaises`), in `execute`
before its `try` a task that is over and a run that is RUNNING (`BeginRaises`, `ResumeRaises`), inside
the `try` a failed run (`CompleteRaises`), in the handlers of the outcome and in pause and
resume a record that only memory has (`Write`), and in cancel a task that is told
although its caller gets an error (`CancelRaises`). `NotStarted` is an edge condition that
raises, `AskRaises` an approval that cannot be created.

The history variables: `canceled`, the cancellations that were confirmed; `outlived`, those of them
with an execution that the cancellation did not end; `cut`, the runs that a crash, a deleted
definition or a first record that raised has left; `reached`, the nodes that the executions of a run
have been at since the first of those that overlap.

Abstractions: what nodes compute; compensation, which is part of the wait before
`Fail`; conditions of edges (a choice per conditional node); which run is the
"latest" (any candidate); the approval store, as a set of pairs run, node that are
asked and approved (`Approve` and `Reject`). The grant that a resume carries is any approval that is approved,
of whatever run and node, as in the code. Approval nodes have no `timeout_ms` here.
The executor's own `_paused` set is left out: nothing in the code adds to it. So are a
"workflow.node.completed" event that raises (`workflows.py:807`) and run files
with a torn line, with which no process starts.

### WorkerOnce

`main` runs `run_once` and returns. The first steps of the tasks it has created are queued
before the stop of the loop (`Return`), so each of them runs to the first await at which it
really waits (`FirstStep`); then `asyncio.run` cancels the tasks that are left (`Stop`) and waits for
them (`Settle`). Everything the tasks do is `WorkflowRuntime`.

### Approvals

One process: the handlers are coroutines of one event loop, atomic but for the
await of a tool, so `BeginExecute` and `EndExecute` are two actions and everything else
is one. `mem` is `_records`, `file` what `_persist` wrote. A write that fails raises after
memory has changed (`Unwritten`), and may leave a torn file, which stops the next
start (`Restart`). `_decide` does not look at the status it replaces, and the handler
of `execute` marks the record whatever `execute_approved` returned: `RefuseExecute` is
that path. Before it returns, `execute_approved` appends the execution to a file of its own, outside any
`try`; when that raises, the request fails and the handler never gets to its mark. The tool that returned was
marked by then, the one that raised was not, and a refusal that cannot be recorded changes nothing.
`execute` of the registry creates requests before (`AskForTool`) and, for
high-risk tools, after a success (`EndDirect`). The history variables remember what
was confirmed to callers. `spent` tells what became of the mark of an execution: there was none
("unmarked"), it is in memory and a crash may undo it ("marked"), or it was saved.

### TaskQueue and SandboxTasks

`TaskQueue` has one action per method. The heap is the number of copies of each id,
since only the order matters (`Before`, `MostUrgent`). `at` says where the consumer is in
`dequeue`: waiting on the condition without the lock, notified (`woken`), or asleep on
an empty paused queue *with* the lock (`held`), when no other method gets in (`Free`).
A notified consumer may still time out or be cancelled. `SandboxTasks` extends it with the drain loop, its
start and stop, and the table of statuses. `pause`, `resume`, `stop`, `requeue_task`,
`remove_task` and `clear` are public but not called by the deployed application: they are here as calls that
any holder of the queue may make. `StopTooLate` is Python 3.11's `wait_for`, which
swallows a cancellation when the wait is over.

`ImplementsService` states all this as an implementation of `TaskService`, which has no heap,
lock, consumer or loop: accepted tasks wait, the most urgent and then the first one is run,
one at a time and as often as it was asked for, and it leaves with an answer, withdrawn, or
lost to an interruption. `credit`, how often a task may still be run, is what the history
variables `retries` and `handed` leave of it; a failed or refused call is a stutter.

### AgentLoop

An iteration of `_execute_main_loop` is one action: what happens at its awaits neither
reads nor changes the run. Plans, tool outcomes, re-reads and suggestions are choices,
so that the properties hold whatever a model answers. Tools are classes:
`Reading`, `Mutating`, `Verified` (read again after writing), `Guarded`, `Desktop`, `Browser` by
the words in their names, and `Unwatched`, which in the context of a workflow no session
holds back (the early return at `loop.py:2396`). `active` is what the stores say holds tools back, and it
changes at any time; `Occasions` says which stores the loop was given, and may be empty: `get_agent`
(`dependencies.py:323-338`) gives it none. `approval` is what the caller's context says, and only when it says
nothing is the store of approvals asked. Both are looked at once, before a step is taken; between that and
the handler the code awaits hooks (`tools.py:411`), so a tool may run although an approval was asked for meanwhile.
Nothing in the code says otherwise, and no property does.
`owed` counts how often each step was put into the plan, by the model or by anything after it, less how often it was
taken. `ToolFails` and `ToolSucceeds` include the repairs they lead to;
`ReplanRaises` is the replanning, which always raises, and `Raises` any other exception. A run that resumes another
inherits subtasks and tool results (`Begin`).

### ToolGraph, CycleSearch, ToolPlan and ParallelTools

`ToolGraph` has the turns of the loop over the layers (`IsPlanning`) and says in one line what a
search for cycles is to answer (`HasCycle`); `ParallelTools` plans with that. `CycleSearch` has the
depth-first search itself: a state is `visited`, the path of the calls of `dfs` under way, what each of
them has still to look at, and the cycles found; a step is a call of `dfs` from the loop over the
nodes, a look at a neighbor, or a return, and since Python iterates sets in any order a state has
several. `rec_stack` has always the members of the path, so it is not kept apart. `ToolPlan` carries both
out, with recursive operators that the proofs do not use. `PlansAndSearchesAgree`, an assumption of `MCParallelTools` that TLC
evaluates, says for every graph of three calls, and for those of four with at most two
references each, that the layers are the earliest, that the plan omits calls exactly when the search reports a
cycle, that every cycle it reports is one, and that it reports one exactly when `HasCycle` holds.

In `ParallelTools` a call is queued for its batch's semaphore (first in, first out), then
either hits the cache (`Hit`), which needs no await, or misses and runs (`Miss`), and `Succeed`
stores and answers in one step. `Fail` retries or gives up, `Retry` ends the sleep, with the slot
kept. `SubmitLayers` and `EndLayer` include the next turn of the loop over the layers, which
resolves the arguments (`StartLayer`). A reference may be to the `output`, the `error` or another
attribute of a call, or to an output from within a list or a dictionary: the analyzer finds all of them
(`Deps`), the executor resolves the first two (`Resolved`), and the others stand as they are written (`Literal`). The output of an execution is the time of its end: it
stands for the state of the world the tool saw, so that an old result can be told from a
new one. Outputs and texts that were put in the place of references are part of the key
of the cache, as they are in the code.
The handler that is to clear the cache empties one of its own, so it is no action. Ids of calls are distinct within a batch. What the
tools do, policies and approvals (`Approvals`) are choices between success and failure.

## 3. The runs

| run | instance | shows |
|---|---|---|
| `definitions` | 2 threads, 1 id, 4 definitions, 3 versions | all of DefinitionStore's properties, safety, refinement and liveness |
| `schedule_api` | 1 API process, 3 schedules, room for 2 in the file, 2 crashes, lease of 1 tick, limit 1, disk faults | run once per cut, records tell the truth, the latest confirmed are kept, leases exclude |
| `schedule_shared` | API process and worker, 2 schedules, 2 crashes, lease of 1 tick, limit 1 | one run per load of the file |
| `schedule_settles` | 1 polled API process, 3 schedules, room for all, 2 crashes, lease of 1 tick, limit 1 | what was confirmed is in the end triggered, failed or canceled, and stays so |
| `runtime` | 1 run with its task and 1 API call that may overlap it, 4 nodes (slow, conditional, approval, slow with a timeout), 2 attempts, 1 crash, 1 failure to record, failing nodes, rejections, deletion | canceled, paused, completed and ended mean what they say; runs in progress have an execution; running runs end |
| `topological_order` | all 65,536 graphs over 4 nodes | order, least order, rejection |
| `schedule_lease_apart` | API process and worker | *violated*: `LeaseExclusion` |
| `approvals` | 2 approvals, 2 callers, a cap of 1, failing and torn writes, executions that cannot be recorded, crashes | confirmed stays known, marked is used up, rejected starts nothing |
| `sandbox_tasks` | 2 tasks, 2 priorities, a queue of 1, 2 retries, 1 stop of the worker | nothing accepted is lost; the abstract service is implemented; what is queued is taken |
| `agent_loop` | 3 tools, 3 subtasks, 5 iterations, 2 runs, retry budget 1, approvals from context and store, sessions | order of the subtasks, no step lost, runs end |
| `parallel_tools` | 2 batches of 3 and 1 calls, 6 graphs (nested references in one), a cache of 1, 2 slots, 1 retry, TTL 2 | references, failures, completeness, fresh results; every batch ends |
| `worker_once` | two schedules due, `--once` | *violated*: `TriggeredRunsHappen` |

Bounds, and why they are enough:

- *definitions*: a stale snapshot needs two threads and two versions, a failed
  one between them a third version. One id suffices, since file, snapshot
  and version are of the whole map. The theorems have no bound but `MaxVersion`,
  which is any number.
- *schedules*: at least two, so that a batch has a rest, the limit leaves one behind, and one
  record overwrites another process's view of the second. The run of one process has a
  third, with a file that keeps two (`Cap`, 10,000 in the code), so that a save drops the
  earliest: `ConfirmedKept` is about those that are among the latest. Two crashes let
  a second one hit the recovery from the first. A lease of one tick is found running
  and found over by those who come next.
- *runtime*: one node of every kind the loop distinguishes, with a slow node before and
  after the approval, and the conditional node before it. The last node is under a
  timeout, so a cancellation may be swallowed there. The task and the call execute the run one after the other and at the same
  time: a resume finds the task in a node, at its checkpoint, or over and not cleaned up. A third
  execution or a second run adds interleavings of the same steps; the theorems cover them. One failure to record meets
  each write in turn, and a crash what it left.
- *approvals*: two callers overlap on one approval, or on two; with a cap of 1 the
  second approval pushes the first out of the file. Crashes are not counted.
- *sandbox tasks*: a full queue, a requeue of a task that is queued, runs, or has
  ended next to a second task that competes with it; the stop meets the loop in
  each of its places, and the start after it finds what it left.
- *agent loop*: a plan has one step and `final` at first, and grows by a retried write
  (one step), a repair (two) and a new plan (one), so that several held-back
  steps go round within five iterations. The second run resumes the first, in or out of
  a workflow. One open session and the approvals come and go.
- *batches*: three calls make a layer after a layer after a layer, a reference over two of them, a
  cycle with a call outside; the fourth, in a batch of its own, is equal to the first, so that the
  batches meet at one entry. Two tools, and arguments that results have been put into, compete for the
  one entry of the cache; the clock passes the TTL while calls run.
- *graphs*: with four nodes there are diamonds, cycles of every length with a way
  in and out of them, loops, and isolated nodes. The proofs cover the rest.

Fairness, and why the code justifies it:

- `DefinitionStore!FairSpec`: a thread inside a call goes on; locks are released
  on all paths and file I/O returns or raises. Threads are not required to start
  calls.
- `WorkflowSchedule!PolledSpec` (`schedule_settles`): time passes; supervisors restart a process (Kubernetes and
  compose both do); `run_due` does not stop in the middle; the worker's
  `while True` goes on; and somebody keeps calling `run-due`,
  an assumption about the deployment, not a fact of the code.
- `WorkflowRuntime!FairSpec`: asyncio runs ready callbacks in FIFO order, so what
  is ready again and again runs. It is strong fairness because other jobs hold
  the loop in between. A node ends by itself or by its timeout: an agent node
  without either is outside this assumption. Nobody is required to start, pause, approve or
  resume anything.

- `SandboxTasks!FairSpec`: the drain loop goes on; it is one coroutine, its timeouts
  fire and processing ends (`sandbox.run` has a timeout). Nobody is required to start it,
  to resume the queue or to requeue.
- `AgentLoop!FairSpec`: each await of an iteration returns; the bound on iterations is the
  code's.

- `ParallelTools!FairSpec`: the event loop runs what is ready and sleeps end; a semaphore
  wakes its waiters in order. That the tools return is assumed, not given: no
  execution has a timeout (section 5). Nobody is required to submit a batch.

Deadlock is checked for the store and the schedules. It is not for the runtime,
where all runs may be over, the node order and the agent, which end, the
approvals, where a torn file stops the process, the sandbox tasks, where the
worker may be off and every bound used up, nor the batches, which all end.

## 4. The proofs

`DefinitionStoreProofs`, for any numbers of threads, ids, definitions, versions:

- `TypeCorrect`, `AcknowledgedIsDurable`, `FileHoldsASnapshot`, `QuiescentIsOnDisk`:
  the four invariants. The last three are not inductive alone. `Inv` adds: memory
  and file hold what `history` says they held at their versions (`Positions`); a
  thread in `_persist_snapshot` still has the version and the snapshot it took
  (`Snapshots`); who is past `TakeIoLock` holds `ioLock`, so that at most one thread
  is, and a thread about to replace the file is not older than what is on disk
  (`Locking`); the newest version is on disk, failed, or still carried by its thread
  (`LastVersion`). One lemma per action, one step per conjunct it can disturb.
- `Refinement`: `Spec => ImplementsDurable`, from the same invariant: a commit is
  a `Mutate`, `Replace` is a `Flush`, `Crash` is a `Lose`, the rest stutters.

`TopologicalOrderProofs`, for every number of nodes and every graph:

- `TypeCorrect` (no indegree below 0), `LoopCountsAreRight`, `OrderRespectsEdges`:
  their conjunction is inductive, while neither is alone: the counts say that
  the head of the queue has all its sources placed.
- `OrderIsLeast`: the order that is built is the lexicographically least of all that respect
  the edges. `LeastSoFar` compares the nodes placed so far with the beginning of any such order:
  where the two agree, the next node of the other is in the queue (its sources are placed, and
  `CountsAreRight` then puts it there), and the loop takes the least of the queue. That an order
  places every node is a matter of counting: as many places as nodes, and no node twice.
- `CyclesAreRejected`: "has a cycle" is stated as a non-empty set of nodes each of
  which has a source in the set. With `EndInv` no such set ever has a member
  placed, and when the queue is empty the nodes left are such a set, or there
  are none and the lengths agree.

`WorkflowScheduleProofs`, for any numbers of schedules and crashes, any lease, limit
and cap, and whatever happens to a write:

- `TypeCorrect` and `TriggeredHasRun`, for any number of processes that share the
  file. `Base` adds to them what a `run_due` call is about: the record it handles
  is in its memory, and the rest of its batch is pending there (`Handling`), since
  nothing but this call changes the memory meanwhile.
- `RunsOncePerLoad`, for any number of processes (finite) and any faults of the disk: a
  process starts a schedule at most once between two loads of the file, since the record it holds
  is pending before and never again after. `LoadInv` counts the starts of a schedule by what each
  process has spent (`SpentBy`): the sum never exceeds the number of processes plus the
  loads after the first.
- `ConfirmedIsKept`, for one process and any cap: what is among the `Cap` latest of all schedules
  is among the `Cap` latest of any part it belongs to (`NewestOfPart`), so no save drops it,
  and what is in memory and not on disk was not confirmed (`KeptInv`).
- `RunsOncePerCut`, `RunsAreRecorded`, `LeasesExclude` and `WithdrawnStays`, also for one
  process (`OneProcess`). The assumption cannot go: with two processes TLC
  violates `LeaseExclusion` (`schedule_lease_apart`). `Inv` says of every
  pending record, in memory or on disk, that its schedule is still open: not
  withdrawn, and each of its runs belongs to a call that was cut short or is
  still to mark it; and that the record carries at least the lease that was
  granted (`Records`). A file is trusted as memory is, because a restart makes one
  of the other. The two action properties follow from `Inv` and one step.

`WorkflowRuntimeProofs`, for every workflow and any numbers of runs, callers, attempts
and crashes:

All of them hold when executions of a run overlap, nodes are under timeouts and records cannot be
written. A step has one of few shapes: an execution moves on and records nothing (`MovesOn`), it ends with
its record (`EndsWith`), an execution begins with a fresh record, a task is over without one, or a control call
restates a record (`Controls`). That each action has its shape is proved once; that each shape keeps
an invariant, once per invariant. The inductive invariant `Inv` is:

- `Base` (for `TypeCorrect`, `PauseHolds`): types, and what an execution is about (`JobInv`): it is in the loop or past the
  checkpoint exactly when it has the event loop, is not paused past the checkpoint, is canceled
  only as a managed task and not while it has the loop; a managed run has a job (`Managed`).
- `LiveInv` (for `InProgressLives`): a run in progress that nothing has cut has an execution. What a step can take away
  is an execution that ends, and that leaves a record which is not in progress, unless another
  execution writes later, and then that one lives. A task before its first step counts only
  if it will run (`Waiting`).
- `CoverInv` (for `CompletedCovers`): an execution is past no node that no execution of its run has been at, and no record, in memory
  or in the file, counts such a node. So a cursor never takes an execution past one, whoever
  wrote it: it is a number of results, and there are never more of them than nodes that were passed.
- `CancelInv` (for `CancelHolds`): a run that is canceled and not outlived is so in memory and in the file, no call executes it, and its task is
  over or will be told.

`EndedHolds` is an action property from `Base` and the shapes.

`ApprovalsProofs`, for any numbers of approvals, callers and any cap:

- `TypeCorrect`; `NewestStay`: an approval among the newest `Cap` has fewer than `Cap`
  newer ones in any map, so every write keeps it, and what is in memory and not on
  disk was not confirmed. `ExecutionsAreSpent` and `RejectionsHold` are action
  properties: their invariant says that an approval whose mark was made, or that is barred, is not "approved"
  in memory, nor, once saved, on disk, so `BeginExecute` does not find it. An execution that ends
  without its mark takes nothing away from the marks that others have made (`UnmarkedKeeps`).

`SandboxTasksProofs`, for any numbers of tasks, priorities, retries and stops:

- `TypeCorrect`; `RunsAreCounted` and `NothingIsLost`. A queued task has one copy and is in
  `task_map` unless removed; a requeue pushes a copy only if there is none; who is
  handed out is `cur` until it has a final status or a stop cuts it, and a stop cuts one
  task, which the cardinality of `cut` against `stops` counts.
- `Refinement`: `Spec => ImplementsService`, one lemma per group of actions. A submission is an
  `Accept`, a requeue an `AskAgain` even of a task that is queued, runs or has ended, `clear` and
  `remove_task` are a `Withdraw`, `Finish` is an `Answer` and a stop an `Interrupt` or a stutter.
  That a dequeue is a `Run` needs the counts: one copy at most, and as many runs left as were
  asked for; and that a task not yet accepted has none of them (`Unborn`).

`AgentLoopProofs`, for any tools, plans, numbers of subtasks, iterations and runs:

- `TypeCorrect`, `SubtasksStayInOrder`, `StepsAreKept`: one inductive invariant.
  That `Advance` never skips an open subtask needs the order itself: the next one that
  is not done is the very next one. For `StepsAreKept`, `Owed` says that what is owed to the run is what is in
  its plan, step by step, through deferrals that rotate it and repairs, re-reads and reflections that put steps in front
  (lemmas on counting in sequences), and `LeftOver` that a run which is answered early has an
  empty plan or a single step that may be held back; together, that such a run has taken
  every other step.

`ParallelToolsProofs`, for any batches, calls, references, options, slots, retries, sizes and TTL:

- `TypeCorrect`, `LayersAreInOrder`, `ReferencesHold`, `FailuresStop`, `BatchesComplete`,
  `CacheStaysBounded`: parts of one inductive invariant, `IInv`. It adds where the calls of a batch
  are: those in `rest` have not begun, those of the layer are under way or done, the others are
  done and have a result (`Structure`); the references of all who are not in `rest` lead out of
  it (`Ordered`); what a batch that is not to go on after failures has passed has not failed
  (`Passed`); a batch at its end has nothing left, since a rest that no layer can be taken
  from is a cycle, and such a batch was rejected (`Completing`). That the results are those
  of *all* earlier layers is what `ReferencesCarry` needs; it says what becomes of a nested reference, too. The cache holds finitely many
  entries, each with the output of its creation (`CacheSound`), and there is always one
  to evict. `HitsStayFresh` is an action property from the same.
- `NothingGetsStuck`: a batch that runs has a step to take (the call that has waited longest may
  enter, or all are done and the layer ends) and a full cache has an entry to evict. It is
  what deadlock freedom means for batches that share a semaphore per batch and a cache.
- `SearchAnswers`, for every graph and every order in which Python may go through it: the search
  reports a cycle exactly if `HasCycle` holds, and only real ones. The invariant (`SearchInv`) says that
  the path is one, and, as long as nothing was reported, that what has been looked at from the path is
  finished or next on it, that whatever refers to a finished node is finished, and that the finished
  nodes have no cycle: the return from a node adds it to them, and a cycle through it would have
  to go on to a finished one. `SearchGoesOn`: it is never stuck before its end.
  `SearchIsBounded`: it makes at most two steps for every node and one for every pair of nodes, since
  what was looked at is never looked at again; so it ends.
- `OmissionsReported`: `build_execution_plan` leaves calls out, silently, exactly when the search, which
  never looks at the plan, reports a cycle. No call of a cycle ever gets into a layer, and what is left
  when no layer can be taken is one. `LayersAreEarliest`: no call is in a layer too early or later than
  it need be. `RejectedAsSearched`: the guards of `SubmitLayers` and `Reject` are what the search answers.

The theorems about the search and the plan are inductions over the turns of a loop, made as arguments about the first turn
that goes wrong, which `LeastNumber` (from the library's theorem on well-founded relations) provides.

Assumptions used: the constants' `ASSUME`s in the modules and, where it is said,
`OneProcess`; nothing else.

Only model-checked: liveness, since fairness and ENABLED are out of reach of the prover
(`EveryPersistEnds`, `ConfirmedSettles`, `RunEnds` of the runtime and of the agent,
`QueuedEnds`, `BatchEnds`). Every other property of a passing run is the
subject of a theorem.

Proved, and not repeated in the runs: the type invariants except that of `WorkflowRuntime`,
whose counts of attempts it bounds; `CountsAreRight`, `DependenciesFirst`, `CacheIsBounded`,
`OneRunPerRetry` and `NothingIsStuck`. TLC was used to look for counterexamples to each of them before.

## 5. What the code does that its texts do not say

Each is a run that TLC finds violated; `PROJECT.json`, "findings", has the quotes.

- *Leases between processes* (`workflows.py:603`): each decides from its own memory,
  so two acquire the same schedule while its lease runs.
- *`--once`* (`workflow_worker.py:78`): the runs are started, take their first step, and are
  canceled at the first await at which they really wait; their schedules are marked as triggered.

Met while modelling, without a run of their own. In the workflow engine:

- `workflows.py:652`: the worker loads the file once, so what the API creates later
  is never due for it, and when the worker marks one of its own it rewrites the file without
  those (`:661`): after a restart of the API they are gone, confirmed or not. `src/README.md:133` starts the
  worker next to the API. `ConfirmedKept` and `ConfirmedSettles` are about a file with one user.
- `api/workflows.py:250`: a resume passes the approval of the pending node and starts over;
  with two approval nodes it asks again for the other, for ever.
- `api/workflows.py:247`, `workflows.py:1201`: any approved approval of any run, node or tool counts as the
  grant for the node that is pending. An approval node may also be skipped: when executions of a run
  overlap, the cursor that one leaves takes the other past it.
- `workflows.py:713`: resuming a run begins at its first node, while
  `src/docs/tutorials/02-workflow-orchestration.md:30` says "支持从失败点恢复".
- `workflows.py:498`: a run that was under way when the process died stays RUNNING or PAUSED for ever.
  So does one whose first record was made in memory and could not be appended (`:315`, from `:713` or `:1798`).
  `cut` names them, and `InProgressIsLive` and `RunEnds` that there are no others.
- `workflows.py:1037`: `wait_for` returns the result of a node that has just finished
  and drops the cancellation, so a canceled run can complete, after `cancel_latest` has answered
  "Workflow run canceled." (`:1911`). A run that an API call executes too is not ended by its cancellation
  either. `CanceledStays` is about all others (`outlived`).
- `workflows.py:748` compares with the cursor of the shared record: of two
  overlapping resumes, one can skip nodes because of the other, and record
  completion without their results. `CompletedCoversAll` is what remains: some execution of the run was at each.
- `workflows.py:713`: a pause before the first step of the task is overwritten by
  the RUNNING record; the task is held at the checkpoint, shown as running.
- `workflows.py:1639`: `_capture_node_failure` uses `evolution_store` and
  `LearningRecord`, which the module does not import: every failing node ends in
  a NameError, recorded instead of the node's own error. The model's `Fail` is the
  way this takes; the text of errors is not modelled.

Approvals and tools:

- Two execute requests that overlap run an approved tool twice (`tools.py:846`), the first
  of them not yet answered; `src/tests/test_approvals.py:54` tests one after the other.
- When the record of an execution cannot be written (`tools.py:879`, and `:205` behind it), the request fails and an approval
  whose tool raised stays APPROVED: it can be executed again (`unmarked`), against "EXECUTED ← 工具实际执行后" (`src/docs/APPROVAL_GUIDE.md:52`).
- A rejected record can be approved again, against `src/docs/APPROVAL_GUIDE.md:237`.
- A pending or rejected record that somebody executes ends as EXECUTED
  (`api/approvals.py:194`); `src/docs/APPROVAL_GUIDE.md:60` has no such way.
- When the approval that a successful high-risk tool leaves cannot be written
  (`tools.py:443`), the tool is reported as failed.

Task queue and sandbox tasks:

- `task_queue.py:161`: an empty paused queue sleeps with the lock, so `resume`, `enqueue` and
  `stop` wait for ever; and a pause does not keep a non-empty queue from handing out.
- `task_queue.py:239`: `remove_task` of a dequeued task raises ValueError.
- `sandbox_tasks.py:119`: `dequeue` is outside the try, so a stopped queue ends the loop, and
  resuming the queue does not bring it back.
- A requeue ignores `max_size`. A task that a stop of the worker cut keeps the
  status "running". `_status` and `_results` only grow.

Agent loop:

- `dependencies.py:323`: `get_agent` gives the loop neither an approval store nor sessions, so in the application only
  the caller's context holds a tool back; and a context that says anything of approvals keeps the
  store from being asked (`loop.py:1485`).
- A repair retries with `arguments_preview`, where every value is a string cut to 120
  characters (`tools.py:897`).
- `_repair_write_step` counts for no retry budget, so "显式的 0 表示“禁止重试”" (`loop.py:600`)
  does not hold for writes, and a failed write is put in front twice.
- Tools other than the reading ones, and a second observe step, mark "apply
  modification" as done, against the comment at `loop.py:2571`.
- A run's answer is its last reflection, even if tools ran after it.
- `loop.py:1916`: `_maybe_replan_after_failure` calls `model_dump` on plain dataclasses, so a failed or
  unconfirmed write whose file cannot be read ends the run in an AttributeError, unanswered and
  unsaved (`ReplanRaises`).

Batches of tool calls:

- `api/tools_batch.py:64` calls `agent.get_context()`, which `AgentLoop` does not have, so the handler of
  `execute` answers 500; the models start from the methods of `ToolRegistry`, which it would call.
- With `allow_partial_failure` False, "stop on first failure" (`tools.py:600`), both branches await the
  same gather (`parallel_tool_executor.py:316`): all calls of `execute_batch`, or of a layer, are run.
- `tools_batch.py:252`: the handler that is to "clear the tool result cache" clears one it has just made.
- `tool_result_cache.py:190`: an entry that was not read yet has `last_accessed` 0 and is evicted before
  those that were read long ago; its comment says "least recently used".
- `parallel_tool_executor.py:491`: `${id.success}`, which `parallel_tool_prompt.py:204` offers to models, is
  waited for and passed on as text.
- `parallel_tool_executor.py:399`: neither `timeout_seconds` nor `default_timeout` is applied.
- Equal calls side by side are both run; a batch takes a result from the cache also for a tool
  that writes, so the second of two equal writes within the TTL is not executed.
- `parallel_tool_executor.py:479`: references nested in lists or dicts are waited for
  (`tool_dependency_analyzer.py:199`) and never resolved, while `parallel_tool_prompt.py:202` offers
  `${call_id.output}` without that exception; and `calls` of `execute_batch` are passed on with their references as text.
- `graph.edges` has one call per id: with two calls of one id both run, and one result is lost.

## 6. The plan

Done: DurableSnapshots, DefinitionStore, TopologicalOrder, WorkflowSchedule,
WorkflowRuntime, WorkerOnce, Approvals, TaskService, TaskQueue, SandboxTasks, AgentLoop,
ToolGraph, CycleSearch, ToolPlan, ParallelTools, and the proofs of section 4. Next, in this order:

1. `Approvals` composed with `WorkflowRuntime`, in place of its `Approve` and `Reject`.
2. An abstract specification of a run (started, asked, ended) that `WorkflowRuntime` implements, with
   executions that overlap, and the proof.
3. The theorems for one process over a file under weaker assumptions: several processes
   of which one writes.
4. The issue pipeline of the webhook, with two deliveries of one issue.

## 7. Not modelled, and why

The reasons are in `PROJECT.json` for each component. In short: the circuit
breaker and the container pool are not reached by the application (their users
are imported by tests and examples only), and the API's synchronisation has no
cloud end yet. Prompts, profiles, memory and retrieval are text and numeric
scores; browser, desktop, search and sandbox backends are I/O against external
programs; authentication, billing and quotas are data access; clients are
clients. The vendored and generated code, deployment files and user interfaces
have no state of the core. Of the sandbox tasks, the orchestrator's own service
loop and `run_until_empty`, which the application does not start. Of the
approvals, several processes over one file: each would overwrite the other's
records, as in `WorkflowSchedule`. Of the batches, statistics, the migration mode (a gather
or a loop over a function that is passed in), and outputs None, which read as misses. Within the workflow engine: the contents of results,
history entries and audit events, learning and memory records, and the repair of
run files with a torn last line, which stops the start of the process.
